------------------------------- MODULE Ledger -------------------------------
(***************************************************************************)
(* What a block does to the set of unspent coins, and how it is undone     *)
(* (ConnectBlock, UpdateCoins, CheckTxInputs, DisconnectBlock and          *)
(* ApplyBlockUndo of validation.cpp, the undo records of undo.h).          *)
(*                                                                         *)
(* A transaction output may be locked for a number of blocks and carry a   *)
(* principal: the part of its value above the principal is interest, which *)
(* is minted.  A block header commits to nChainInterest, all the interest  *)
(* paid up to that block.                                                  *)
(*                                                                         *)
(* An outpoint is <<id, n>>; the id of a coinbase is its height and what   *)
(* it pays.  The height is in it because CreateNewBlock puts it there; no  *)
(* rule demands it, and a coinbase that repeats a spent one of a lower     *)
(* height is not modelled.  Scripts, signatures, sizes and MoneyRange are  *)
(* left out: the transactions the model draws from pass those checks.      *)
(***************************************************************************)
EXTENDS Integers, Sequences, FiniteSets, FiniteSetsExt, Functions

CONSTANTS
    Txs,               \* the transactions that are not coinbases
    Inputs,            \* [Txs -> sequence of outpoints]
    Outputs,           \* [Txs -> sequence of [value, principal, lock]]
    Bodies,            \* the transaction sequences offered in blocks
    Rewards,           \* what the coinbases of offered blocks pay
    GenesisReward,     \* consensus.nGenesisReward
    GenesisLock,       \* the lock time of the genesis output
    GenesisInterest,   \* nChainInterest of the genesis block
    Subsidy,           \* GetBlockSubsidy, the same at every height
    CoinbaseMaturity,  \* COINBASE_MATURITY
    LockRate,          \* [lock time -> interest per unit of principal]
    TotalInterest,     \* Params().TotalInterest()
    DecayPoints,       \* the period ends of module Interest
    WordSize,          \* 2^32 in the code: heights are uint32_t
    MaxHeight          \* bound: the chain is not extended beyond this height

OutPoint == (Txs \cup [height : Nat, reward : Nat]) \X Nat
TxOut == [value : Nat, principal : Nat, lock : Nat]

\* CheckTransaction lets no transaction through that is without inputs or
\* outputs; a transaction is no coinbase.  It may name an input twice: CheckBlock
\* skips that check, and only the pool makes it.
ASSUME LedgerAssumption ==
    /\ Inputs \in [Txs -> Seq(OutPoint)]
    /\ Outputs \in [Txs -> Seq(TxOut)]
    /\ \A t \in Txs :
          /\ Inputs[t] # <<>> /\ Outputs[t] # <<>>
          /\ t \notin [height : Nat, reward : Nat]
    /\ Bodies \subseteq Seq(Txs) /\ Rewards \subseteq Nat
    /\ GenesisReward \in Nat /\ GenesisLock \in Nat /\ GenesisInterest \in Nat
    /\ Subsidy \in Nat /\ TotalInterest \in Nat /\ CoinbaseMaturity \in Nat \ {0}
    /\ MaxHeight \in Nat /\ WordSize \in Nat /\ MaxHeight < WordSize

VARIABLES
    utxo,   \* the unspent coins: a function from outpoints to coins
    chain   \* the connected blocks after genesis, each with its undo data

vars == <<utxo, chain>>

-----------------------------------------------------------------------------
(* Transactions.                                                           *)

\* CTransaction::GetValueOut, GetValueOutWithoutInterest and GetInterest.
GetValueOut(outs) == SumFunction([n \in DOMAIN outs |-> outs[n].value])

GetValueOutWithoutInterest(outs) ==
    SumFunction([n \in DOMAIN outs |->
        IF outs[n].principal > 0 THEN outs[n].principal ELSE outs[n].value])

GetInterest(outs) ==
    SumFunction([n \in DOMAIN outs |->
        IF outs[n].principal # 0 /\ outs[n].value > outs[n].principal
          THEN outs[n].value - outs[n].principal ELSE 0])

\* GetTxInterest: what the schedule allows the outputs of a transaction at the
\* nChainInterest of the previous block.  A rate is halved per decay.
ScheduleRate(lock, chainInterest) ==
    LET left == TotalInterest - chainInterest
        decays == Cardinality({p \in DecayPoints : left <= p})
    IN  IF left <= 0 \/ lock \notin DOMAIN LockRate THEN 0
        ELSE LockRate[lock] \div 2^decays

GetTxInterest(outs, chainInterest) ==
    SumFunction([n \in DOMAIN outs |->
        outs[n].principal * ScheduleRate(outs[n].lock, chainInterest)])

Coin(out, height, coinbase) == [out |-> out, height |-> height, cb |-> coinbase]

CoinbaseId(height, reward) == [height |-> height, reward |-> reward]
CoinbaseOut(reward, lock) == [value |-> reward, principal |-> 0, lock |-> lock]

\* The coins of a transaction's outputs.
CoinsOf(id, outs, height, coinbase) ==
    [op \in {<<id, n>> : n \in DOMAIN outs} |->
        Coin(outs[op[2]], height, coinbase)]

\* AddCoins: coins put into a view, over those it has.
AddCoins(coins, view) ==
    [op \in DOMAIN coins \cup DOMAIN view |->
        IF op \in DOMAIN coins THEN coins[op] ELSE view[op]]

HaveInputs(view, t) == Range(Inputs[t]) \subseteq DOMAIN view

GetValueIn(view, t) ==
    SumFunction([i \in DOMAIN Inputs[t] |-> view[Inputs[t][i]].out.value])

\* The depth of a coin at a spending height.  Both the subtraction and the
\* comparisons with it are unsigned in the code.
Depth(height, coin) == (height - coin.height) % WordSize

\* The maturity tests of CheckTxInputs, for a coinbase and for a locked coin.
Mature(coin, height) ==
    IF coin.cb THEN Depth(height, coin) >= CoinbaseMaturity
               ELSE Depth(height, coin) > coin.out.lock

\* Consensus::CheckTxInputs.
CheckTxInputs(view, t, height, chainInterest) ==
    /\ HaveInputs(view, t)
    /\ \A op \in Range(Inputs[t]) : Mature(view[op], height)
    /\ GetValueIn(view, t) + GetTxInterest(Outputs[t], chainInterest)
         >= GetValueOut(Outputs[t])
    /\ GetValueIn(view, t) >= GetValueOutWithoutInterest(Outputs[t])

-----------------------------------------------------------------------------
(* Connecting a block.                                                     *)

Height == Len(chain)
Tip == chain[Height]
ChainInterest == IF chain = <<>> THEN GenesisInterest ELSE Tip.interest

\* The inputs are recorded for undo but not spent.
ConnectTxNotSpent(s, t, height, chainInterest) ==
    IF ~ s.ok \/ ~ CheckTxInputs(s.view, t, height, chainInterest)
      THEN [s EXCEPT !.ok = FALSE]
      ELSE [s EXCEPT !.view = AddCoins(CoinsOf(t, Outputs[t], height, FALSE), @),
                     !.undo = Append(@, [i \in DOMAIN Inputs[t] |->
                                            s.view[Inputs[t][i]]])]

\* The input names the outpoint of an earlier input of the same transaction.
Repeated(t, i) == \E j \in 1..(i - 1) : Inputs[t][j] = Inputs[t][i]

\* What SpendCoin leaves of a coin, and returns when it is spent once more.
Cleared == Coin([value |-> -1, principal |-> 0, lock |-> 0], 0, FALSE)

\* UpdateCoins for one transaction of a block, with the running totals of
\* ConnectBlock.  ok is cleared by the first transaction that is rejected.  An
\* input named twice counts twice, and SpendCoin finds the cleared coin, which
\* goes into the undo data; if the coin is of this very block it finds nothing,
\* and the assertion on is_spent stops the node with the block not connected.
ConnectTx(s, t, height, chainInterest) ==
    IF \/ ~ s.ok
       \/ ~ CheckTxInputs(s.view, t, height, chainInterest)
       \/ \E i \in DOMAIN Inputs[t] :
             Repeated(t, i) /\ s.view[Inputs[t][i]].height = height
      THEN [s EXCEPT !.ok = FALSE]
      ELSE [ok |-> TRUE,
            view |-> AddCoins(CoinsOf(t, Outputs[t], height, FALSE),
                              Restrict(s.view, DOMAIN s.view \ Range(Inputs[t]))),
            undo |-> Append(s.undo, [i \in DOMAIN Inputs[t] |->
                                        IF Repeated(t, i) THEN Cleared
                                        ELSE s.view[Inputs[t][i]]]),
            fees |-> s.fees + GetValueIn(s.view, t)
                            - GetValueOutWithoutInterest(Outputs[t]),
            interest |-> s.interest + GetInterest(Outputs[t])]

\* The outputs a block creates, whatever becomes of them.
OutPointsOf(block, height) ==
    {<<CoinbaseId(height, block.reward), 1>>} \cup
    UNION {{<<t, n>> : n \in DOMAIN Outputs[t]} : t \in Range(block.body)}

\* ConnectBlock on a view: the check that no output exists already, the
\* coinbase, then the transactions in order.
ConnectAll(view, block, height, chainInterest) ==
    LET coinbase == CoinsOf(CoinbaseId(height, block.reward),
                            <<CoinbaseOut(block.reward, 0)>>, height, TRUE)
        start == [ok |-> OutPointsOf(block, height) \cap DOMAIN view = {},
                  view |-> AddCoins(coinbase, view), undo |-> <<>>,
                  fees |-> 0, interest |-> 0]
        after[n \in 0..Len(block.body)] ==
            IF n = 0 THEN start
            ELSE ConnectTx(after[n - 1], block.body[n], height, chainInterest)
    IN  after[Len(block.body)]

\* The limit on the coinbase ignores that interest is not a fee.
BlockAcceptedFeesAndInterest(done, block, chainInterest) ==
    /\ done.ok
    /\ block.interest = chainInterest + done.interest
    /\ block.reward <= done.fees + done.interest + Subsidy

\* The checks of ConnectBlock after its loop: the interest the header commits
\* to and the amount the coinbase pays.
BlockAccepted(done, block, chainInterest) ==
    /\ done.ok
    /\ block.interest = chainInterest + done.interest
    /\ block.reward <= done.fees + Subsidy

Blocks == [body : Bodies, reward : Rewards,
           interest : GenesisInterest..(GenesisInterest + 2 * TotalInterest)]

\* ConnectTip: a rejected block leaves no trace in the coins, because the view
\* it was applied to is dropped.
ConnectBlock(block) ==
    /\ Height < MaxHeight
    /\ LET done == ConnectAll(utxo, block, Height + 1, ChainInterest)
       IN  /\ BlockAccepted(done, block, ChainInterest)
           /\ utxo' = done.view
           /\ chain' = Append(chain, [body |-> block.body,
                                      reward |-> block.reward,
                                      interest |-> block.interest,
                                      undo |-> done.undo])

-----------------------------------------------------------------------------
(* Disconnecting a block.                                                  *)

\* The undo record keeps the output and its height, but not that the coin is a
\* coinbase.
UndoCoinSpendNotCoinbase(s, op, coin) ==
    [s EXCEPT !.clean = @ /\ op \notin DOMAIN s.view,
              !.view = AddCoins([o \in {op} |-> Coin(coin.out, coin.height, FALSE)], @)]

\* UndoCoinSpend.  An undo record of height 0 is taken to lack its metadata,
\* which is then looked up in another unspent output of the same transaction;
\* without one the result is DISCONNECT_FAILED.
UndoCoinSpend(s, op, coin) ==
    LET alternates == {o \in DOMAIN s.view : o[1] = op[1]}
        other == s.view[CHOOSE o \in alternates :
                            \A p \in alternates : o[2] <= p[2]]
        restored == IF coin.height # 0 THEN coin
                    ELSE Coin(coin.out, other.height, other.cb)
    IN  IF s.failed \/ (coin.height = 0 /\ alternates = {})
          THEN [s EXCEPT !.failed = TRUE]
          ELSE [view |-> AddCoins([o \in {op} |-> restored], s.view),
                clean |-> s.clean /\ op \notin DOMAIN s.view, failed |-> FALSE]

\* Take a transaction's outputs out of a view, noting any that is missing or
\* differs from what the block says.
TakeOutputs(s, id, outs) ==
    LET ops == {<<id, n>> : n \in DOMAIN outs}
    IN  [view |-> Restrict(s.view, DOMAIN s.view \ ops),
         clean |-> s.clean /\ \A op \in ops : /\ op \in DOMAIN s.view
                                               /\ s.view[op].out = outs[op[2]],
         failed |-> s.failed]

\* The inputs of a transaction, last to first.
UndoInputs(s, t, coins) ==
    LET len == Len(Inputs[t])
        back[n \in 0..len] ==
            IF n = 0 THEN s
            ELSE UndoCoinSpend(back[n - 1], Inputs[t][len + 1 - n], coins[len + 1 - n])
    IN  back[len]

\* ApplyBlockUndo: transactions last to first, of each its outputs and then its
\* inputs, the coinbase at the end.
UndoTx(s, t, coins) == UndoInputs(TakeOutputs(s, t, Outputs[t]), t, coins)

ApplyBlockUndo(view, entry, height) ==
    LET len == Len(entry.body)
        start == [view |-> view, clean |-> TRUE, failed |-> FALSE]
        back[n \in 0..len] ==
            IF n = 0 THEN start
            ELSE UndoTx(back[n - 1], entry.body[len + 1 - n], entry.undo[len + 1 - n])
    IN  TakeOutputs(back[len], CoinbaseId(height, entry.reward),
                    <<CoinbaseOut(entry.reward, 0)>>)

DisconnectOK(undone) == undone.clean /\ ~ undone.failed

\* DisconnectTip: only DISCONNECT_OK is acted upon; otherwise the view is
\* dropped and the tip stays where it is.
DisconnectBlock ==
    /\ chain # <<>>
    /\ LET undone == ApplyBlockUndo(utxo, Tip, Height)
       IN  /\ DisconnectOK(undone)
           /\ utxo' = undone.view
    /\ chain' = SubSeq(chain, 1, Height - 1)

-----------------------------------------------------------------------------
GenesisCoins ==
    CoinsOf(CoinbaseId(0, GenesisReward),
            <<CoinbaseOut(GenesisReward, GenesisLock)>>, 0, TRUE)

\* The genesis block is connected when the block index is first set up.
Init == utxo = GenesisCoins /\ chain = <<>>

Next ==
    \/ \E block \in Blocks : ConnectBlock(block)
    \/ DisconnectBlock

Spec == Init /\ [][Next]_vars

-----------------------------------------------------------------------------
(* The reference: what the unspent coins are, said without any order.      *)

\* Every outpoint that genesis and the first k blocks create, and every one
\* that these blocks spend.
CreatedBy(blocks, k) ==
    {<<CoinbaseId(0, GenesisReward), 1>>} \cup
    UNION {OutPointsOf(blocks[h], h) : h \in 1..k}

SpentBy(blocks, k) ==
    UNION {UNION {Range(Inputs[t]) : t \in Range(blocks[h].body)} : h \in 1..k}

\* The coin of an outpoint, as the block that has its transaction creates it.
CoinCreated(blocks, k, op) ==
    IF op[1] \in Txs
      THEN Coin(Outputs[op[1]][op[2]],
                CHOOSE h \in 1..k : op[1] \in Range(blocks[h].body), FALSE)
      ELSE Coin(CoinbaseOut(op[1].reward, IF op[1].height = 0 THEN GenesisLock ELSE 0),
                op[1].height, TRUE)

UnspentAfter(blocks, k) ==
    [op \in CreatedBy(blocks, k) \ SpentBy(blocks, k) |-> CoinCreated(blocks, k, op)]

Supply == SumFunction([op \in DOMAIN utxo |-> utxo[op].out.value])

UndoHeights(entry) ==
    UNION {{coin.height : coin \in Range(u)} : u \in Range(entry.undo)}

-----------------------------------------------------------------------------
\* The types of the coins and of the undo data (Coin in coins.h, CTxUndo and
\* CBlockUndo in undo.h): one record per transaction, one coin per input.
TypeOK ==
    /\ \A op \in DOMAIN utxo :
          /\ op \in OutPoint
          /\ utxo[op] \in [out : TxOut, height : 0..Height, cb : BOOLEAN]
    /\ Height \in 0..MaxHeight
    /\ \A b \in Range(chain) :
          /\ Len(b.undo) = Len(b.body)
          /\ \A i \in DOMAIN b.body : Len(b.undo[i]) = Len(Inputs[b.body[i]])

\* After any sequence of connected and disconnected blocks, pcoinsTip holds
\* exactly the coins the active chain created and did not spend, each with the
\* height and the coinbase flag of the block that created it: what
\* ApplyBlockUndo restores from the undo records is what UpdateCoins took, and
\* blocks that were disconnected leave nothing behind.
UtxoIsUnspent == utxo = UnspentAfter(chain, Height)

\* The money in existence is never more than the genesis reward, one subsidy
\* per block and the interest the headers of the chain commit to, although a
\* fee is computed from the principal of an output and not from its value, and
\* the coinbase is limited by the fees (ConnectBlock, CheckTxInputs).  This is
\* said of the chains in which no transaction names an input twice.
SupplyBounded ==
    (\A b \in Range(chain) : \A t \in Range(b.body) : IsInjective(Inputs[t])) =>
        Supply <= GenesisReward + Subsidy * Height
                    + (ChainInterest - GenesisInterest)

\* The rule that freezes a coin for its lock time (CheckTxInputs) also keeps a
\* transaction from spending an output of its own block, whatever the lock
\* time: what a valid block does to the coins does not depend on the order of
\* its transactions, and no order of them is less valid than another.
OrderIrrelevant ==
    chain # <<>> =>
        LET b == Tip
            before == UnspentAfter(chain, Height - 1)
            paid == IF Len(chain) = 1 THEN GenesisInterest
                                      ELSE chain[Height - 1].interest
        IN  \A f \in {g \in [DOMAIN b.body -> DOMAIN b.body] : IsInjective(g)} :
                LET shuffled == [body |-> [i \in DOMAIN b.body |-> b.body[f[i]]],
                                 reward |-> b.reward, interest |-> b.interest]
                    done == ConnectAll(before, shuffled, Height, paid)
                IN  BlockAccepted(done, shuffled, paid) /\ done.view = utxo

\* The coins of the tip are those of its blocks, in whatever order the blocks have
\* their transactions and over every sequence of connects and disconnects.
CoinsExact == UtxoIsUnspent /\ OrderIrrelevant

\* Every block that spends no coin of the genesis block, and no coin twice, has
\* undo records with a height and can be disconnected
\* cleanly, whatever was connected and disconnected before it: its outputs are
\* all there, and none of the coins it spent is (DISCONNECT_OK).
TipDisconnects ==
    chain # <<>> /\ 0 \notin UndoHeights(Tip) =>
        DisconnectOK(ApplyBlockUndo(utxo, Tip, Height))

\* UndoCoinSpend says of an undo record of height 0 that the missing metadata
\* "must be present for some other output of the same tx".  So no block that
\* was connected would ever fail to disconnect.
EveryTipDisconnects ==
    chain # <<>> => DisconnectOK(ApplyBlockUndo(utxo, Tip, Height))
=============================================================================
