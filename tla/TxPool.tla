------------------------------- MODULE TxPool -------------------------------
(***************************************************************************)
(* The memory pool on top of the ledger: which transactions it admits      *)
(* (AcceptToMemoryPoolWorker), what a connected block removes from it      *)
(* (removeForBlock), what a disconnected one brings back (DisconnectTip)   *)
(* and what is swept at the end of a reorganisation (removeForReorg).      *)
(*                                                                         *)
(* A reorganisation happens inside one hold of cs_main: blocks are         *)
(* disconnected, others connected, then the pool is swept.  Meanwhile      *)
(* nothing is admitted and no one looks: the variable reorg marks it.      *)
(* Fees, sizes and expiry only decide which packages LimitMempoolSize      *)
(* throws out; here it may throw out any.                                  *)
(***************************************************************************)
EXTENDS Ledger

VARIABLES
    pool,    \* mapTx: the transactions in the pool
    reorg,   \* blocks have been disconnected and the pool is not yet swept
    unswept  \* a reorganisation was given up, and none has been finished since

allVars == <<utxo, chain, pool, reorg, unswept>>

\* The heights do not wrap round (they are ints in CBlockIndex).
ASSUME PoolAssumption == MaxHeight + 1 < WordSize

\* MEMPOOL_HEIGHT, the height of coins that are not in a block: 0x7FFFFFFF.
MempoolHeight == WordSize \div 2 - 1

-----------------------------------------------------------------------------
(* The pool as a graph of transactions.                                    *)

Children(p, S) == {c \in p : \E op \in Range(Inputs[c]) : op[1] \in S}

\* CalculateDescendants, S included.
WithDescendants(p, S) ==
    LET reach[n \in 0..Cardinality(p)] ==
            IF n = 0 THEN S ELSE reach[n - 1] \cup Children(p, reach[n - 1])
    IN  reach[Cardinality(p)]

\* removeRecursive: a transaction that is not in the pool still takes its
\* descendants along.
RemoveRecursive(p, S) == p \ WithDescendants(p, S)

Conflicts(p, t) ==
    {c \in p \ {t} : Range(Inputs[c]) \cap Range(Inputs[t]) # {}}

\* What TrimToSize and Expire can leave of a pool: packages go as a whole.
Limited(p) == {RemoveRecursive(p, S) : S \in SUBSET p}

\* CCoinsViewMemPool: the outputs of the pool over the coins of the chain.
PoolCoins(p) ==
    [op \in UNION {{<<t, n>> : n \in DOMAIN Outputs[t]} : t \in p} |->
        Coin(Outputs[op[1]][op[2]], MempoolHeight, FALSE)]

-----------------------------------------------------------------------------
(* Admission.                                                              *)

\* The checks of AcceptToMemoryPoolWorker that depend on pool and chain.
Acceptable(p, coins, t, height, chainInterest) ==
    LET view == AddCoins(PoolCoins(p), coins)
    IN  /\ t \notin p
        /\ Conflicts(p, t) = {}
        /\ IsInjective(Inputs[t])
        /\ {<<t, n>> : n \in DOMAIN Outputs[t]} \cap DOMAIN view = {}
        /\ CheckTxInputs(view, t, height, chainInterest)

\* AcceptToMemoryPool for a relayed or submitted transaction, which may itself
\* be thrown out again by LimitMempoolSize.
AcceptToMemoryPool(t) ==
    /\ ~ reorg
    /\ Acceptable(pool, utxo, t, Height + 1, ChainInterest)
    /\ pool' \in Limited(pool \cup {t})
    /\ UNCHANGED <<utxo, chain, reorg, unswept>>

-----------------------------------------------------------------------------
(* Blocks.                                                                 *)

\* The transactions of the block leave the pool; their rivals stay.
RemoveForBlockKeepConflicts(p, body) == p \ Range(body)

\* removeForBlock: each transaction of the block leaves the pool, and so do
\* its conflicts with all that descends from them.
RemoveForBlock(p, body) ==
    LET after[n \in 0..Len(body)] ==
            IF n = 0 THEN p
            ELSE RemoveRecursive(after[n - 1] \ {body[n]}, Conflicts(after[n - 1], body[n]))
    IN  after[Len(body)]

\* ConnectTip.
ConnectTip(block) ==
    /\ ConnectBlock(block)
    /\ pool' = RemoveForBlock(pool, block.body)
    /\ UNCHANGED <<reorg, unswept>>

\* A transaction of a disconnected block: if it is not admitted again it is removed
\* with its descendants.
Offered(p, coins, t, height, chainInterest) ==
    IF Acceptable(p, coins, t, height, chainInterest)
      THEN p \cup {t} ELSE RemoveRecursive(p, {t})

\* The loop of DisconnectTip over the block's transactions, coinbase first.
Resurrect(p, coins, entry, height, chainInterest) ==
    LET after[n \in 0..Len(entry.body)] ==
            IF n = 0 THEN RemoveRecursive(p, {CoinbaseId(height, entry.reward)})
            ELSE Offered(after[n - 1], coins, entry.body[n], height, chainInterest)
    IN  after[Len(entry.body)]

\* DisconnectTip.  The coins are already those of the previous block when the
\* transactions are offered to the pool again, so they are checked for the
\* height of the block that was disconnected.
DisconnectTip ==
    /\ DisconnectBlock
    /\ pool' = Resurrect(pool, utxo', Tip, Height, ChainInterest')
    /\ reorg' = TRUE
    /\ UNCHANGED unswept

SpendsCoinbase(t) == \E op \in Range(Inputs[t]) : op[1] \notin Txs

\* The transactions removeForReorg looks at are those that spend a coinbase;
\* it removes them when a coin is gone or a coinbase is not mature any more.
Swept(p) ==
    {t \in p : SpendsCoinbase(t) /\
        \E op \in Range(Inputs[t]) :
            /\ op[1] \notin p
            /\ \/ op \notin DOMAIN utxo
               \/ utxo[op].cb /\ Height + 1 - utxo[op].height < CoinbaseMaturity}

\* The end of ActivateBestChainStep and of InvalidateBlock after blocks have
\* been disconnected: removeForReorg, then LimitMempoolSize.
FinishReorg ==
    /\ reorg
    /\ reorg' = FALSE /\ unswept' = FALSE
    /\ pool' \in Limited(RemoveRecursive(pool, Swept(pool)))
    /\ UNCHANGED <<utxo, chain>>

\* ActivateBestChainStep returns early when a further block cannot be disconnected
\* or when the system fails: what has been disconnected stays so, and the pool is
\* not swept.
AbandonReorg ==
    /\ reorg
    /\ reorg' = FALSE /\ unswept' = TRUE
    /\ UNCHANGED <<utxo, chain, pool>>

-----------------------------------------------------------------------------
PoolInit == Init /\ pool = {} /\ reorg = FALSE /\ unswept = FALSE

PoolNext ==
    \/ \E t \in Txs : AcceptToMemoryPool(t)
    \/ \E block \in Blocks : ConnectTip(block)
    \/ DisconnectTip
    \/ FinishReorg
    \/ AbandonReorg

PoolSpec == PoolInit /\ [][PoolNext]_allVars

-----------------------------------------------------------------------------
(* The block CreateNewBlock builds when everything in the pool fits.       *)

AncestorCount(t) == Cardinality({a \in pool : t \in WithDescendants(pool, {a})})

Template ==
    LET body == CHOOSE s \in [1..Cardinality(pool) -> pool] :
                    /\ IsInjective(s)
                    /\ \A i, j \in DOMAIN s :
                          i < j => AncestorCount(s[i]) <= AncestorCount(s[j])
        view == AddCoins(PoolCoins(pool), utxo)
        fees == SumFunction([n \in DOMAIN body |->
                    GetValueIn(view, body[n]) - GetValueOutWithoutInterest(Outputs[body[n]])])
    IN  [body |-> body, reward |-> fees + Subsidy,
         interest |-> ChainInterest +
             SumFunction([n \in DOMAIN body |-> GetInterest(Outputs[body[n]])])]

-----------------------------------------------------------------------------
\* The pool holds transactions (mapTx, txmempool.h).
PoolTypeOK == pool \subseteq Txs /\ reorg \in BOOLEAN /\ unswept \in BOOLEAN

\* What CTxMemPool::check asserts of the pool as a whole, after every block,
\* disconnection and sweep, in the middle of a reorganisation and when it is given
\* up: every input is an output of another transaction of the pool or an unspent
\* coin of the chain, no two transactions spend the same outpoint, and none is
\* already in the chain.
PoolConsistent ==
    /\ \A t \in pool : \A op \in Range(Inputs[t]) :
          op \in DOMAIN utxo \/ op \in DOMAIN PoolCoins(pool)
    /\ \A t \in pool : Conflicts(pool, t) = {}
    /\ \A b \in Range(chain) : pool \cap Range(b.body) = {}

\* No transaction in the pool spends a coinbase that is not mature in the next
\* block, after any reorganisation that was finished (removeForReorg).
PoolCoinbasesMature ==
    ~ reorg /\ ~ unswept =>
        \A t \in pool : \A op \in Range(Inputs[t]) \cap DOMAIN utxo :
            utxo[op].cb => Mature(utxo[op], Height + 1)

\* The pool is one that its owner may mine from, after every block, eviction and
\* reorganisation.
PoolSound == PoolConsistent /\ PoolCoinbasesMature

\* miner.h says of the order by number of ancestors that it "is sufficient to
\* sort an ancestor package in an order that is valid to appear in a block".
PackageOrderValid ==
    ~ reorg /\ ~ unswept
        => BlockAccepted(ConnectAll(utxo, Template, Height + 1, ChainInterest),
                         Template, ChainInterest)
=============================================================================
