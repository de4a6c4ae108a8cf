------------------------------- MODULE Wallet -------------------------------
(***************************************************************************)
(* The transactions of CWallet (wallet/wallet.cpp): what the wallet thinks *)
(* of each one (unconfirmed, in a block, conflicting with a block,         *)
(* abandoned), the balances it caches, and the coins it offers for         *)
(* spending, while the memory pool and the chain change under it.          *)
(*                                                                         *)
(* Every notification is sent with cs_main held, which every query takes:  *)
(* a change of the pool or of the chain and its notifications are one      *)
(* action.  A transaction has one output, named like the transaction, and  *)
(* a block carries one transaction that the wallet could care about.       *)
(***************************************************************************)
EXTENDS Integers, Sequences, FiniteSets, FiniteSetsExt, SequencesExt

CONSTANTS
    WTxs,        \* transactions, numbers, none smaller than those it spends
    WSpends,     \* the transactions whose outputs each one spends
    Owned,       \* those that pay to a key that the wallet has from the start
    Importable,  \* those that pay to keys that may be imported
    MaxWBlocks,  \* the number of blocks
    CalmReorgs   \* no block that wallet transactions conflict with goes away

ASSUME WalletAssumption ==
    /\ IsFiniteSet(WTxs) /\ WTxs \subseteq Nat
    /\ WSpends \in [WTxs -> SUBSET WTxs] /\ \A t \in WTxs : \A p \in WSpends[t] : p < t
    /\ Owned \subseteq WTxs /\ Importable \subseteq WTxs
    /\ MaxWBlocks \in Nat /\ CalmReorgs \in BOOLEAN

\* The null hash, and ABANDON_HASH.
NullHash == 0
AbandonHash == -1

\* A balance that is not cached.
Dirty == -1

VARIABLES
    mapBlocks,   \* the blocks there are: previous block and transactions
    wChain,      \* chainActive, numbers of blocks
    wPool,       \* the memory pool
    mine,        \* the transactions that pay to a key of the wallet
    mapWallet    \* hashBlock, "nIndex # -1" and the cached credit of each

walletVars == <<mapBlocks, wChain, wPool, mine, mapWallet>>

WalletInit ==
    /\ mapBlocks = <<>> /\ wChain = <<>> /\ wPool = {}
    /\ mine = Owned /\ mapWallet = <<>>

-----------------------------------------------------------------------------
(* What the wallet knows of a transaction.                                 *)

\* CMerkleTx::GetDepthInMainChain: negative when a block of the chain
\* conflicts with the transaction.
GetDepthInMainChain(ch, e) ==
    IF \A i \in DOMAIN ch : ch[i] # e.hashBlock THEN 0
    ELSE (IF e.inBlock THEN 1 ELSE -1)
            * (Len(ch) - (CHOOSE i \in DOMAIN ch : ch[i] = e.hashBlock) + 1)

\* mapTxSpends: the wallet's transactions that spend the output of t.
TxSpends(w, t) == {s \in DOMAIN w : t \in WSpends[s]}

IsSpent(w, ch, t) ==
    \E s \in TxSpends(w, t) :
        \/ GetDepthInMainChain(ch, w[s]) > 0
        \/ GetDepthInMainChain(ch, w[s]) = 0 /\ w[s].hashBlock # AbandonHash

IsFromMe(w, m, t) == WSpends[t] \cap DOMAIN w \cap m # {}

MarkDirty(w, S) ==
    [t \in DOMAIN w |-> IF t \in S THEN [w[t] EXCEPT !.cached = Dirty] ELSE w[t]]

\* CWalletTx::IsTrusted.
IsTrusted(w, t) ==
    \/ GetDepthInMainChain(wChain, w[t]) >= 1
    \/ /\ GetDepthInMainChain(wChain, w[t]) = 0 /\ IsFromMe(w, mine, t) /\ t \in wPool
       /\ WSpends[t] \subseteq DOMAIN w \cap mine

\* The output of t, when it is the wallet's and it is not spent.
Credit(w, ch, m, t) == IF t \in m /\ ~ IsSpent(w, ch, t) THEN 1 ELSE 0

-----------------------------------------------------------------------------
(* Conflicts and notifications.                                            *)

\* The balances of the transactions that are spent are left as they are.
ConflictDirtiesSelf(S) == S

\* The transactions whose balances are recomputed when those of S become
\* conflicted or abandoned: "that changes the balance available of the outputs
\* it spends".
ConflictDirties(S) == S \cup UNION {WSpends[t] : t \in S}

\* MarkConflicted with block b of the chain, for t and what spends it.
MarkConflicted(w, ch, b, t) ==
    LET confirms == GetDepthInMainChain(ch, [hashBlock |-> b, inBlock |-> FALSE])
        marked[x \in DOMAIN w] ==
            /\ confirms < GetDepthInMainChain(ch, w[x])
            /\ x = t \/ \E p \in WSpends[x] \cap DOMAIN w : marked[p]
        S == {x \in DOMAIN w : marked[x]}
    IN  IF confirms >= 0 THEN w
        ELSE MarkDirty([x \in DOMAIN w |-> IF x \in S
                            THEN [w[x] EXCEPT !.hashBlock = b, !.inBlock = FALSE] ELSE w[x]],
                       ConflictDirties(S))

\* The wallet's transactions that spend an output that t spends.
WalletRivals(w, t) == UNION {TxSpends(w, p) : p \in WSpends[t]} \ {t}

\* A notification never ends the abandoned state of a transaction.
MergedAbandoned(e, b) ==
    IF b = NullHash THEN [e EXCEPT !.cached = Dirty]
    ELSE [hashBlock |-> b, inBlock |-> TRUE, cached |-> Dirty]

\* AddToWallet for a transaction that is there, found in block b or in none.
Merged(e, b) ==
    IF b # NullHash THEN [hashBlock |-> b, inBlock |-> TRUE, cached |-> Dirty]
    ELSE IF e.hashBlock = AbandonHash THEN [e EXCEPT !.hashBlock = b, !.cached = Dirty]
    ELSE [e EXCEPT !.cached = Dirty]

AddToWallet(w, t, b) ==
    [x \in DOMAIN w \cup {t} |->
        IF x # t THEN w[x]
        ELSE IF t \in DOMAIN w THEN Merged(w[t], b)
        ELSE [hashBlock |-> b, inBlock |-> b # NullHash, cached |-> Dirty]]

\* AddToWalletIfInvolvingMe for a transaction of block b, or of none.
AddToWalletIfInvolvingMe(w, ch, m, t, b) ==
    LET conflicted == IF b = NullHash THEN w
                      ELSE FoldSet(LAMBDA r, v : MarkConflicted(v, ch, b, r), w, WalletRivals(w, t))
    IN  IF t \in DOMAIN w \cup m \/ IsFromMe(w, m, t) THEN AddToWallet(conflicted, t, b) ELSE conflicted

\* SyncTransaction: after that the transactions that t spends are recomputed.
SyncTransaction(w, ch, t, b) ==
    LET v == AddToWalletIfInvolvingMe(w, ch, mine, t, b)
    IN  IF t \in DOMAIN v THEN MarkDirty(v, WSpends[t]) ELSE v

-----------------------------------------------------------------------------
(* The pool and the chain.                                                 *)

InActiveChain(ch) == UNION {mapBlocks[ch[i]].txs : i \in DOMAIN ch}

WRivals(t) == {s \in WTxs \ {t} : WSpends[s] \cap WSpends[t] # {}}

WithSpenders(S) ==
    LET in[x \in WTxs] == x \in S \/ \E p \in WSpends[x] : in[p] IN {x \in WTxs : in[x]}

\* t can follow what known holds.
Follows(t, known) ==
    t \notin known /\ WSpends[t] \subseteq known /\ WRivals(t) \cap known = {}

\* AcceptToMemoryPool, for a transaction from a peer, from the wallet that sends
\* its own again (ReacceptWalletTransactions, RelayWalletTransaction), or just
\* made by the wallet.
PoolAccepts(t) ==
    /\ Follows(t, wPool \cup InActiveChain(wChain))
    /\ wPool' = wPool \cup {t}
    /\ mapWallet' = SyncTransaction(mapWallet, wChain, t, NullHash)
    /\ UNCHANGED <<mapBlocks, wChain, mine>>

\* A transaction expires or is evicted, and what spends it with it: the wallet
\* is not told.
LeavePool(t) ==
    /\ t \in wPool
    /\ wPool' = wPool \ WithSpenders({t})
    /\ UNCHANGED <<mapBlocks, wChain, mine, mapWallet>>

\* Block b is connected, with the transactions S: those of the pool that
\* conflict are reported first, then those of the block.
WalletConnectBlock(b, S) ==
    LET gone == WithSpenders(UNION {WRivals(t) : t \in S}) \cap wPool
        ch == Append(wChain, b)
        w == FoldSet(LAMBDA t, v : SyncTransaction(v, ch, t, NullHash), mapWallet, gone)
    IN  /\ \A t \in S : Follows(t, InActiveChain(wChain))
        /\ wChain' = ch
        /\ wPool' = wPool \ (gone \cup S)
        /\ mapWallet' = FoldSet(LAMBDA t, v : SyncTransaction(v, ch, t, b), w, S)
        /\ UNCHANGED mine

TipOf(ch) == IF ch = <<>> THEN 0 ELSE Last(ch)

ConnectNew(S) ==
    /\ Len(mapBlocks) < MaxWBlocks
    /\ mapBlocks' = Append(mapBlocks, [prev |-> TipOf(wChain), txs |-> S])
    /\ WalletConnectBlock(Len(mapBlocks) + 1, S)

ConnectAgain(b) ==
    /\ mapBlocks[b].prev = TipOf(wChain)
    /\ WalletConnectBlock(b, mapBlocks[b].txs)
    /\ UNCHANGED mapBlocks

\* The wallet's transactions that conflict with block b.
ConflictedWith(w, b) == {t \in DOMAIN w : w[t].hashBlock = b /\ ~ w[t].inBlock}

\* DisconnectTip: the pool takes the transactions back or loses what spends them.
WalletDisconnectTip ==
    LET ch == Front(wChain)
        S == mapBlocks[Last(wChain)].txs
    IN  /\ wChain # <<>>
        /\ CalmReorgs => ConflictedWith(mapWallet, Last(wChain)) = {}
        /\ wChain' = ch
        /\ wPool' \in {wPool \cup S, wPool \ WithSpenders(S)}
        /\ mapWallet' = FoldSet(LAMBDA t, v : SyncTransaction(v, ch, t, NullHash), mapWallet, S)
        /\ UNCHANGED <<mapBlocks, mine>>

-----------------------------------------------------------------------------
(* The operations of the wallet.                                           *)

\* GetBalance and GetUnconfirmedBalance, and what they cache.
Counted(trusted) ==
    {t \in DOMAIN mapWallet :
        /\ IsTrusted(mapWallet, t) = trusted
        /\ trusted \/ (GetDepthInMainChain(wChain, mapWallet[t]) = 0 /\ t \in wPool)}

GetBalance(trusted) ==
    /\ mapWallet' = [t \in DOMAIN mapWallet |->
          IF t \in Counted(trusted) /\ mapWallet[t].cached = Dirty
            THEN [mapWallet[t] EXCEPT !.cached = Credit(mapWallet, wChain, mine, t)]
            ELSE mapWallet[t]]
    /\ UNCHANGED <<mapBlocks, wChain, wPool, mine>>

\* The outputs that AvailableCoins offers.
AvailableCoins ==
    {t \in DOMAIN mapWallet \cap mine :
        /\ GetDepthInMainChain(wChain, mapWallet[t]) >= 0
        /\ GetDepthInMainChain(wChain, mapWallet[t]) = 0 => t \in wPool
        /\ ~ IsSpent(mapWallet, wChain, t)}

\* CommitTransaction for a transaction made of available coins; BindWallet marks
\* these dirty.  The pool may refuse it (then it stays in the wallet), or take it
\* (AcceptToMemoryPool).
CommitTransaction(t) ==
    /\ WSpends[t] # {} /\ WSpends[t] \subseteq AvailableCoins
    /\ \A p \in WSpends[t] : IsTrusted(mapWallet, p)
    /\ t \notin DOMAIN mapWallet
    /\ mapWallet' = MarkDirty(AddToWallet(mapWallet, t, NullHash), WSpends[t])
    /\ UNCHANGED <<mapBlocks, wChain, wPool, mine>>

\* AbandonTransaction.  The search starts at the outputs of hashTx for every
\* transaction of the list: what spends hashTx is found, and nothing further.
AbandonTransaction(t) ==
    LET unconfirmed == {x \in {t} \cup TxSpends(mapWallet, t) :
                    GetDepthInMainChain(wChain, mapWallet[x]) = 0 /\ mapWallet[x].hashBlock # AbandonHash}
    IN  /\ t \in DOMAIN mapWallet \ wPool /\ GetDepthInMainChain(wChain, mapWallet[t]) <= 0
        /\ t \in unconfirmed
        /\ mapWallet' = MarkDirty(
              [x \in DOMAIN mapWallet |-> IF x \in unconfirmed
                  THEN [mapWallet[x] EXCEPT !.hashBlock = AbandonHash, !.inBlock = FALSE]
                  ELSE mapWallet[x]], ConflictDirties(unconfirmed))
        /\ UNCHANGED <<mapBlocks, wChain, wPool, mine>>

\* importprivkey: every balance is marked dirty and the chain is scanned
\* (ScanForWalletTransactions); the pool is not.
ImportKey(t) ==
    LET m == mine \cup {t}
        Scanned(w, b) == FoldSet(LAMBDA x, v : AddToWalletIfInvolvingMe(v, wChain, m, x, b),
                                 w, mapBlocks[b].txs)
    IN  /\ t \in Importable \ mine
        /\ mine' = m
        /\ mapWallet' = FoldLeft(Scanned, MarkDirty(mapWallet, DOMAIN mapWallet), wChain)
        /\ UNCHANGED <<mapBlocks, wChain, wPool>>

\* The transactions that t spends and that a block is in conflict with.
ConflictedParents(w, t) == {p \in WSpends[t] \cap DOMAIN w :
                              ~ w[p].inBlock /\ w[p].hashBlock \notin {NullHash, AbandonHash}}

\* The node restarts with an empty pool.  LoadToWallet reads the records in no
\* particular order: those of late come after all that they spend.
Restart(late) ==
    LET fresh == MarkDirty(mapWallet, DOMAIN mapWallet)
        Load(t, w) == FoldSet(LAMBDA p, v : MarkConflicted(v, wChain, v[p].hashBlock, t),
                              w, ConflictedParents(w, t))
    IN  /\ wPool' = {}
        /\ mapWallet' = FoldSet(Load, fresh, late)
        /\ UNCHANGED <<mapBlocks, wChain, mine>>

WalletNext ==
    \/ \E t \in WTxs : \/ PoolAccepts(t) \/ LeavePool(t) \/ CommitTransaction(t)
                       \/ AbandonTransaction(t) \/ ImportKey(t)
    \/ \E t \in WTxs : ConnectNew({t})
    \/ \E late \in SUBSET {t \in DOMAIN mapWallet : ConflictedParents(mapWallet, t) # {}} :
          Restart(late)
    \/ \E b \in DOMAIN mapBlocks : ConnectAgain(b)
    \/ WalletDisconnectTip
    \/ \E trusted \in BOOLEAN : GetBalance(trusted)

WalletSpec == WalletInit /\ [][WalletNext]_walletVars

-----------------------------------------------------------------------------
\* A cached balance is what would be computed now: every event that changes
\* whether an output is spent (a spender arrives, is confirmed, comes into
\* conflict with a block or is abandoned) marks the transaction dirty whose
\* output it is, as the comments on MarkDirty's calls promise.
CachedCreditExact ==
    \A t \in DOMAIN mapWallet :
        mapWallet[t].cached \in {Dirty, Credit(mapWallet, wChain, mine, t)}

\* AvailableCoins offers no output that a transaction of the chain spends, nor
\* one that a transaction of the pool spends that the wallet was told of,
\* whatever reorganisations, evictions, restarts and imports came before.
CoinsOfferedUnspent ==
    \A t \in AvailableCoins, s \in WTxs :
        t \in WSpends[s] => /\ s \notin InActiveChain(wChain)
                            /\ s \notin wPool \cap DOMAIN mapWallet

\* "mark transactions in the wallet that spend them abandoned too": no pending
\* transaction is left that spends an output of an abandoned one.
AbandonedWithSpenders ==
    \A t \in DOMAIN mapWallet : \A s \in TxSpends(mapWallet, t) :
        mapWallet[t].hashBlock = AbandonHash /\ GetDepthInMainChain(wChain, mapWallet[s]) = 0
            => mapWallet[s].hashBlock = AbandonHash
=============================================================================
