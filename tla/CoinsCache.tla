----------------------------- MODULE CoinsCache -----------------------------
(***************************************************************************)
(* The stack of coin views block validation works on:                      *)
(*   view (CCoinsViewCache of one ConnectTip/DisconnectTip)                 *)
(*     -> tip (pcoinsTip, CCoinsViewCache) -> db (CCoinsViewDB, LevelDB).   *)
(* A cache holds entries with the DIRTY and FRESH flags; reads through the *)
(* upper cache fill both.  Everything runs under cs_main, so tip is        *)
(* flushed or uncached only while no block view exists.                    *)
(***************************************************************************)
CONSTANTS Outpoints,  \* COutPoints
          Coins,      \* spendable unspent Coins
          Spent,      \* a cleared Coin (Coin::IsSpent)
          Blocks,     \* block hashes
          NullHash    \* uint256()

ASSUME SpentAssumption == Spent \notin Coins
ASSUME NullHashAssumption == NullHash \notin Blocks

VARIABLES db,          \* CCoinsViewDB: Spent stands for an absent key
          dbBest,      \* DB_BEST_BLOCK
          tip,         \* pcoinsTip->cacheCoins
          tipBest,     \* pcoinsTip->hashBlock
          view,        \* cacheCoins of the block's view
          open,        \* the block's view exists
          logicError   \* a std::logic_error was thrown; the process ends

vars == <<db, dbBest, tip, tipBest, view, open, logicError>>

CoinOrSpent == Coins \cup {Spent}

(* CCoinsCacheEntry, with cached = FALSE for "no entry in the map".         *)
Entry == [cached : BOOLEAN, coin : CoinOrSpent, dirty : BOOLEAN, fresh : BOOLEAN]

NoEntry == [cached |-> FALSE, coin |-> Spent, dirty |-> FALSE, fresh |-> FALSE]

EmptyCache == [o \in Outpoints |-> NoEntry]

-----------------------------------------------------------------------------
(* Operations of CCoinsViewCache on the entry of one outpoint.              *)

\* FetchCoin: the base answered "found" with coin c.
FetchEntry(e, found, c) ==
  IF e.cached \/ ~found THEN e
  ELSE [cached |-> TRUE, coin |-> c, dirty |-> FALSE, fresh |-> (c = Spent)]

\* AddCoin.
AddEntry(e, c, overwrite) ==
  [cached |-> TRUE, coin |-> c, dirty |-> TRUE,
   fresh |-> e.fresh \/ (~overwrite /\ ~e.dirty)]

\* AddCoin's logic_error: a new coin on an unspent entry of this cache.
AddThrows(e, overwrite) == ~overwrite /\ e.cached /\ e.coin # Spent

\* SpendCoin on the entry FetchCoin returned.
SpendEntry(e) ==
  IF ~e.cached THEN e
  ELSE IF e.fresh THEN NoEntry
  ELSE [e EXCEPT !.dirty = TRUE, !.coin = Spent]

\* BatchWrite copying the child's FRESH flag onto an existing parent entry.
MergeEntryCopyFresh(parent, child) ==
  IF ~child.dirty THEN parent
  ELSE IF ~parent.cached
       THEN IF child.fresh /\ child.coin = Spent THEN parent
            ELSE [child EXCEPT !.dirty = TRUE]
  ELSE IF parent.fresh /\ child.coin = Spent THEN NoEntry
  ELSE [parent EXCEPT !.coin = child.coin, !.dirty = TRUE,
                      !.fresh = parent.fresh \/ child.fresh]

\* BatchWrite of one child entry into the parent cache.
MergeEntry(parent, child) ==
  IF ~child.dirty THEN parent
  ELSE IF ~parent.cached
       THEN IF child.fresh /\ child.coin = Spent THEN parent
            ELSE [cached |-> TRUE, coin |-> child.coin, dirty |-> TRUE,
                  fresh |-> child.fresh]
  ELSE IF parent.fresh /\ child.coin = Spent THEN NoEntry
  ELSE [parent EXCEPT !.coin = child.coin, !.dirty = TRUE]

\* BatchWrite's logic_error.
FreshMisapplied(parent, child) ==
  child.dirty /\ child.fresh /\ parent.cached /\ parent.coin # Spent

-----------------------------------------------------------------------------
(* What a reader sees at each layer.                                        *)

TipCoin(o) == IF tip[o].cached THEN tip[o].coin ELSE db[o]

ViewCoin(o) == IF view[o].cached THEN view[o].coin ELSE TipCoin(o)

TipGetBestBlock == IF tipBest = NullHash THEN dbBest ELSE tipBest

\* pcoinsTip->FetchCoin(o): CCoinsViewDB::GetCoin finds unspent coins only.
TipFetched(o) == FetchEntry(tip[o], db[o] # Spent, db[o])

\* view.FetchCoin(o) reaches pcoinsTip->GetCoin only on a miss ...
TipAfterViewFetch(o) == IF view[o].cached THEN tip[o] ELSE TipFetched(o)

\* ... and pcoinsTip->GetCoin finds any entry, a spent one included.
ViewFetched(o) == FetchEntry(view[o], TipFetched(o).cached, TipFetched(o).coin)

-----------------------------------------------------------------------------
Init ==
  /\ db = [o \in Outpoints |-> Spent] /\ dbBest = NullHash
  /\ tip = EmptyCache /\ tipBest = NullHash
  /\ view = EmptyCache /\ open = FALSE
  /\ logicError = FALSE

\* A read of pcoinsTip outside block processing (mempool acceptance, RPC).
TipAccess(o) ==
  /\ ~open
  /\ tip' = [tip EXCEPT ![o] = TipFetched(o)]
  /\ UNCHANGED <<db, dbBest, tipBest, view, open, logicError>>

\* Uncache: only an entry without flags may be forgotten.
Uncache(o) ==
  /\ ~open
  /\ tip[o].cached /\ ~tip[o].dirty /\ ~tip[o].fresh
  /\ tip' = [tip EXCEPT ![o] = NoEntry]
  /\ UNCHANGED <<db, dbBest, tipBest, view, open, logicError>>

\* CCoinsViewCache view(pcoinsTip), then view.GetBestBlock() in the assertion
\* that opens ConnectBlock and DisconnectBlock.
OpenView ==
  /\ ~open
  /\ open' = TRUE
  /\ tipBest' = TipGetBestBlock
  /\ UNCHANGED <<db, dbBest, tip, view, logicError>>

\* view.AccessCoin / view.HaveCoin
ViewAccess(o) ==
  /\ open
  /\ tip' = [tip EXCEPT ![o] = TipAfterViewFetch(o)]
  /\ view' = [view EXCEPT ![o] = ViewFetched(o)]
  /\ UNCHANGED <<db, dbBest, tipBest, open, logicError>>

\* view.AddCoin.  The callers vouch for new coins: ConnectBlock has refused
\* blocks whose outputs exist already (BIP30), UndoCoinSpend has looked.
AddCoin(o, c, overwrite) ==
  /\ open
  /\ overwrite \/ ViewCoin(o) = Spent
  /\ IF AddThrows(view[o], overwrite)
     THEN logicError' = TRUE /\ UNCHANGED view
     ELSE /\ view' = [view EXCEPT ![o] = AddEntry(view[o], c, overwrite)]
          /\ UNCHANGED logicError
  /\ UNCHANGED <<db, dbBest, tip, tipBest, open>>

\* view.SpendCoin
SpendCoin(o) ==
  /\ open
  /\ tip' = [tip EXCEPT ![o] = TipAfterViewFetch(o)]
  /\ view' = [view EXCEPT ![o] = SpendEntry(ViewFetched(o))]
  /\ UNCHANGED <<db, dbBest, tipBest, open, logicError>>

\* view.SetBestBlock(b) and view.Flush(): pcoinsTip->BatchWrite.
FlushView(b) ==
  /\ open
  /\ IF \E o \in Outpoints : FreshMisapplied(tip[o], view[o])
     THEN logicError' = TRUE /\ UNCHANGED <<tip, tipBest, view, open>>
     ELSE /\ tip' = [o \in Outpoints |-> MergeEntry(tip[o], view[o])]
          /\ tipBest' = b
          /\ view' = EmptyCache /\ open' = FALSE
          /\ UNCHANGED logicError
  /\ UNCHANGED <<db, dbBest>>

\* The block turned out invalid: its view is destroyed unflushed.
DropView ==
  /\ open
  /\ view' = EmptyCache /\ open' = FALSE
  /\ UNCHANGED <<db, dbBest, tip, tipBest, logicError>>

\* pcoinsTip->Flush(): CCoinsViewDB::BatchWrite, one LevelDB batch.
FlushTip ==
  /\ ~open
  /\ db' = [o \in Outpoints |-> IF tip[o].dirty THEN tip[o].coin ELSE db[o]]
  /\ dbBest' = IF tipBest = NullHash THEN dbBest ELSE tipBest
  /\ tip' = EmptyCache
  /\ UNCHANGED <<tipBest, view, open, logicError>>

\* The process dies at any point and is started again on what LevelDB holds.
Crash ==
  /\ tip' = EmptyCache /\ tipBest' = NullHash
  /\ view' = EmptyCache /\ open' = FALSE
  /\ UNCHANGED <<db, dbBest, logicError>>

Next ==
  /\ ~logicError
  /\ \/ OpenView \/ DropView \/ FlushTip \/ Crash
     \/ \E o \in Outpoints :
          \/ TipAccess(o) \/ Uncache(o) \/ ViewAccess(o) \/ SpendCoin(o)
          \/ \E c \in Coins, overwrite \in BOOLEAN : AddCoin(o, c, overwrite)
     \/ \E b \in Blocks : FlushView(b)

Spec == Init /\ [][Next]_vars

-----------------------------------------------------------------------------
(* Types of the three layers and the shape of the maps: an absent entry     *)
(* carries no flags or coin, and a view that was flushed or destroyed       *)
(* leaves no entry behind for the next block.                               *)
CacheShape ==
  /\ ~open => view = EmptyCache
  /\ \A o \in Outpoints :
       /\ ~tip[o].cached => tip[o] = NoEntry
       /\ ~view[o].cached => view[o] = NoEntry

TypeOK ==
  /\ CacheShape
  /\ db \in [Outpoints -> CoinOrSpent]
  /\ dbBest \in Blocks \cup {NullHash}
  /\ tip \in [Outpoints -> Entry]
  /\ tipBest \in Blocks \cup {NullHash}
  /\ view \in [Outpoints -> Entry]
  /\ open \in BOOLEAN /\ logicError \in BOOLEAN

(* The FRESH flag (CCoinsCacheEntry): "the parent view does not have this   *)
(* entry (or it is pruned)".  SpendCoin and BatchWrite erase FRESH entries  *)
(* without telling the parent, so a FRESH entry over an unspent parent coin *)
(* would bring a spent coin back.                                           *)
FreshMeansAbsentInParent ==
  \A o \in Outpoints :
    /\ tip[o].fresh => db[o] = Spent
    /\ view[o].fresh => TipCoin(o) = Spent

(* The DIRTY flag (CCoinsCacheEntry): an entry that is not DIRTY is the     *)
(* parent's coin; BatchWrite skips it and Uncache may drop it.              *)
CleanEqualsParent ==
  \A o \in Outpoints :
    /\ (tip[o].cached /\ ~tip[o].dirty) => tip[o].coin = db[o]
    /\ (view[o].cached /\ ~view[o].dirty) => view[o].coin = TipCoin(o)

(* Neither logic_error of coins.cpp is ever thrown while the callers only   *)
(* add new coins where none is visible: in particular BatchWrite never      *)
(* finds a FRESH child entry over an unspent parent entry.                  *)
NoLogicError == ~logicError

(* The inductive invariant of the proofs.                                   *)
IInv ==
  TypeOK /\ FreshMeansAbsentInParent /\ CleanEqualsParent /\ NoLogicError

(* The layered caches implement one UTXO map with atomic block commits and  *)
(* crash-consistent persistence: whatever is cached, flushed, uncached or   *)
(* lost in a crash, validation sees the coins of exactly one best block.    *)
Store == INSTANCE UtxoStore WITH
  durable     <- db,
  durableBest <- dbBest,
  utxo        <- [o \in Outpoints |-> TipCoin(o)],
  best        <- TipGetBestBlock,
  work        <- [o \in Outpoints |-> ViewCoin(o)]

RefinesUtxoStore == Store!Spec
=============================================================================
