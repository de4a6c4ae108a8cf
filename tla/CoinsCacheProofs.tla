-------------------------- MODULE CoinsCacheProofs --------------------------
(***************************************************************************)
(* Proofs about the coin cache layers, for any sets of outpoints, coins    *)
(* and blocks.                                                             *)
(***************************************************************************)
EXTENDS CoinsCache, TLAPS

(* FetchCoin returns an entry, and an entry that was not there becomes the  *)
(* base's coin, FRESH exactly when the base's coin is spent.                *)
LEMMA FetchEntryLemma ==
  ASSUME NEW e \in Entry, NEW found \in BOOLEAN, NEW c \in CoinOrSpent
  PROVE  /\ FetchEntry(e, found, c) \in Entry
         /\ (e.cached \/ ~found) => FetchEntry(e, found, c) = e
         /\ (~e.cached /\ found) =>
              FetchEntry(e, found, c) =
                [cached |-> TRUE, coin |-> c, dirty |-> FALSE, fresh |-> (c = Spent)]
BY DEF FetchEntry, Entry, CoinOrSpent

(* AddCoin, SpendCoin and BatchWrite keep entries well formed.              *)
LEMMA EntryTypes ==
  ASSUME NEW e \in Entry, NEW d \in Entry, NEW c \in CoinOrSpent,
         NEW overwrite \in BOOLEAN
  PROVE  /\ NoEntry \in Entry
         /\ AddEntry(e, c, overwrite) \in Entry
         /\ SpendEntry(e) \in Entry
         /\ MergeEntry(e, d) \in Entry
BY DEF Entry, NoEntry, CoinOrSpent, AddEntry, SpendEntry, MergeEntry

(* The freshly constructed node satisfies the inductive invariant.          *)
LEMMA InitIInv == Init => IInv
<1> SUFFICES ASSUME Init PROVE IInv
  OBVIOUS
<1> USE DEF Init
<1>1. NoEntry \in Entry
  BY DEF NoEntry, Entry, CoinOrSpent
<1>2. EmptyCache \in [Outpoints -> Entry]
  BY <1>1 DEF EmptyCache
<1>4. \A o \in Outpoints : tip[o] = NoEntry /\ view[o] = NoEntry /\ db[o] = Spent
  BY DEF EmptyCache
<1>5. ~NoEntry.cached /\ ~NoEntry.dirty /\ ~NoEntry.fresh
  BY DEF NoEntry
<1>6. FreshMeansAbsentInParent
  BY <1>4, <1>5 DEF FreshMeansAbsentInParent
<1>7. CleanEqualsParent
  BY <1>4, <1>5 DEF CleanEqualsParent
<1>8. NoLogicError
  BY DEF NoLogicError
<1>9. CacheShape
  BY <1>4 DEF CacheShape
<1>10. TypeOK
  BY <1>2, <1>9 DEF TypeOK, CoinOrSpent
<1> QED
  BY <1>6, <1>7, <1>8, <1>10 DEF IInv

-----------------------------------------------------------------------------
(* The invariant of one outpoint, as a relation between its three layers:   *)
(* entry t of pcoinsTip, entry v of the block's view, coin d of the          *)
(* database.                                                                *)
Seen(t, d) == IF t.cached THEN t.coin ELSE d

PointOK(t, v, d) ==
  /\ t \in Entry /\ v \in Entry /\ d \in CoinOrSpent
  /\ t.fresh => d = Spent
  /\ v.fresh => Seen(t, d) = Spent
  /\ (t.cached /\ ~t.dirty) => t.coin = d
  /\ (v.cached /\ ~v.dirty) => v.coin = Seen(t, d)
  /\ ~t.cached => t = NoEntry
  /\ ~v.cached => v = NoEntry

AllPointsOK == \A o \in Outpoints : PointOK(tip[o], view[o], db[o])

Rest ==
  /\ db \in [Outpoints -> CoinOrSpent]
  /\ tip \in [Outpoints -> Entry] /\ view \in [Outpoints -> Entry]
  /\ dbBest \in Blocks \cup {NullHash} /\ tipBest \in Blocks \cup {NullHash}
  /\ open \in BOOLEAN /\ logicError = FALSE
  /\ ~open => view = EmptyCache

(* The inductive invariant is the invariant of every outpoint together with *)
(* the types of the maps and the emptiness of a closed view.                *)
LEMMA IInvPointwise == IInv <=> (AllPointsOK /\ Rest)
<1>1. IInv => AllPointsOK /\ Rest
  BY DEF IInv, AllPointsOK, Rest, PointOK, Seen, TypeOK, TipCoin, CacheShape,
         FreshMeansAbsentInParent, CleanEqualsParent, NoLogicError
<1>2. AllPointsOK /\ Rest => IInv
  BY DEF IInv, AllPointsOK, Rest, PointOK, Seen, TypeOK, TipCoin, CacheShape,
         FreshMeansAbsentInParent, CleanEqualsParent, NoLogicError
<1> QED
  BY <1>1, <1>2

(* FetchCoin on pcoinsTip keeps the point's invariant and the coin seen.    *)
LEMMA PointTipFetch ==
  ASSUME NEW t, NEW v, NEW d, PointOK(t, v, d)
  PROVE  /\ PointOK(FetchEntry(t, d # Spent, d), v, d)
         /\ Seen(FetchEntry(t, d # Spent, d), d) = Seen(t, d)
BY SpentAssumption DEF PointOK, Seen, FetchEntry, Entry, CoinOrSpent, NoEntry

(* FetchCoin on the view over a tip whose entry has been fetched: an entry  *)
(* is found unless no layer holds a coin, and the coin seen stays.          *)
LEMMA PointViewFetch ==
  ASSUME NEW t, NEW v, NEW d, PointOK(t, v, d), ~t.cached => d = Spent
  PROVE  /\ PointOK(t, FetchEntry(v, t.cached, t.coin), d)
         /\ Seen(FetchEntry(v, t.cached, t.coin), Seen(t, d)) = Seen(v, Seen(t, d))
         /\ ~FetchEntry(v, t.cached, t.coin).cached => Seen(v, Seen(t, d)) = Spent
BY SpentAssumption DEF PointOK, Seen, FetchEntry, Entry, CoinOrSpent, NoEntry

(* SpendCoin on a fetched entry: the coin is gone for whoever reads the     *)
(* view, also when the FRESH entry is erased.                               *)
LEMMA PointSpend ==
  ASSUME NEW t, NEW v, NEW d, PointOK(t, v, d), ~v.cached => Seen(t, d) = Spent
  PROVE  /\ PointOK(t, SpendEntry(v), d)
         /\ Seen(SpendEntry(v), Seen(t, d)) = Spent
BY SpentAssumption DEF PointOK, Seen, SpendEntry, Entry, CoinOrSpent, NoEntry

(* AddCoin: a coin declared new may be marked FRESH only because no layer   *)
(* shows an unspent coin.                                                   *)
LEMMA PointAdd ==
  ASSUME NEW t, NEW v, NEW d, PointOK(t, v, d), NEW c \in Coins,
         NEW overwrite \in BOOLEAN, overwrite \/ Seen(v, Seen(t, d)) = Spent
  PROVE  /\ PointOK(t, AddEntry(v, c, overwrite), d)
         /\ Seen(AddEntry(v, c, overwrite), Seen(t, d)) = c
         /\ ~AddThrows(v, overwrite)
BY SpentAssumption
   DEF PointOK, Seen, AddEntry, AddThrows, Entry, CoinOrSpent, NoEntry

(* BatchWrite: pcoinsTip shows what the view showed, and no FRESH entry     *)
(* meets an unspent one.                                                    *)
LEMMA PointMerge ==
  ASSUME NEW t, NEW v, NEW d, PointOK(t, v, d)
  PROVE  /\ PointOK(MergeEntry(t, v), NoEntry, d)
         /\ Seen(MergeEntry(t, v), d) = Seen(v, Seen(t, d))
         /\ ~FreshMisapplied(t, v)
<1> DEFINE m == MergeEntry(t, v)
<1>1. ~FreshMisapplied(t, v)
  BY DEF PointOK, Seen, FreshMisapplied, Entry
<1>2. Seen(NoEntry, d) = d /\ NoEntry \in Entry
  BY DEF Seen, NoEntry, Entry, CoinOrSpent
<1>3. CASE ~v.dirty
  <2>1. m = t
    BY <1>3 DEF MergeEntry
  <2> QED
    BY <1>1, <1>3, <2>1 DEF PointOK, Seen, Entry, NoEntry, CoinOrSpent
<1>4. CASE v.dirty /\ ~t.cached
  <2>1. CASE v.fresh /\ v.coin = Spent
    <3>1. m = t
      BY <1>4, <2>1 DEF MergeEntry
    <3> QED
      BY <1>1, <1>4, <2>1, <3>1 DEF PointOK, Seen, Entry, NoEntry, CoinOrSpent
  <2>2. CASE ~(v.fresh /\ v.coin = Spent)
    <3>1. m = [cached |-> TRUE, coin |-> v.coin, dirty |-> TRUE, fresh |-> v.fresh]
      BY <1>4, <2>2 DEF MergeEntry
    <3> QED
      BY <1>1, <1>4, <2>2, <3>1 DEF PointOK, Seen, Entry, NoEntry, CoinOrSpent
  <2> QED
    BY <2>1, <2>2
<1>5. CASE v.dirty /\ t.cached
  <2>1. v.cached
    BY <1>5 DEF PointOK, NoEntry
  <2>2. CASE t.fresh /\ v.coin = Spent
    <3>1. m = NoEntry
      BY <1>5, <2>2 DEF MergeEntry
    <3> QED
      BY <1>1, <1>5, <2>1, <2>2, <3>1 DEF PointOK, Seen, Entry, NoEntry, CoinOrSpent
  <2>3. CASE ~(t.fresh /\ v.coin = Spent)
    <3>1. m = [t EXCEPT !.coin = v.coin, !.dirty = TRUE]
      BY <1>5, <2>3 DEF MergeEntry
    <3>2. /\ m \in Entry
          /\ m.cached /\ m.coin = v.coin /\ m.dirty /\ m.fresh = t.fresh
      BY <1>5, <3>1 DEF PointOK, Entry
    <3> QED
      BY <1>1, <1>5, <2>1, <2>3, <3>2 DEF PointOK, Seen, Entry, NoEntry, CoinOrSpent
  <2> QED
    BY <2>2, <2>3
<1> QED
  BY <1>3, <1>4, <1>5 DEF PointOK, Entry

(* The database batch: what pcoinsTip showed is what the database holds.    *)
LEMMA PointFlushTip ==
  ASSUME NEW t, NEW d, PointOK(t, NoEntry, d)
  PROVE  /\ PointOK(NoEntry, NoEntry, IF t.dirty THEN t.coin ELSE d)
         /\ (IF t.dirty THEN t.coin ELSE d) = Seen(t, d)
BY SpentAssumption DEF PointOK, Seen, Entry, CoinOrSpent, NoEntry

(* Forgetting caches: a point with empty upper layers is fine.              *)
LEMMA PointEmpty ==
  ASSUME NEW t, NEW v, NEW d, PointOK(t, v, d)
  PROVE  /\ PointOK(NoEntry, NoEntry, d)
         /\ PointOK(t, NoEntry, d)
         /\ (t.cached /\ ~t.dirty) => PointOK(NoEntry, NoEntry, d) /\ t.coin = d
         /\ Seen(NoEntry, d) = d
BY SpentAssumption DEF PointOK, Seen, Entry, CoinOrSpent, NoEntry

-----------------------------------------------------------------------------
(* Every operation of the layers preserves the inductive invariant.         *)
LEMMA NextIInv == IInv /\ [Next]_vars => IInv'
<1>a. IInv' <=> (AllPointsOK' /\ Rest')
  BY IInvPointwise, PTL
<1> SUFFICES ASSUME AllPointsOK, Rest, [Next]_vars PROVE AllPointsOK' /\ Rest'
  BY <1>a, IInvPointwise
<1> DEFINE Pt(p) == PointOK(tip[p], view[p], db[p])
<1>0. \A p \in Outpoints : Pt(p)
  BY DEF AllPointsOK
<1>e. EmptyCache \in [Outpoints -> Entry] /\ \A p \in Outpoints : EmptyCache[p] = NoEntry
  BY DEF EmptyCache, NoEntry, Entry, CoinOrSpent
<1>1. CASE UNCHANGED vars
  BY <1>1 DEF vars, AllPointsOK, Rest
<1>2. ASSUME NEW o \in Outpoints, TipAccess(o) PROVE AllPointsOK' /\ Rest'
  <2>1. PointOK(TipFetched(o), view[o], db[o])
    BY <1>0, PointTipFetch DEF TipFetched
  <2>2. TipFetched(o) \in Entry
    BY <2>1 DEF PointOK
  <2>3. \A p \in Outpoints : PointOK(tip'[p], view'[p], db'[p])
    BY <1>0, <1>2, <2>1 DEF TipAccess, Rest
  <2> QED
    BY <1>2, <2>2, <2>3 DEF AllPointsOK, Rest, TipAccess
<1>3. ASSUME NEW o \in Outpoints, Uncache(o) PROVE AllPointsOK' /\ Rest'
  <2>1. view[o] = NoEntry
    BY <1>3, <1>e DEF Uncache, Rest
  <2>2. PointOK(NoEntry, view[o], db[o]) /\ NoEntry \in Entry
    BY <1>0, <2>1, PointEmpty DEF PointOK
  <2>3. \A p \in Outpoints : PointOK(tip'[p], view'[p], db'[p])
    BY <1>0, <1>3, <2>2 DEF Uncache, Rest
  <2> QED
    BY <1>3, <2>2, <2>3 DEF AllPointsOK, Rest, Uncache
<1>4. CASE OpenView
  BY <1>4 DEF OpenView, AllPointsOK, Rest, TipGetBestBlock
<1>5. ASSUME NEW o \in Outpoints
      PROVE  /\ PointOK(TipAfterViewFetch(o), ViewFetched(o), db[o])
             /\ ~ViewFetched(o).cached => Seen(TipAfterViewFetch(o), db[o]) = Spent
  <2>1. CASE view[o].cached
    <3>1. ViewFetched(o) = view[o] /\ TipAfterViewFetch(o) = tip[o]
      BY <2>1 DEF ViewFetched, TipAfterViewFetch, FetchEntry
    <3> QED
      BY <1>0, <2>1, <3>1
  <2>2. CASE ~view[o].cached
    <3>1. TipAfterViewFetch(o) = TipFetched(o)
      BY <2>2 DEF TipAfterViewFetch
    <3>2. PointOK(TipFetched(o), view[o], db[o])
      BY <1>0, PointTipFetch DEF TipFetched
    <3>3. ~TipFetched(o).cached => db[o] = Spent
      BY DEF TipFetched, FetchEntry
    <3>4. /\ PointOK(TipFetched(o), ViewFetched(o), db[o])
          /\ ~ViewFetched(o).cached =>
               Seen(view[o], Seen(TipFetched(o), db[o])) = Spent
      BY <3>2, <3>3, PointViewFetch DEF ViewFetched
    <3> QED
      BY <2>2, <3>1, <3>4 DEF Seen
  <2> QED
    BY <2>1, <2>2
<1>6. ASSUME NEW o \in Outpoints, ViewAccess(o) PROVE AllPointsOK' /\ Rest'
  <2>1. PointOK(TipAfterViewFetch(o), ViewFetched(o), db[o])
    BY <1>5
  <2>2. TipAfterViewFetch(o) \in Entry /\ ViewFetched(o) \in Entry
    BY <2>1 DEF PointOK
  <2>3. \A p \in Outpoints : PointOK(tip'[p], view'[p], db'[p])
    BY <1>0, <1>6, <2>1 DEF ViewAccess, Rest
  <2> QED
    BY <1>6, <2>2, <2>3 DEF AllPointsOK, Rest, ViewAccess
<1>7. ASSUME NEW o \in Outpoints, SpendCoin(o) PROVE AllPointsOK' /\ Rest'
  <2>1. PointOK(TipAfterViewFetch(o), SpendEntry(ViewFetched(o)), db[o])
    BY <1>5, PointSpend
  <2>2. TipAfterViewFetch(o) \in Entry /\ SpendEntry(ViewFetched(o)) \in Entry
    BY <2>1 DEF PointOK
  <2>3. \A p \in Outpoints : PointOK(tip'[p], view'[p], db'[p])
    BY <1>0, <1>7, <2>1 DEF SpendCoin, Rest
  <2> QED
    BY <1>7, <2>2, <2>3 DEF AllPointsOK, Rest, SpendCoin
<1>8. ASSUME NEW o \in Outpoints, NEW c \in Coins, NEW overwrite \in BOOLEAN,
             AddCoin(o, c, overwrite)
      PROVE  AllPointsOK' /\ Rest'
  <2>1. overwrite \/ Seen(view[o], Seen(tip[o], db[o])) = Spent
    BY <1>8 DEF AddCoin, ViewCoin, TipCoin, Seen
  <2>2. /\ PointOK(tip[o], AddEntry(view[o], c, overwrite), db[o])
        /\ ~AddThrows(view[o], overwrite)
    BY <1>0, <2>1, PointAdd
  <2>3. AddEntry(view[o], c, overwrite) \in Entry
    BY <2>2 DEF PointOK
  <2>4. /\ view' = [view EXCEPT ![o] = AddEntry(view[o], c, overwrite)]
        /\ UNCHANGED <<db, dbBest, tip, tipBest, open, logicError>>
        /\ open
    BY <1>8, <2>2 DEF AddCoin
  <2>5. \A p \in Outpoints : PointOK(tip'[p], view'[p], db'[p])
    BY <1>0, <2>2, <2>4 DEF Rest
  <2> QED
    BY <2>3, <2>4, <2>5 DEF AllPointsOK, Rest
<1>9. ASSUME NEW b \in Blocks, FlushView(b) PROVE AllPointsOK' /\ Rest'
  <2>1. ASSUME NEW p \in Outpoints
        PROVE  /\ PointOK(MergeEntry(tip[p], view[p]), NoEntry, db[p])
               /\ ~FreshMisapplied(tip[p], view[p])
    BY <1>0, PointMerge
  <2>2. /\ tip' = [p \in Outpoints |-> MergeEntry(tip[p], view[p])]
        /\ tipBest' = b /\ view' = EmptyCache /\ open' = FALSE
        /\ UNCHANGED <<db, dbBest, logicError>>
    BY <1>9, <2>1 DEF FlushView
  <2>3. \A p \in Outpoints : MergeEntry(tip[p], view[p]) \in Entry
    BY <2>1 DEF PointOK
  <2>4. \A p \in Outpoints : PointOK(tip'[p], view'[p], db'[p])
    BY <1>e, <2>1, <2>2
  <2> QED
    BY <1>e, <2>2, <2>3, <2>4 DEF AllPointsOK, Rest
<1>10. CASE DropView
  <2>1. \A p \in Outpoints : PointOK(tip[p], NoEntry, db[p])
    BY <1>0, PointEmpty
  <2> QED
    BY <1>10, <1>e, <2>1 DEF DropView, AllPointsOK, Rest
<1>11. CASE FlushTip
  <2>1. \A p \in Outpoints : PointOK(tip[p], NoEntry, db[p])
    BY <1>0, PointEmpty
  <2>2. \A p \in Outpoints : PointOK(NoEntry, NoEntry, IF tip[p].dirty THEN tip[p].coin ELSE db[p])
    BY <2>1, PointFlushTip
  <2>3. \A p \in Outpoints : (IF tip[p].dirty THEN tip[p].coin ELSE db[p]) \in CoinOrSpent
    BY <2>2 DEF PointOK
  <2>4. \A p \in Outpoints : PointOK(tip'[p], view'[p], db'[p])
    BY <1>11, <1>e, <2>2 DEF FlushTip, Rest
  <2> QED
    BY <1>11, <1>e, <2>3, <2>4 DEF FlushTip, AllPointsOK, Rest
<1>12. CASE Crash
  <2>1. \A p \in Outpoints : PointOK(NoEntry, NoEntry, db[p])
    BY <1>0, PointEmpty
  <2> QED
    BY <1>12, <1>e, <2>1 DEF Crash, AllPointsOK, Rest
<1> QED
  BY <1>1, <1>2, <1>3, <1>4, <1>6, <1>7, <1>8, <1>9, <1>10, <1>11, <1>12 DEF Next

(* The inductive invariant holds in every reachable state.                  *)
THEOREM CacheInvariant == Spec => []IInv
  BY InitIInv, NextIInv, PTL DEF Spec

(* Type correctness of the layers.                                          *)
THEOREM TypeCorrect == Spec => []TypeOK
  BY CacheInvariant, PTL DEF IInv

(* FRESH entries never hide an unspent coin of the layer below, so SpendCoin *)
(* and BatchWrite may erase them silently.                                  *)
THEOREM FreshSound == Spec => []FreshMeansAbsentInParent
  BY CacheInvariant, PTL DEF IInv

(* Entries without DIRTY equal the layer below, so BatchWrite may skip them *)
(* and Uncache may drop them.                                               *)
THEOREM CleanSound == Spec => []CleanEqualsParent
  BY CacheInvariant, PTL DEF IInv

(* The two std::logic_error throws of coins.cpp are unreachable.            *)
THEOREM NeverThrows == Spec => []NoLogicError
  BY CacheInvariant, PTL DEF IInv

-----------------------------------------------------------------------------
(* The layers refine the single UTXO map.                                   *)

TipMap == [o \in Outpoints |-> TipCoin(o)]

ViewMap == [o \in Outpoints |-> ViewCoin(o)]

(* An empty node maps to an empty store.                                    *)
LEMMA InitRefines == Init => Store!Init
<1> SUFFICES ASSUME Init PROVE Store!Init
  OBVIOUS
<1>1. \A o \in Outpoints : TipCoin(o) = Spent /\ ViewCoin(o) = Spent
  BY DEF Init, TipCoin, ViewCoin, EmptyCache, NoEntry
<1> QED
  BY <1>1 DEF Init, Store!Init, TipGetBestBlock

(* Each operation of the caches is a step of the store or invisible to it.  *)
LEMMA NextRefines == IInv /\ [Next]_vars => [Store!Next]_(Store!uvars)
<1> SUFFICES ASSUME AllPointsOK, Rest, [Next]_vars
             PROVE  Store!Next \/ UNCHANGED <<db, dbBest, TipMap, TipGetBestBlock, ViewMap, open>>
  BY IInvPointwise DEF Store!uvars, TipMap, ViewMap
<1>0. \A p \in Outpoints : PointOK(tip[p], view[p], db[p])
  BY DEF AllPointsOK
<1>s. \A p \in Outpoints : /\ TipCoin(p) = Seen(tip[p], db[p])
                           /\ ViewCoin(p) = Seen(view[p], Seen(tip[p], db[p]))
  BY DEF TipCoin, ViewCoin, Seen
<1>t. \A p \in Outpoints : /\ TipCoin(p)' = Seen(tip'[p], db'[p])
                           /\ ViewCoin(p)' = Seen(view'[p], Seen(tip'[p], db'[p]))
  BY DEF TipCoin, ViewCoin, Seen
<1>e. /\ \A p \in Outpoints : EmptyCache[p] = NoEntry
      /\ \A d : Seen(NoEntry, d) = d
  BY DEF EmptyCache, NoEntry, Seen
<1>1. CASE UNCHANGED vars
  BY <1>1 DEF vars, TipMap, ViewMap, TipCoin, ViewCoin, TipGetBestBlock
<1>2. ASSUME NEW o \in Outpoints, TipAccess(o)
      PROVE  UNCHANGED <<db, dbBest, TipMap, TipGetBestBlock, ViewMap, open>>
  <2>1. Seen(TipFetched(o), db[o]) = Seen(tip[o], db[o])
    BY <1>0, PointTipFetch DEF TipFetched
  <2>2. \A p \in Outpoints : Seen(tip'[p], db'[p]) = Seen(tip[p], db[p]) /\ view'[p] = view[p]
    BY <1>2, <2>1 DEF TipAccess, Rest
  <2> QED
    BY <1>2, <1>s, <1>t, <2>2 DEF TipAccess, TipMap, ViewMap, TipGetBestBlock
<1>3. ASSUME NEW o \in Outpoints, Uncache(o)
      PROVE  UNCHANGED <<db, dbBest, TipMap, TipGetBestBlock, ViewMap, open>>
  <2>1. Seen(NoEntry, db[o]) = Seen(tip[o], db[o])
    BY <1>0, <1>3 DEF Uncache, PointOK, Seen, NoEntry
  <2>2. \A p \in Outpoints : Seen(tip'[p], db'[p]) = Seen(tip[p], db[p]) /\ view'[p] = view[p]
    BY <1>3, <2>1 DEF Uncache, Rest
  <2> QED
    BY <1>3, <1>s, <1>t, <2>2 DEF Uncache, TipMap, ViewMap, TipGetBestBlock
<1>4. CASE OpenView
  <2>1. UNCHANGED <<db, dbBest, TipMap, TipGetBestBlock, ViewMap>>
    BY <1>4 DEF OpenView, TipMap, ViewMap, TipCoin, ViewCoin, TipGetBestBlock
  <2> QED
    BY <1>4, <2>1 DEF OpenView, Store!Next, Store!Begin, TipMap, ViewMap
<1>5. ASSUME NEW o \in Outpoints
      PROVE  /\ PointOK(TipAfterViewFetch(o), ViewFetched(o), db[o])
             /\ Seen(TipAfterViewFetch(o), db[o]) = Seen(tip[o], db[o])
             /\ Seen(ViewFetched(o), Seen(tip[o], db[o])) = Seen(view[o], Seen(tip[o], db[o]))
             /\ ~ViewFetched(o).cached => Seen(tip[o], db[o]) = Spent
  <2>1. CASE view[o].cached
    BY <1>0, <2>1 DEF ViewFetched, TipAfterViewFetch, FetchEntry
  <2>2. CASE ~view[o].cached
    <3>1. /\ PointOK(TipFetched(o), view[o], db[o])
          /\ Seen(TipFetched(o), db[o]) = Seen(tip[o], db[o])
      BY <1>0, PointTipFetch DEF TipFetched
    <3>2. ~TipFetched(o).cached => db[o] = Spent
      BY DEF TipFetched, FetchEntry
    <3>3. /\ PointOK(TipFetched(o), ViewFetched(o), db[o])
          /\ Seen(ViewFetched(o), Seen(TipFetched(o), db[o])) =
               Seen(view[o], Seen(TipFetched(o), db[o]))
          /\ ~ViewFetched(o).cached =>
               Seen(view[o], Seen(TipFetched(o), db[o])) = Spent
      BY <3>1, <3>2, PointViewFetch DEF ViewFetched
    <3> QED
      BY <2>2, <3>1, <3>3 DEF Seen, TipAfterViewFetch
  <2> QED
    BY <2>1, <2>2
<1>6. ASSUME NEW o \in Outpoints, ViewAccess(o)
      PROVE  UNCHANGED <<db, dbBest, TipMap, TipGetBestBlock, ViewMap, open>>
  <2>1. \A p \in Outpoints :
          /\ Seen(tip'[p], db'[p]) = Seen(tip[p], db[p])
          /\ Seen(view'[p], Seen(tip[p], db[p])) = Seen(view[p], Seen(tip[p], db[p]))
    BY <1>5, <1>6 DEF ViewAccess, Rest
  <2> QED
    BY <1>6, <1>s, <1>t, <2>1 DEF ViewAccess, TipMap, ViewMap, TipGetBestBlock
<1>7. ASSUME NEW o \in Outpoints, SpendCoin(o) PROVE Store!Next
  <2>1. Seen(SpendEntry(ViewFetched(o)), Seen(tip[o], db[o])) = Spent
    BY <1>5, PointSpend
  <2>2. \A p \in Outpoints :
          /\ Seen(tip'[p], db'[p]) = Seen(tip[p], db[p])
          /\ Seen(view'[p], Seen(tip[p], db[p])) =
               IF p = o THEN Spent ELSE Seen(view[p], Seen(tip[p], db[p]))
    BY <1>5, <1>7, <2>1 DEF SpendCoin, Rest
  <2>3. /\ TipMap' = TipMap
        /\ ViewMap' = [ViewMap EXCEPT ![o] = Spent]
    <3>1. \A p \in Outpoints : /\ TipCoin(p)' = TipCoin(p)
                               /\ ViewCoin(p)' = IF p = o THEN Spent ELSE ViewCoin(p)
      BY <1>s, <1>t, <2>2
    <3> QED
      BY <3>1 DEF TipMap, ViewMap
  <2>4. Store!Set(o, Spent)
    BY <1>7, <2>3 DEF SpendCoin, Store!Set, TipGetBestBlock, TipMap, ViewMap
  <2> QED
    BY <2>4 DEF Store!Next
<1>8. ASSUME NEW o \in Outpoints, NEW c \in Coins, NEW overwrite \in BOOLEAN,
             AddCoin(o, c, overwrite)
      PROVE  Store!Next
  <2>1. overwrite \/ Seen(view[o], Seen(tip[o], db[o])) = Spent
    BY <1>8, <1>s DEF AddCoin
  <2>2. /\ Seen(AddEntry(view[o], c, overwrite), Seen(tip[o], db[o])) = c
        /\ ~AddThrows(view[o], overwrite)
    BY <1>0, <2>1, PointAdd
  <2>3. /\ view' = [view EXCEPT ![o] = AddEntry(view[o], c, overwrite)]
        /\ UNCHANGED <<db, dbBest, tip, tipBest, open>> /\ open
    BY <1>8, <2>2 DEF AddCoin
  <2>4. \A p \in Outpoints :
          Seen(view'[p], Seen(tip[p], db[p])) =
            IF p = o THEN c ELSE Seen(view[p], Seen(tip[p], db[p]))
    BY <2>2, <2>3 DEF Rest
  <2>5. TipMap' = TipMap /\ ViewMap' = [ViewMap EXCEPT ![o] = c]
    <3>1. \A p \in Outpoints : TipCoin(p)' = TipCoin(p)
      BY <2>3 DEF TipCoin
    <3>2. \A p \in Outpoints : ViewCoin(p)' = IF p = o THEN c ELSE ViewCoin(p)
      BY <1>s, <1>t, <2>3, <2>4
    <3> QED
      BY <3>1, <3>2 DEF TipMap, ViewMap
  <2>6. Store!Set(o, c)
    BY <2>3, <2>5 DEF Store!Set, TipGetBestBlock, TipMap, ViewMap
  <2> QED
    BY <2>6 DEF Store!Next
<1>9. ASSUME NEW b \in Blocks, FlushView(b) PROVE Store!Next
  <2>1. \A p \in Outpoints :
          /\ Seen(MergeEntry(tip[p], view[p]), db[p]) = Seen(view[p], Seen(tip[p], db[p]))
          /\ ~FreshMisapplied(tip[p], view[p])
    BY <1>0, PointMerge
  <2>2. /\ tip' = [p \in Outpoints |-> MergeEntry(tip[p], view[p])]
        /\ tipBest' = b /\ view' = EmptyCache /\ open' = FALSE /\ open
        /\ UNCHANGED <<db, dbBest>>
    BY <1>9, <2>1 DEF FlushView
  <2>3. TipMap' = ViewMap /\ ViewMap' = ViewMap
    BY <1>e, <1>s, <1>t, <2>1, <2>2 DEF TipMap, ViewMap
  <2>4. TipGetBestBlock' = b
    BY <2>2, NullHashAssumption DEF TipGetBestBlock
  <2>5. Store!Commit(b)
    BY <2>2, <2>3, <2>4 DEF Store!Commit, TipMap, ViewMap
  <2> QED
    BY <2>5 DEF Store!Next
<1>10. CASE DropView
  <2>1. TipMap' = TipMap /\ ViewMap' = TipMap /\ TipGetBestBlock' = TipGetBestBlock
    BY <1>10, <1>e, <1>s, <1>t DEF DropView, TipMap, ViewMap, TipGetBestBlock
  <2>2. Store!Abandon
    BY <1>10, <2>1 DEF DropView, Store!Abandon, TipMap, ViewMap
  <2> QED
    BY <2>2 DEF Store!Next
<1>11. CASE FlushTip
  <2>1. \A p \in Outpoints : PointOK(tip[p], NoEntry, db[p])
    BY <1>0, PointEmpty
  <2>2. \A p \in Outpoints : db'[p] = Seen(tip[p], db[p])
    BY <1>11, <2>1, PointFlushTip DEF FlushTip
  <2>3. \A p \in Outpoints : view[p] = NoEntry
    BY <1>11, <1>e DEF FlushTip, Rest
  <2>4. /\ db' = TipMap /\ TipMap' = TipMap /\ ViewMap' = ViewMap
        /\ dbBest' = TipGetBestBlock /\ TipGetBestBlock' = TipGetBestBlock
    BY <1>11, <1>e, <1>s, <1>t, <2>2, <2>3
       DEF FlushTip, TipMap, ViewMap, TipGetBestBlock
  <2>5. Store!Persist
    BY <1>11, <2>4 DEF FlushTip, Store!Persist, TipMap, ViewMap
  <2> QED
    BY <2>5 DEF Store!Next
<1>12. CASE Crash
  <2>1. /\ db = [p \in Outpoints |-> db[p]]
        /\ db' = db /\ dbBest' = dbBest /\ open' = FALSE
        /\ tip' = EmptyCache /\ view' = EmptyCache /\ tipBest' = NullHash
    BY <1>12 DEF Crash, Rest
  <2>2. TipMap' = db /\ ViewMap' = db /\ TipGetBestBlock' = dbBest
    BY <1>e, <1>t, <2>1 DEF TipMap, ViewMap, TipGetBestBlock
  <2>3. Store!Restart
    BY <2>1, <2>2 DEF Store!Restart, TipMap, ViewMap
  <2> QED
    BY <2>3 DEF Store!Next
<1> QED
  BY <1>1, <1>2, <1>3, <1>4, <1>6, <1>7, <1>8, <1>9, <1>10, <1>11, <1>12 DEF Next

(* The layered caches implement the single UTXO map with atomic block       *)
(* commits and crash-consistent persistence.                                *)
THEOREM CacheRefinement == Spec => RefinesUtxoStore
  BY InitRefines, NextRefines, CacheInvariant, PTL DEF Spec, RefinesUtxoStore, Store!Spec
=============================================================================
