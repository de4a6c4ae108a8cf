------------------------------ MODULE TxRelay ------------------------------
(***************************************************************************)
(* How transactions travel (net_processing.cpp, net.cpp): one whose        *)
(* parents are missing waits as an orphan, what was refused is remembered  *)
(* until the tip changes, and what was accepted is announced to the other  *)
(* peers.  TxRequests models how they are asked for; here they may come    *)
(* from any peer at any time.                                              *)
(*                                                                         *)
(* The memory pool is the set of what it accepted (see TxPool for what     *)
(* accepting means), and filters are exact sets.                           *)
(***************************************************************************)
EXTENDS Integers, FiniteSets

CONSTANTS
    TxPeers,     \* the peers
    Txs,         \* the transactions
    Spends,      \* the transactions whose outputs each of them spends
    Refused,     \* those that are invalid and cost their sender its connection
    Policy,      \* those that the pool does not take until the tip has changed
    MaxOrphans,  \* -maxorphantx
    MaxTips      \* bound: changes of the tip

ASSUME RelayAssumption ==
    /\ Spends \in [Txs -> SUBSET Txs]
    /\ Refused \cap Policy = {}
    /\ MaxOrphans \in Nat /\ MaxTips \in Nat

VARIABLES
    present,      \* the peers that are connected
    pool,         \* the memory pool
    mined,        \* the transactions in blocks
    tipNumber,    \* chainActive.Tip(), as the number of changes so far
    orphans,      \* mapOrphanTransactions: the peer that sent each orphan
    byPrev,       \* mapOrphanTransactionsByPrev: pairs <<spent transaction, orphan>>
    rejects,      \* recentRejects
    rejectsTip,   \* hashRecentRejectsChainTip
    rejectedAt,   \* the tip at which each of the rejects was refused
    known,        \* filterInventoryKnown
    toSend,       \* setInventoryTxToSend
    owed          \* what was received and accepted since the peer connected, and is
                  \* in the pool, unless the peer asked not to be told of it

inventory == <<known, toSend>>
orphanage == <<orphans, byPrev>>
refusals == <<rejects, rejectsTip, rejectedAt>>
relayVars == <<present, pool, mined, tipNumber, orphanage, refusals, inventory, owed>>

-----------------------------------------------------------------------------
RelayInit ==
    /\ present = {}
    /\ pool = {} /\ mined = {} /\ tipNumber = 0
    /\ orphans = <<>> /\ byPrev = {}
    /\ rejects = {} /\ rejectsTip = 0 /\ rejectedAt = <<>>
    /\ known = [p \in TxPeers |-> {}] /\ toSend = [p \in TxPeers |-> {}]
    /\ owed = [p \in TxPeers |-> {}]

Available == pool \cup mined

\* The filter is kept when the tip changes.
StaleRejects == rejects

\* AlreadyHave resets the filter of rejects when it is about another tip.
CurrentRejects == IF rejectsTip = tipNumber THEN rejects ELSE {}

AlreadyHave(t) ==
    t \in CurrentRejects \cup Available \cup DOMAIN orphans

\* What AlreadyHave leaves of the filter, and what is added to it.
Reject(S) ==
    /\ rejectsTip' = tipNumber
    /\ rejects' = CurrentRejects \cup S
    /\ rejectedAt' = [t \in CurrentRejects \cup S |->
                         IF t \in S THEN tipNumber ELSE rejectedAt[t]]

-----------------------------------------------------------------------------
(* Orphans.                                                                *)

\* The orphans S are erased, but not from the index.
IndexKept(S) == byPrev

\* EraseOrphanTx for each of S, as the index sees it.
IndexWithout(S) == {e \in byPrev : e[2] \notin S}

EraseOrphans(S) ==
    /\ orphans' = [t \in DOMAIN orphans \ S |-> orphans[t]]
    /\ byPrev' = IndexWithout(S)

\* AddOrphanTx, then LimitOrphanTxSize, which erases what has expired and then
\* as many others, taken at random, as are too many.
AddOrphanTx(t, p) ==
    LET all == DOMAIN orphans \cup {t}
    IN  \E expired \in SUBSET DOMAIN orphans, evicted \in SUBSET all :
            LET gone == expired \cup evicted
            IN  /\ expired \cap evicted = {}
                /\ evicted # {} => Cardinality(all \ gone) = MaxOrphans
                /\ Cardinality(all \ gone) <= MaxOrphans
                /\ orphans' = [o \in all \ gone |->
                                  IF o \in DOMAIN orphans THEN orphans[o] ELSE p]
                /\ byPrev' = {e \in byPrev \cup {<<s, t>> : s \in Spends[t]} : e[2] \notin gone}

-----------------------------------------------------------------------------
(* Receiving.                                                              *)

\* INV.
TxInv(p, t) ==
    /\ p \in present
    /\ known' = [known EXCEPT ![p] = @ \cup {t}]
    /\ Reject({})
    /\ UNCHANGED <<present, pool, mined, tipNumber, orphanage, toSend, owed>>

\* Only the transaction that was received is announced.
PushedFirst(t, resolved, knownNow) ==
    [q \in TxPeers |-> IF q \in present THEN toSend[q] \cup ({t} \ knownNow[q]) ELSE toSend[q]]

\* RelayTransaction for t and for the orphans that were accepted with it.
Pushed(t, resolved, knownNow) ==
    [q \in TxPeers |-> IF q \in present
                        THEN toSend[q] \cup (({t} \cup resolved) \ knownNow[q]) ELSE toSend[q]]

\* AcceptToMemoryPool when the transactions S can be spent.
MissingInputs(t, S) == ~ (Spends[t] \subseteq S)
Takes(t) == t \notin Refused /\ (t \in Policy => tipNumber > 0)

\* The orphans that are tried once t is accepted: those that spend t or another
\* one that is accepted, except for some of a peer that sent an invalid one.
Resolve(t, skipped) ==
    LET tried(taken) == {o \in DOMAIN orphans \ skipped :
                            /\ Spends[o] \cap (taken \cup {t}) # {}
                            /\ Spends[o] \subseteq Available \cup taken \cup {t}}
        taken == CHOOSE S \in SUBSET DOMAIN orphans : S = {o \in tried(S) : Takes(o)}
    IN  [taken |-> taken, refused |-> {o \in tried(taken) : ~ Takes(o)}]

\* TX: it is known already, and counts as refused; it is kept as an orphan,
\* whose parents the peer must know; it is refused; or it is accepted, with the
\* orphans that depend on it.  An orphan that spends two outputs is tried again
\* after it was accepted, and counts as refused as well.
Tx(p, t) ==
    LET missing == MissingInputs(t, Available)
        hopeless == Spends[t] \cap CurrentRejects # {}
    IN  /\ p \in present
        /\ UNCHANGED <<present, mined, tipNumber>>
        /\ \/ /\ AlreadyHave(t)
              /\ Reject({t})
              /\ known' = [known EXCEPT ![p] = @ \cup {t}]
              /\ UNCHANGED <<pool, orphanage, toSend, owed>>
           \/ /\ ~ AlreadyHave(t) /\ missing /\ ~ hopeless
              /\ Reject({})
              /\ known' = [known EXCEPT ![p] = @ \cup {t} \cup Spends[t]]
              /\ AddOrphanTx(t, p)
              /\ UNCHANGED <<pool, toSend, owed>>
           \/ /\ ~ AlreadyHave(t) /\ IF missing THEN hopeless ELSE ~ Takes(t)
              /\ Reject({t})
              /\ known' = [known EXCEPT ![p] = @ \cup {t}]
              /\ UNCHANGED <<pool, orphanage, toSend, owed>>
           \/ /\ ~ AlreadyHave(t) /\ ~ missing /\ Takes(t)
              /\ known' = [known EXCEPT ![p] = @ \cup {t}]
              /\ \E skipped \in SUBSET DOMAIN orphans :
                    LET r == Resolve(t, skipped)
                    IN  /\ \A o \in skipped :
                              orphans[o] \in {orphans[c] : c \in r.refused \cap Refused}
                        /\ pool' = pool \cup {t} \cup r.taken
                        /\ toSend' = Pushed(t, r.taken, known')
                        /\ owed' = [q \in TxPeers |-> IF q \in present THEN owed[q] \cup {t} \cup r.taken
                                                      ELSE owed[q]]
                        /\ \E again \in SUBSET r.taken : Reject(r.refused \cup again)
                        /\ EraseOrphans(r.taken \cup r.refused)

\* A peer connects: a CNode with empty inventories.
TxConnect(p) ==
    /\ p \notin present
    /\ present' = present \cup {p}
    /\ UNCHANGED <<pool, mined, tipNumber, orphanage, refusals, inventory, owed>>

\* A connection ends, by the peer, by a failure or for what it sent: the CNode
\* goes, and FinalizeNode calls EraseOrphansFor.
TxDisconnect(p) ==
    /\ p \in present
    /\ present' = present \ {p}
    /\ EraseOrphans({o \in DOMAIN orphans : orphans[o] = p})
    /\ known' = [known EXCEPT ![p] = {}] /\ toSend' = [toSend EXCEPT ![p] = {}]
    /\ owed' = [owed EXCEPT ![p] = {}]
    /\ UNCHANGED <<pool, mined, tipNumber, refusals>>

-----------------------------------------------------------------------------
(* What else changes the pool.  Nothing of this is announced.              *)

PoolBecomes(S) == pool' = S /\ owed' = [p \in TxPeers |-> owed[p] \cap S]

\* Nothing in the pool spends what leaves it.
Independent(gone) == \A u \in pool \ gone : Spends[u] \cap pool \cap gone = {}

\* A block with the transactions S, and others that spend what those in conflicts
\* spend: the pool loses both, and SyncTransaction erases the orphans among them.
TxBlock(S, conflicts) ==
    /\ tipNumber < MaxTips
    /\ tipNumber' = tipNumber + 1
    /\ \A t \in S : t \notin Refused \cup mined /\ Spends[t] \subseteq mined \cup S
    /\ S \cap conflicts = {} /\ Independent(conflicts)
    /\ mined' = mined \cup S
    /\ PoolBecomes(pool \ (S \cup conflicts))
    /\ EraseOrphans(S \cup conflicts)
    /\ UNCHANGED <<present, refusals, inventory>>

\* Blocks with the transactions S are disconnected in a reorganisation.  Those in
\* back return to the pool, the others leave it with what spends them.
TxReorg(S, back) ==
    /\ tipNumber < MaxTips
    /\ tipNumber' = tipNumber + 1
    /\ \A t \in mined \ S : Spends[t] \cap S = {}
    /\ mined' = mined \ S
    /\ \A t \in back : Takes(t) /\ Spends[t] \subseteq mined' \cup back
    /\ LET lost == {gone \in SUBSET pool : \A u \in pool : u \in gone <=> Spends[u] \cap ((S \ back) \cup gone) # {}}
       IN  \E gone \in lost : PoolBecomes((pool \ gone) \cup back)
    /\ UNCHANGED <<present, orphanage, refusals, inventory>>

\* The pool drops a transaction that nothing in it spends: it is too old, or
\* there are too many.
Evict(t) ==
    /\ t \in pool /\ Independent({t})
    /\ PoolBecomes(pool \ {t})
    /\ UNCHANGED <<present, mined, tipNumber, orphanage, refusals, inventory>>

-----------------------------------------------------------------------------
(* Announcing.                                                             *)

\* The part of SendMessages that announces up to INVENTORY_BROADCAST_MAX of what
\* is to be sent, here the set S, but for those that the peer does not want: it
\* has a fee filter or a bloom filter, or no transactions are to be relayed to it.
SendInv(p, S, unwanted) ==
    LET told == ((S \ known[p]) \cap pool) \ unwanted
    IN  /\ p \in present /\ S # {} /\ S \subseteq toSend[p]
        /\ toSend' = [toSend EXCEPT ![p] = @ \ S]
        /\ known' = [known EXCEPT ![p] = @ \cup told]
        /\ owed' = [owed EXCEPT ![p] = @ \ unwanted]
        /\ UNCHANGED <<present, pool, mined, tipNumber, orphanage, refusals>>

\* The answer to a MEMPOOL request: all of the pool that the peer's filters let
\* through, those it cannot be told of being no longer to be sent.
SendMempool(p, unwanted) ==
    /\ p \in present
    /\ toSend' = [toSend EXCEPT ![p] = @ \ pool]
    /\ known' = [known EXCEPT ![p] = @ \cup (pool \ unwanted)]
    /\ owed' = [owed EXCEPT ![p] = @ \ unwanted]
    /\ UNCHANGED <<present, pool, mined, tipNumber, orphanage, refusals>>

-----------------------------------------------------------------------------
RelayNext ==
    \/ \E p \in TxPeers :
          \/ \E t \in Txs : TxInv(p, t) \/ Tx(p, t)
          \/ \E S \in SUBSET toSend[p] : \E unwanted \in SUBSET (S \cap pool) : SendInv(p, S, unwanted)
          \/ \E unwanted \in SUBSET pool : SendMempool(p, unwanted)
          \/ TxConnect(p) \/ TxDisconnect(p)
    \/ \E S \in SUBSET Txs : \E conflicts \in SUBSET (pool \cup DOMAIN orphans) : TxBlock(S, conflicts)
    \/ \E S \in SUBSET mined : \E back \in SUBSET S : TxReorg(S, back)
    \/ \E t \in Txs : Evict(t)

RelaySpec == RelayInit /\ [][RelayNext]_relayVars

-----------------------------------------------------------------------------
\* mapOrphanTransactionsByPrev holds iterators into mapOrphanTransactions: it
\* names exactly the orphans there are, each under everything it spends; they
\* belong to peers that are connected, and there are never too many of them.
OrphanIndexExact ==
    /\ byPrev = {e \in Txs \X DOMAIN orphans : e[1] \in Spends[e[2]]}
    /\ \A o \in DOMAIN orphans : orphans[o] \in present
    /\ Cardinality(DOMAIN orphans) <= MaxOrphans

\* "Reset the rejects filter and give those txs a second chance": nothing is
\* held back for having been refused before the present tip.
RejectsAreCurrent ==
    \A t \in CurrentRejects : rejectedAt[t] = tipNumber

\* Every transaction that was received and came into the pool, at once or as an
\* orphan that another one set free, is known to each peer that was connected then,
\* or waits to be announced to it, or is not wanted by it.  Nothing is promised of
\* what a reorganisation returned to the pool, or to peers that connect later: they
\* are not told.
PoolReachesPeers == \A p \in present : owed[p] \subseteq known[p] \cup toSend[p]

\* What the handlers of one peer leave in the orphan maps, the filter and the
\* inventories is what those of the others rely on: the three above, together.
RelayStateExact == OrphanIndexExact /\ RejectsAreCurrent /\ PoolReachesPeers
=============================================================================
