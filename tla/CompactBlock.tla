---------------------------- MODULE CompactBlock ----------------------------
(***************************************************************************)
(* Compact blocks (blockencodings.cpp, blockencodings.h): one node sends a *)
(* block as short transaction ids, the other one rebuilds it from its pool *)
(* and the extra transactions it kept, and asks for what it does not find. *)
(* How these messages meet the download of blocks is in BlockDownload;     *)
(* here is what they carry.                                                *)
(*                                                                         *)
(* Positions in a block begin at 0, as in the messages.                    *)
(***************************************************************************)
EXTENDS Integers, Sequences, FiniteSets, SequencesExt, FiniteSetsExt

CONSTANTS
    CbTxs,          \* the transactions but for the coinbase
    ShortId,        \* GetShortID for the nonce of the message; may collide
    Buckets,        \* what the buckets of the receiver's hash table may be, by short id
    MaxPerBucket,   \* how many of them a bucket may hold: 12
    MaxBlockTxs,    \* how many the block has besides the coinbase
    MaxPoolTxs,
    MaxExtraTxs

Coinbase == 99
Missing == 0        \* an empty entry of txn_available

VARIABLES
    block,      \* what the sender has
    pool,       \* vTxHashes of the receiver, in its order
    extraTxn,   \* vExtraTxnForCompact
    wire,       \* the message that is on its way
    partial,    \* the PartiallyDownloadedBlock: txn_available
    status,     \* the last ReadStatus
    rebuilt     \* the block that FillBlock made

cmpctVars == <<block, pool, extraTxn, wire, partial, status, rebuilt>>

DistinctSeqs(S, n) == {s \in UNION {[1..k -> S] : k \in 0..n} : IsInjective(s)}

CompactInit ==
    /\ block \in {<<Coinbase>> \o s : s \in DistinctSeqs(CbTxs, MaxBlockTxs)}
    /\ pool \in DistinctSeqs(CbTxs, MaxPoolTxs)
    /\ extraTxn \in UNION {[1..k -> CbTxs] : k \in 0..MaxExtraTxs}
    /\ wire = [type |-> "none"]
    /\ partial = <<>> /\ status = "none" /\ rebuilt = <<>>

-----------------------------------------------------------------------------
(* The encoding of a list of positions by the distances between them.       *)

Differences(s) == [i \in DOMAIN s |-> s[i] - IF i = 1 THEN 0 ELSE s[i - 1] + 1]

\* The offset is carried on without the position itself.
PositionsLate(d) ==
    LET P[i \in 0..Len(d)] == IF i = 0 THEN 0 ELSE P[i - 1] + d[i]
    IN  [i \in DOMAIN d |-> P[i]]

\* The reader adds them up again.
Positions(d) ==
    LET P[i \in 0..Len(d)] == IF i = 0 THEN -1 ELSE P[i - 1] + 1 + d[i]
    IN  [i \in DOMAIN d |-> P[i]]

\* CBlockHeaderAndShortTxIDs(block): the coinbase goes along, the others by short id.
\* A sender may also add other transactions, as the format allows.
SendCompact(prefill) ==
    LET at == SetToSortSeq(prefill \cup {0}, <)
        others == SetToSortSeq((0..(Len(block) - 1)) \ Range(at), <)
    IN  /\ wire.type = "none" /\ status = "none"
        /\ wire' = [type |-> "cmpctblock",
                    shorttxids |-> [i \in DOMAIN others |-> ShortId[block[others[i] + 1]]],
                    prefilledIndex |-> Differences(at),
                    prefilledtxn |-> [i \in DOMAIN at |-> block[at[i] + 1]]]
        /\ UNCHANGED <<block, pool, extraTxn, partial, status, rebuilt>>

-----------------------------------------------------------------------------
(* InitData.                                                               *)

\* The prefilled transactions at their positions, in a block of n.
Prefilled(n, at, txs) ==
    [i \in 1..n |-> IF \E j \in DOMAIN at : at[j] = i - 1
                      THEN txs[CHOOSE j \in DOMAIN at : at[j] = i - 1] ELSE Missing]

\* The scan of the pool, then of the extra transactions: available holds what was
\* found, have the positions that ever had a find, count the ones that have one now.
Found(s, p, tx) == [s EXCEPT !.available[p] = tx, !.have = @ \cup {p}, !.count = @ + 1]

\* "If we find two mempool txn that match the short id, just request it."
Clash(s, p, tx) ==
    IF s.available[p] = Missing THEN s
    ELSE [s EXCEPT !.available[p] = Missing, !.count = @ - 1]

RECURSIVE Scan(_, _, _, _)
Scan(list, place, s, extra) ==
    IF list = <<>> \/ s.count = Cardinality(DOMAIN place) THEN s
    ELSE LET tx == Head(list)
             id == ShortId[tx]
             p == place[id]
             next == IF id \notin DOMAIN place THEN s
                     ELSE IF p \notin s.have THEN Found(s, p, tx)
                     ELSE IF extra /\ s.available[p] = tx THEN s
                     ELSE Clash(s, p, tx)
         IN  Scan(Tail(list), place, next, extra)

\* The source tests for the early exit after each entry, and scans at least one;
\* there is nothing to find for it when no short id was sent.
Available(msg) ==
    LET n == Len(msg.shorttxids) + Len(msg.prefilledtxn)
        prefilled == Prefilled(n, Positions(msg.prefilledIndex), msg.prefilledtxn)
        free == SetToSortSeq({i \in 1..n : prefilled[i] = Missing}, <)
        place == [id \in Range(msg.shorttxids) |->
                     free[CHOOSE i \in DOMAIN msg.shorttxids : msg.shorttxids[i] = id]]
        start == [available |-> prefilled, have |-> {}, count |-> 0]
    IN  Scan(extraTxn, place, Scan(pool, place, start, FALSE), TRUE).available

\* The positions that the prefilled ones leave must be covered by short ids.
WellFormed(msg) ==
    LET at == Positions(msg.prefilledIndex)
    IN  \A i \in DOMAIN at : at[i] <= Len(msg.shorttxids) + i - 1

Collides(msg) == Cardinality(Range(msg.shorttxids)) # Len(msg.shorttxids)

\* Some bucket of the hash table gets more than its share of the given short ids.
Crowded(ids, bucket) ==
    \E id \in ids : Cardinality({x \in ids : bucket[x] = bucket[id]}) > MaxPerBucket

\* Receipt of the compact block: a failure asks for the whole block; with nothing
\* missing the block is filled at once.
ReceiveCompact(bucket) ==
    /\ wire.type = "cmpctblock"
    /\ UNCHANGED <<block, pool, extraTxn, rebuilt>>
    /\ status' = IF ~ WellFormed(wire) THEN "invalid" ELSE
                 IF Collides(wire) \/ Crowded(Range(wire.shorttxids), bucket) THEN "failed" ELSE "ok"
    /\ partial' = IF status' = "ok" THEN Available(wire) ELSE partial
    /\ LET missing == SetToSortSeq({i - 1 : i \in {j \in DOMAIN partial' : partial'[j] = Missing}}, <)
       IN  wire' = IF status' = "invalid" THEN [type |-> "none"]
                   ELSE IF status' = "failed" THEN [type |-> "getdata"]
                   ELSE IF missing = <<>> THEN [type |-> "blocktxn", txn |-> <<>>]
                   ELSE [type |-> "getblocktxn", indexes |-> Differences(missing)]

\* GETBLOCKTXN at the sender; a position outside the block is punished.
SendTransactions ==
    /\ wire.type = "getblocktxn"
    /\ LET at == Positions(wire.indexes)
       IN  IF \A i \in DOMAIN at : at[i] < Len(block)
             THEN /\ wire' = [type |-> "blocktxn", txn |-> [i \in DOMAIN at |-> block[at[i] + 1]]]
                  /\ UNCHANGED status
             ELSE wire' = [type |-> "none"] /\ status' = "out of bounds"
    /\ UNCHANGED <<block, pool, extraTxn, partial, rebuilt>>

\* FillBlock: the gaps are filled in order.  CheckBlock compares the merkle root, which
\* the block only has with exactly its transactions.
FillBlock ==
    LET gaps == SetToSortSeq({i \in DOMAIN partial : partial[i] = Missing}, <)
        got == wire.txn
        filled == [i \in DOMAIN partial |->
                      IF partial[i] # Missing THEN partial[i]
                      ELSE got[CHOOSE j \in DOMAIN gaps : gaps[j] = i]]
    IN  /\ wire.type = "blocktxn"
        /\ IF Len(got) # Len(gaps)
             THEN status' = "invalid" /\ UNCHANGED rebuilt
             ELSE /\ rebuilt' = filled
                  /\ status' = IF filled = block THEN "done" ELSE "failed"
        /\ wire' = [type |-> IF status' = "failed" THEN "getdata" ELSE "none"]
        /\ partial' = <<>>
        /\ UNCHANGED <<block, pool, extraTxn>>

CompactNext ==
    \/ \E prefill \in SUBSET (0..(Len(block) - 1)) : SendCompact(prefill)
    \/ \E bucket \in Buckets : ReceiveCompact(bucket)
    \/ SendTransactions
    \/ FillBlock

CompactSpec == CompactInit /\ [][CompactNext]_cmpctVars

-----------------------------------------------------------------------------
\* The pairs of different transactions with one short id, of the block or of what the
\* receiver has.
Confusable ==
    LET near == Range(block) \cup Range(pool) \cup Range(extraTxn)
    IN  \E x \in Range(block) \ {Coinbase} : \E y \in near \ {Coinbase, x} : ShortId[x] = ShortId[y]

\* Between two nodes that follow the protocol a compact block is rebuilt as the block
\* that was sent, whatever part of it is prefilled, found in the pool or among the extra
\* transactions, or asked for.  Neither side is ever taken for misbehaving, and the whole
\* block has to be asked for only if two short ids collide, or more of those of the block
\* than allowed fall into one bucket.
HonestBlockRebuilt ==
    /\ status \notin {"invalid", "out of bounds"}
    /\ status = "failed" =>
          \/ Confusable
          \/ \E bucket \in Buckets : Crowded({ShortId[x] : x \in Range(block) \ {Coinbase}}, bucket)
=============================================================================
