---------------------------- MODULE FeeEstimator ----------------------------
(***************************************************************************)
(* CBlockPolicyEstimator and TxConfirmStats (policy/fees.cpp): the node    *)
(* tracks how many blocks the transactions of its pool wait, by fee rate,  *)
(* and estimates from that the fee rate that is needed to be confirmed     *)
(* within a number of blocks.                                              *)
(*                                                                         *)
(* The moving averages are exact: the decay is one half, and everything is *)
(* counted in units of which a number that is halved once per block stays  *)
(* whole.  A fee rate is a small number, a bucket its upper bound.         *)
(***************************************************************************)
EXTENDS Integers, FiniteSets, Functions, FiniteSetsExt

CONSTANTS
    FeeTxs,         \* the transactions
    FeeRate,        \* their fee rates
    FeeBuckets,     \* the upper bounds of the buckets; the last one is INF_FEERATE
    MaxConfirms,    \* MAX_BLOCK_CONFIRMS
    Enough,         \* SUFFICIENT_FEETXS / (1 - decay)
    MaxFeeBlocks,   \* how far the height goes
    MaxRestarts

VARIABLES
    tipHeight,         \* of the active chain
    entryHeight,       \* the height of each transaction of the pool
    nBestSeenHeight,
    mapMemPoolTxs,     \* height and bucket of every transaction that is tracked
    feeStats,          \* unconfTxs, oldUnconfTxs, confAvg, avg, txCtAvg
    feeFile,           \* fee_estimates.dat
    restarts

feeVars == <<tipHeight, entryHeight, nBestSeenHeight, mapMemPoolTxs, feeStats, feeFile, restarts>>

Bins == 0..(MaxConfirms - 1)
Unit == 2 ^ MaxFeeBlocks
NoCounts == [b \in FeeBuckets |-> 0]
NoStats == [unconfTxs |-> [i \in Bins |-> NoCounts], oldUnconfTxs |-> NoCounts,
            confAvg |-> [i \in 1..MaxConfirms |-> NoCounts], avg |-> NoCounts, txCtAvg |-> NoCounts]

\* bucketMap.lower_bound.
BucketOf(rate) == Min({b \in FeeBuckets : b >= rate})

FeeInit ==
    /\ tipHeight = 0
    /\ entryHeight = <<>>
    /\ nBestSeenHeight = 0
    /\ mapMemPoolTxs = <<>>
    /\ feeStats = NoStats
    /\ feeFile = [height |-> 0, stats |-> NoStats]
    /\ restarts = 0

-----------------------------------------------------------------------------
\* ClearCurrent as it would be with the counts thrown away.
ClearCurrentForget(stats, height) ==
    [stats EXCEPT !.unconfTxs[height % MaxConfirms] = NoCounts]

\* ClearCurrent: the bin of this height is used again, so what is still unconfirmed
\* in it since MaxConfirms blocks is old from now on.
ClearCurrent(stats, height) ==
    LET bin == height % MaxConfirms
    IN  [stats EXCEPT !.oldUnconfTxs = [b \in FeeBuckets |-> @[b] + stats.unconfTxs[bin][b]],
                      !.unconfTxs[bin] = NoCounts]

Less(count) == IF count > 0 THEN count - 1 ELSE 0

\* TxConfirmStats::removeTx.
RemoveFromStats(stats, tracked, best) ==
    LET ago == IF best = 0 THEN 0 ELSE best - tracked.height
    IN  IF ago < 0 THEN stats
        ELSE IF ago >= MaxConfirms THEN [stats EXCEPT !.oldUnconfTxs[tracked.bucket] = Less(@)]
        ELSE [stats EXCEPT !.unconfTxs[tracked.height % MaxConfirms][tracked.bucket] = Less(@)]

\* What Record counts for a set S of transactions: those confirmed within i blocks of
\* their entry, and all of them, with the sum of their fee rates.
InBucket(S, b) == {t \in S : BucketOf(FeeRate[t]) = b}
Waited(t, height) == height - entryHeight[t]

\* Every transaction is counted for the number of blocks it waited only.
ConfirmedWithinExactly(S, b, i, height) == {t \in InBucket(S, b) : Waited(t, height) = i}

ConfirmedWithin(S, b, i, height) == {t \in InBucket(S, b) : Waited(t, height) <= i}

\* UpdateMovingAverages over ClearCurrent and Record for the transactions in S.
UpdateMovingAverages(stats, S, height) ==
    [stats EXCEPT
        !.confAvg = [i \in 1..MaxConfirms |-> [b \in FeeBuckets |->
            @[i][b] \div 2 + Unit * Cardinality(ConfirmedWithin(S, b, i, height))]],
        !.avg = [b \in FeeBuckets |->
            @[b] \div 2 + Unit * MapThenSumSet(LAMBDA t : FeeRate[t], InBucket(S, b))],
        !.txCtAvg = [b \in FeeBuckets |-> @[b] \div 2 + Unit * Cardinality(InBucket(S, b))]]

-----------------------------------------------------------------------------
\* CBlockPolicyEstimator::removeTx, from removeUnchecked: a transaction leaves the
\* pool for any reason but a block.
RemoveUnchecked(t) ==
    /\ t \in DOMAIN entryHeight
    /\ entryHeight' = Restrict(entryHeight, DOMAIN entryHeight \ {t})
    /\ mapMemPoolTxs' = Restrict(mapMemPoolTxs, DOMAIN mapMemPoolTxs \ {t})
    /\ feeStats' = IF t \in DOMAIN mapMemPoolTxs
                     THEN RemoveFromStats(feeStats, mapMemPoolTxs[t], nBestSeenHeight) ELSE feeStats
    /\ UNCHANGED <<tipHeight, nBestSeenHeight, feeFile, restarts>>

\* "Ignore txs if BlockPolicyEstimator is not in sync with chainActive.Tip()".
InSync(height) == height = nBestSeenHeight

\* addUnchecked and processTransaction; valid is validFeeEstimate.
ProcessTransaction(t, valid) ==
    /\ t \notin DOMAIN entryHeight
    /\ entryHeight' = [u \in DOMAIN entryHeight \cup {t} |-> IF u = t THEN tipHeight ELSE entryHeight[u]]
    /\ IF t \notin DOMAIN mapMemPoolTxs /\ InSync(tipHeight) /\ valid
         THEN LET b == BucketOf(FeeRate[t])
              IN  /\ mapMemPoolTxs' = [u \in DOMAIN mapMemPoolTxs \cup {t} |->
                         IF u = t THEN [height |-> tipHeight, bucket |-> b] ELSE mapMemPoolTxs[u]]
                  /\ feeStats' = [feeStats EXCEPT !.unconfTxs[tipHeight % MaxConfirms][b] = @ + 1]
         ELSE UNCHANGED <<mapMemPoolTxs, feeStats>>
    /\ UNCHANGED <<tipHeight, nBestSeenHeight, feeFile, restarts>>

\* removeForBlock for the block at the next height with the pool's transactions S:
\* processBlock, then the removal of S, which no longer finds them tracked.
ProcessBlock(S) ==
    LET height == tipHeight + 1
        tracked == S \cap DOMAIN mapMemPoolTxs
        cleared == ClearCurrent(feeStats, height)
        removed == FoldSet(LAMBDA t, stats : RemoveFromStats(stats, mapMemPoolTxs[t], height),
                           cleared, tracked)
        counted == {t \in tracked : Waited(t, height) > 0}
    IN  /\ height <= MaxFeeBlocks
        /\ tipHeight' = height
        /\ entryHeight' = Restrict(entryHeight, DOMAIN entryHeight \ S)
        /\ \/ /\ height > nBestSeenHeight
              /\ nBestSeenHeight' = height
              /\ feeStats' = UpdateMovingAverages(removed, counted, height)
           \/ /\ height <= nBestSeenHeight
              /\ feeStats' = FoldSet(
                     LAMBDA t, stats : RemoveFromStats(stats, mapMemPoolTxs[t], nBestSeenHeight),
                     feeStats, tracked)
              /\ UNCHANGED nBestSeenHeight
        /\ mapMemPoolTxs' = Restrict(mapMemPoolTxs, DOMAIN mapMemPoolTxs \ S)
        /\ UNCHANGED <<feeFile, restarts>>

\* A reorganisation takes the tip away; the estimator is not told.
FeeDisconnectBlock ==
    /\ tipHeight > 0
    /\ tipHeight' = tipHeight - 1
    /\ UNCHANGED <<entryHeight, nBestSeenHeight, mapMemPoolTxs, feeStats, feeFile, restarts>>

\* What Write puts in the file of the statistics, and Read finds there.
Saved == [NoStats EXCEPT !.confAvg = feeStats.confAvg, !.avg = feeStats.avg,
                         !.txCtAvg = feeStats.txCtAvg]

\* The node stops and starts: Write in Shutdown and Read in AppInitMain, or a crash,
\* after which the file of an earlier shutdown is read.  The height and the averages
\* are in the file, what is tracked is not.
RestartEstimator ==
    /\ restarts < MaxRestarts
    /\ restarts' = restarts + 1
    /\ \/ feeFile' = [height |-> nBestSeenHeight, stats |-> Saved]
       \/ UNCHANGED feeFile
    /\ nBestSeenHeight' = feeFile'.height
    /\ feeStats' = feeFile'.stats
    /\ mapMemPoolTxs' = <<>>
    /\ entryHeight' = <<>>
    /\ UNCHANGED tipHeight

FeeNext ==
    \/ \E t \in FeeTxs : RemoveUnchecked(t) \/ \E valid \in BOOLEAN : ProcessTransaction(t, valid)
    \/ \E S \in SUBSET (DOMAIN entryHeight) : ProcessBlock(S)
    \/ FeeDisconnectBlock \/ RestartEstimator

FeeSpec == FeeInit /\ [][FeeNext]_feeVars

-----------------------------------------------------------------------------
(* EstimateMedianVal, from the highest bucket down (requireGreater).        *)

Below(b) == LET lower == {c \in FeeBuckets : c < b} IN IF lower = {} THEN 0 ELSE Max(lower)

SumCounts(f, S) == MapThenSumSet(LAMBDA b : f[b], S)

\* The transactions of a range of buckets that wait for target blocks or longer.
Extra(S, target) ==
    SumCounts(feeStats.oldUnconfTxs, S) +
    MapThenSumSet(LAMBDA c : SumCounts(feeStats.unconfTxs[(nBestSeenHeight - c) % MaxConfirms], S),
                  target..(MaxConfirms - 1))

\* The loop over the buckets: near is where the current range begins, b its other end,
\* best the last range with 95% of its transactions confirmed within the target.
BestRange(target) ==
    LET Turn[b \in FeeBuckets \cup {0}] ==
          [near \in FeeBuckets \cup {0} |-> [best \in SUBSET FeeBuckets |->
            IF b = 0 THEN best
            ELSE LET S == {c \in FeeBuckets : b <= c /\ c <= near}
                     nConf == SumCounts(feeStats.confAvg[target], S)
                     totalNum == SumCounts(feeStats.txCtAvg, S)
                 IN  IF totalNum < Enough * Unit THEN Turn[Below(b)][near][best]
                     ELSE IF 100 * nConf < 95 * (totalNum + Unit * Extra(S, target)) THEN best
                     ELSE Turn[Below(b)][Below(b)][S]]]
    IN  Turn[Max(FeeBuckets)][Max(FeeBuckets)][{}]

\* The bucket of the median transaction of the range; none is -1.
MedianBucket(S) ==
    LET half == SumCounts(feeStats.txCtAvg, S)    \* twice txSum / 2
        Before(b) == {c \in S : c < b}
        fits == {b \in S : 2 * feeStats.txCtAvg[b] >= half - 2 * SumCounts(feeStats.txCtAvg, Before(b))}
    IN  IF S = {} \/ half = 0 THEN -1 ELSE Min(fits)

\* The number of transactions of the pool that are tracked with height h in bucket b.
TrackedAt(h, b) ==
    Cardinality({t \in DOMAIN mapMemPoolTxs : mapMemPoolTxs[t] = [height |-> h, bucket |-> b]})

\* The counts in the circular buffer are those of the transactions that wait: each is
\* in the bin of its height while that is one of the last MaxConfirms, and among the
\* old ones from then on, whatever order blocks, reorganisations, removals and restarts
\* come in.  So no count is ever taken below zero ("Blockpolicy error").
UnconfirmedExact ==
    \A b \in FeeBuckets :
        /\ \A h \in 0..nBestSeenHeight :
              h > nBestSeenHeight - MaxConfirms =>
                  feeStats.unconfTxs[h % MaxConfirms][b] = TrackedAt(h, b)
        /\ feeStats.oldUnconfTxs[b] =
              MapThenSumSet(LAMBDA h : TrackedAt(h, b), 0..(nBestSeenHeight - MaxConfirms))

\* An estimate is made of data: the bucket that the median falls into has a positive
\* count, which is divided by, and the average that is reported lies in that bucket;
\* what is confirmed within a target is confirmed within a longer one, and never more
\* than was counted at all, so that a rate of success is at most one.
EstimateIsOfItsBucket ==
    \A target \in 1..MaxConfirms :
        /\ \A b \in FeeBuckets :
              /\ feeStats.confAvg[target][b] <= feeStats.txCtAvg[b]
              /\ target > 1 => feeStats.confAvg[target - 1][b] <= feeStats.confAvg[target][b]
        /\ \E b \in {MedianBucket(BestRange(target))} :
              b # -1 => /\ feeStats.txCtAvg[b] > 0
                        /\ feeStats.avg[b] <= b * feeStats.txCtAvg[b]
                        /\ feeStats.avg[b] > Below(b) * feeStats.txCtAvg[b]

\* What the estimator counts is what happened, and what it answers is what it counted.
EstimatorExact == UnconfirmedExact /\ EstimateIsOfItsBucket
=============================================================================
