------------------------------ MODULE Interest ------------------------------
(***************************************************************************)
(* The interest schedule of locked deposits (validation.cpp, amount.h and  *)
(* chainparams.h).  The total interest the chain may ever pay is split     *)
(* into periods, each a tenth of what the previous one left; every period  *)
(* that has been used up multiplies the rates by DecayRatio.  Two callers  *)
(* run the same integer loop: GetInterestRate, for consensus, and          *)
(* GetCurrentInterestInfo, for the getinterestinfo RPC.  One behaviour of  *)
(* this module is one call; one Iterate step is one turn of the loop.      *)
(*                                                                         *)
(* Rates are doubles in the code; here a rate is the pair <<level, decays>>*)
(* that determines it: LockInterestRate(level) * DecayRatio^decays.        *)
(***************************************************************************)
EXTENDS Integers, Sequences

CONSTANTS
    Totals,      \* the values of TotalInterest tried, in the smallest unit
    LockTimes,   \* the lock times tried
    Thresholds,  \* nLockInterestBlocksThreshould, a sequence of 8 lock times
    MaxDecays    \* bound: the count of decays saturates here (a double that
                 \* is multiplied by 0.9 that often is no longer useful)

ASSUME ScheduleAssumption ==
    /\ Totals \subseteq Nat
    /\ LockTimes \subseteq Nat
    /\ Thresholds \in Seq(Nat)
    /\ Len(Thresholds) = 8
    /\ \A i, j \in 1..8 : i <= j => Thresholds[i] <= Thresholds[j]
    /\ MaxDecays \in Nat

VARIABLES
    total,    \* Params().TotalInterest()
    left,     \* total minus the nChainInterest of the previous block
    lock,     \* nLockBlocks
    target,   \* nInterestTarget, the upper end of the next period
    pre,      \* preTotalInterest, the upper end of the current period
    decays,   \* how often the rate has been multiplied by DecayRatio
    ratePc        \* "start", "loop", "done", or "none": no interest is left

rateVars == <<total, left, lock, target, pre, decays, ratePc>>

-----------------------------------------------------------------------------
Smaller(x, y) == IF x < y THEN x ELSE y

\* A decay that removes one unit in twenty: the loop can no longer reach the
\* last few units of the total.
DecayByOneTwentieth(x) == x - x \div 20

\* decayByOneTenth on a CAmount: an integer division.
DecayByOneTenth(x) == x - x \div 10

\* CChainParams::LockInterestBlocksThreshould: 0 outside the table.
LockInterestBlocksThreshould(level) ==
    IF level \in 0..7 THEN Thresholds[level + 1] ELSE 0

\* CChainParams::AdjustToLockInterestThreshold: the highest threshold reached,
\* looked for from the top of the table.
AdjustToLockInterestThreshold(l) ==
    LET reached == {i \in 0..7 : l >= LockInterestBlocksThreshould(i)}
    IN  IF reached = {} THEN 0
        ELSE LockInterestBlocksThreshould(
                 CHOOSE i \in reached : \A j \in reached : j <= i)

\* The level loop of GetInterestRate, looking from the bottom of the table: it
\* stops at the first level whose successor is not reached, and at 6.
InterestLevel(l) ==
    CHOOSE level \in -1..6 :
        /\ level = 6 \/ l < LockInterestBlocksThreshould(level + 1)
        /\ \A k \in -1..(level - 1) : l >= LockInterestBlocksThreshould(k + 1)

-----------------------------------------------------------------------------
\* A call: the chain may already have paid more than the total, when its
\* headers say so, and then nothing is left.
RateInit ==
    /\ total \in Totals
    /\ left \in (0 - 1)..total
    /\ lock \in LockTimes
    /\ target = total
    /\ pre = total
    /\ decays = 0
    /\ ratePc = "start"

\* The checks before the loop, and the first decay.
Start ==
    /\ ratePc = "start"
    /\ IF left <= 0
         THEN ratePc' = "none" /\ UNCHANGED target
         ELSE ratePc' = "loop" /\ target' = DecayByOneTenth(target)
    /\ UNCHANGED <<total, left, lock, pre, decays>>

\* The loop's conditions: target is not zero, and no period holds what is left.
LoopContinues(t) == t # 0 /\ left <= t

Iterate ==
    /\ ratePc = "loop"
    /\ LoopContinues(target)
    /\ decays' = Smaller(decays + 1, MaxDecays)
    /\ pre' = target
    /\ target' = DecayByOneTenth(target)
    /\ UNCHANGED <<total, left, lock, ratePc>>

Finish ==
    /\ ratePc = "loop"
    /\ ~ LoopContinues(target)
    /\ ratePc' = "done"
    /\ UNCHANGED <<total, left, lock, target, pre, decays>>

RateNext == Start \/ Iterate \/ Finish

RateSpec == RateInit /\ [][RateNext]_rateVars

\* One thread runs the loop and nothing in it blocks.
FairRateSpec == RateSpec /\ WF_rateVars(RateNext)

-----------------------------------------------------------------------------
\* What GetCurrentInterestInfo reports of the current period: its total and
\* what has been taken.
PeriodTotal == pre \div 10
PeriodTaken == pre - left

-----------------------------------------------------------------------------
\* The types of the loop's variables (GetInterestRate, validation.cpp); the
\* upper end of a period never grows.
RateTypeOK ==
    /\ total \in Totals
    /\ left \in (0 - 1)..total
    /\ target \in 0..total
    /\ pre \in target..total
    /\ decays \in 0..MaxDecays
    /\ ratePc \in {"start", "loop", "done", "none"}

\* When the loop of GetInterestRate ends, the period it has found is the one
\* that holds what is left: left is above the upper end of the next period and
\* not above that of this one, so the rate is decayed once for every period
\* that is used up and never once more.  Off by one at the boundary of a
\* period, two nodes would disagree on the interest a block may claim.
PeriodHoldsLeft == ratePc = "done" => target < left /\ left <= pre

\* What GetCurrentInterestInfo reports as taken in the period is never
\* negative and never above the period's total.
TakenWithinPeriod == ratePc = "done" => PeriodTaken \in 0..PeriodTotal

\* GetInterest looks a lock time up twice: AdjustToLockInterestThreshold from
\* the top of the table gives the time that is paid for, then the level loop of
\* GetInterestRate from the bottom gives the rate for that time.  Both choose the
\* same row, and it is the row of the lock time itself.
LookupsAgree ==
    LET paid == AdjustToLockInterestThreshold(lock)
        level == InterestLevel(paid)
    IN  /\ paid = IF level < 0 THEN 0 ELSE LockInterestBlocksThreshould(level)
        /\ level = InterestLevel(lock)

\* The loop ends when at least ten of the smallest units are left.  Below ten
\* decayByOneTenth is the identity and target # 0 never ends the loop: with one
\* to nine units left, both callers spin.
RateLoopTerminates == left >= 10 ~> ratePc = "done"

\* The rate of a deposit is that of the period that its interest is paid from,
\* whatever has been taken, and both callers of the loop get it.
RateSound == []PeriodHoldsLeft /\ []LookupsAgree /\ RateLoopTerminates

\* The variant behind that: with at least ten units left, every turn of the
\* loop lowers target, which can therefore not stay above left for ever.
TurnsLowerTarget ==
    [][ratePc = "loop" /\ ratePc' = "loop" /\ left >= 10 => target' < target]_rateVars
=============================================================================
