--------------------------- MODULE InterestProofs ---------------------------
(***************************************************************************)
(* Proofs about the interest schedule for every total, every amount left   *)
(* and every lock time: model checking tries totals up to a hundred and    *)
(* thirty-one units, the chain's own is 2.4 * 10^17.                       *)
(*                                                                         *)
(* PeriodHoldsLeft speaks of the loop's end only.  What makes it inductive *)
(* is what the loop keeps at every turn: left is positive and not above    *)
(* pre, and target is the decayed pre.                                     *)
(***************************************************************************)
EXTENDS Interest, TLAPS

\* What the loop maintains: the period under consideration reaches up to pre,
\* the next one up to target.
LoopInvariant ==
    /\ total \in Nat
    /\ left \in Int
    /\ pre \in Nat
    /\ target \in Nat
    /\ ratePc \in {"start", "loop", "done", "none"}
    /\ left <= pre
    /\ ratePc = "start" => target = pre
    /\ ratePc \in {"loop", "done"} => left > 0 /\ target = DecayByOneTenth(pre)
    /\ ratePc = "done" => target < left

\* decayByOneTenth (amount.h) keeps an amount a natural number, never makes it
\* larger, and removes a tenth, rounded down.
LEMMA DecayFacts ==
    ASSUME NEW x \in Nat
    PROVE  /\ DecayByOneTenth(x) \in Nat
           /\ DecayByOneTenth(x) <= x
           /\ x - DecayByOneTenth(x) = x \div 10
           /\ x > 0 => DecayByOneTenth(x) > 0
BY DEF DecayByOneTenth

\* The loop of GetInterestRate and GetCurrentInterestInfo maintains its
\* invariant from the call to the break.
LEMMA LoopInvariantHolds == RateSpec => []LoopInvariant
<1>1. RateInit => LoopInvariant
  BY ScheduleAssumption DEF RateInit, LoopInvariant
<1>2. LoopInvariant /\ [RateNext]_rateVars => LoopInvariant'
  <2> SUFFICES ASSUME LoopInvariant, [RateNext]_rateVars
               PROVE  LoopInvariant'
    OBVIOUS
  <2>1. CASE Start
    <3>1. CASE left <= 0
      BY <2>1, <3>1 DEF Start, LoopInvariant
    <3>2. CASE ~ (left <= 0)
      <4>1. target = pre /\ pre \in Nat
        BY <2>1 DEF Start, LoopInvariant
      <4>2. DecayByOneTenth(pre) \in Nat
        BY <4>1, DecayFacts
      <4>3. target' = DecayByOneTenth(pre) /\ pre' = pre /\ ratePc' = "loop"
        BY <2>1, <3>2, <4>1 DEF Start
      <4> QED
        BY <2>1, <3>2, <4>2, <4>3 DEF Start, LoopInvariant, DecayByOneTenth
    <3> QED
      BY <3>1, <3>2
  <2>2. CASE Iterate
    <3>1. DecayByOneTenth(target) \in Nat
      BY DecayFacts DEF LoopInvariant
    <3>2. pre' = target /\ target' = DecayByOneTenth(target) /\ left <= target
      BY <2>2 DEF Iterate, LoopContinues
    <3> QED
      BY <2>2, <3>1, <3>2 DEF Iterate, LoopInvariant, DecayByOneTenth
  <2>3. CASE Finish
    <3>1. target # 0
      <4>1. pre \in Nat /\ pre > 0 /\ target = DecayByOneTenth(pre)
        BY <2>3 DEF Finish, LoopInvariant
      <4> QED
        BY <4>1, DecayFacts
    <3>2. target < left
      BY <2>3, <3>1 DEF Finish, LoopContinues, LoopInvariant
    <3> QED
      BY <2>3, <3>2 DEF Finish, LoopInvariant, DecayByOneTenth
  <2>4. CASE UNCHANGED rateVars
    BY <2>4 DEF rateVars, LoopInvariant, DecayByOneTenth
  <2> QED
    BY <2>1, <2>2, <2>3, <2>4 DEF RateNext
<1> QED
  BY <1>1, <1>2, PTL DEF RateSpec

\* For every total the loop stops in the period that holds what is left, so
\* the rate GetInterestRate returns is decayed exactly once for every period
\* that is used up.
THEOREM PeriodCorrect == RateSpec => []PeriodHoldsLeft
<1>1. LoopInvariant => PeriodHoldsLeft
  BY DEF LoopInvariant, PeriodHoldsLeft
<1> QED
  BY <1>1, LoopInvariantHolds, PTL

\* For every total, what getinterestinfo reports as taken lies between zero
\* and the total it reports for the period.
THEOREM TakenCorrect == RateSpec => []TakenWithinPeriod
<1>1. LoopInvariant => TakenWithinPeriod
  <2> SUFFICES ASSUME LoopInvariant, ratePc = "done"
               PROVE  PeriodTaken \in 0..PeriodTotal
    BY DEF TakenWithinPeriod
  <2>1. /\ pre \in Nat /\ left \in Int /\ left <= pre
        /\ target = DecayByOneTenth(pre) /\ target < left
    BY DEF LoopInvariant
  <2>2. pre - target = pre \div 10 /\ target \in Nat
    BY <2>1, DecayFacts
  <2> QED
    BY <2>1, <2>2 DEF PeriodTaken, PeriodTotal
<1> QED
  BY <1>1, LoopInvariantHolds, PTL

\* For every total, with ten units or more left every turn of the loop lowers
\* target: the loop of GetInterestRate cannot run for ever.
THEOREM LoopProgress == RateSpec => TurnsLowerTarget
<1>1. LoopInvariant /\ [RateNext]_rateVars
        => [ratePc = "loop" /\ ratePc' = "loop" /\ left >= 10 => target' < target]_rateVars
  <2> SUFFICES ASSUME LoopInvariant, RateNext,
                      ratePc = "loop", ratePc' = "loop", left >= 10
               PROVE  target' < target
    BY DEF rateVars
  <2>1. Iterate
    BY DEF RateNext, Start, Finish
  <2>2. target \in Nat /\ left \in Int /\ left <= target
    BY <2>1 DEF Iterate, LoopContinues, LoopInvariant
  <2>3. target' = target - target \div 10
    BY <2>1 DEF Iterate, DecayByOneTenth
  <2> QED
    BY <2>2, <2>3
<1> QED
  BY <1>1, LoopInvariantHolds, PTL DEF RateSpec, TurnsLowerTarget
=============================================================================
