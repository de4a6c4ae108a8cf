--------------------------- MODULE BestChainProofs ---------------------------
(***************************************************************************)
(* Proof that with one thread, which may invalidate or prefer blocks, the  *)
(* candidates are exact and the best chain is active (BlockChain,          *)
(* CandidatesExact and BestChainWhenIdle).                                 *)
(***************************************************************************)
EXTENDS BlockChainProofs

\* The blocks that could be the tip: no block of their chain is marked or fails.
SoundBlocks == {c \in Blocks : Chain[c] \cap (Failed \cup BadConnect) = {}}

\* b is in C or sorts below a block of C that is good.
Cover(C, good, b) == b \in C \/ \E c \in C \cap good : Worse(b, c)

\* No block with a clean chain sorts above the tip.
TipBest == \A b \in linked : Clean(b) => ~Worse(tip, b)

\* The candidates are no worse than the tip and make up for what is not among them:
\* a linked block with a clean chain is a candidate or sorts below one that will turn
\* out to be good.  It takes that much because a step of a reorganisation drops what
\* sorts below the block it has reached, and the blocks above that may yet fail.  The
\* target is the best candidate, and when the loop is left the tip is best.
BestInv ==
    /\ FlagInv
    /\ tip \in SoundBlocks
    /\ \A c \in candidates : ~Worse(c, tip)
    /\ \A b \in linked : Clean(b) => Cover(candidates, SoundBlocks, b)
    /\ \A t \in Threads :
        /\ phase[t] \in {"idle", "last"} => mostWork[t] = NoBlock /\ TipBest
        /\ mostWork[t] # NoBlock =>
              /\ mostWork[t] \in candidates /\ Clean(mostWork[t])
              /\ \A c \in candidates : ~Worse(mostWork[t], c)

\* What is left for the new tip n, a good block, makes up for as much, provided that no
\* block was dropped otherwise that is good.
LEMMA LeftCovers ==
    ASSUME seqId \in [Blocks -> Int], NEW C \in SUBSET Blocks, NEW D, NEW good,
           NEW n \in Blocks, NEW b \in Blocks, n \in good, D \cap good = {}, b \notin D,
           Cover(C, good, n), Cover(C, good, b),
           NEW R, R = C \ D \/ R = NotWorse(C \ D, seqId, n)
    PROVE  Cover(R, good, b)
<1>1. /\ ~Worse(n, n)
      /\ \A x, y \in Blocks : Worse(x, y) => ~Worse(y, x)
      /\ \A x, y, z \in Blocks : Worse(x, y) /\ Worse(y, z) => Worse(x, z)
  BY OrderFacts DEF Worse
<1>2. CASE R = C \ D
  BY <1>2 DEF Cover
<1>3. CASE R = NotWorse(C \ D, seqId, n)
  <2>1. \A c \in Blocks : c \in R <=> c \in C /\ c \notin D /\ ~Worse(c, n)
    BY <1>3 DEF NotWorse, Worse
  <2>2. ASSUME Worse(b, n) PROVE Cover(R, good, b)
    <3>1. CASE n \in C
      BY <1>1, <2>1, <2>2, <3>1 DEF Cover
    <3>2. ASSUME NEW c \in C \cap good, Worse(n, c) PROVE Cover(R, good, b)
      <4>1. c \in R
        BY <1>1, <2>1, <3>2
      <4>2. Worse(b, c)
        BY <1>1, <2>2, <3>2
      <4> QED  BY <4>1, <4>2 DEF Cover
    <3> QED  BY <3>1, <3>2 DEF Cover
  <2>3. CASE b \in C
    BY <2>1, <2>2, <2>3 DEF Cover
  <2>4. ASSUME NEW c \in C \cap good, Worse(b, c) PROVE Cover(R, good, b)
    <3>1. CASE Worse(c, n)
      BY <1>1, <2>2, <2>4, <3>1
    <3>2. CASE ~Worse(c, n)
      BY <2>1, <2>4, <3>2 DEF Cover
    <3> QED  BY <3>1, <3>2
  <2> QED  BY <2>3, <2>4 DEF Cover
<1> QED  BY <1>2, <1>3

\* FindMostWorkChain neither marks a block of a clean chain nor drops a candidate that
\* has one; what it marks can be told from the flags that were there.
LEMMA FindKeepsClean ==
    ASSUME BaseInv, NEW f \in FindGood
    PROVE  /\ \A b \in Blocks : Clean(b) <=> Chain[b] \cap (failedValid \cup f.failed) = {}
           /\ \A b \in candidates : Clean(b) => b \in f.cands
<1>1. /\ failedChild \subseteq f.failed
      /\ \A b \in f.failed \ failedChild : Chain[b] \cap Failed # {}
      /\ \A c \in candidates \ f.cands : Chain[c] \cap Failed # {}
  BY DEF FindGood
<1>2. ASSUME NEW b \in Blocks, Clean(b) PROVE Chain[b] \cap (failedValid \cup f.failed) = {}
  <2> SUFFICES ASSUME NEW c \in Chain[b], c \in failedValid \cup f.failed PROVE FALSE
    OBVIOUS
  <2>1. c \notin Failed
    BY <1>2 DEF Clean
  <2>2. Chain[c] \cap Failed # {}
    BY <1>1, <2>1 DEF Failed
  <2>3. Chain[c] \subseteq Chain[b]
    BY ChainFacts
  <2> QED  BY <1>2, <2>2, <2>3 DEF Clean
<1>3. ASSUME NEW b \in Blocks, Chain[b] \cap (failedValid \cup f.failed) = {} PROVE Clean(b)
  BY <1>1, <1>3 DEF Clean, Failed
<1>4. \A b \in candidates : Clean(b) => b \in f.cands
  BY <1>1 DEF Clean
<1> QED  BY <1>2, <1>3, <1>4

\* The target is the best of the candidates that are left, its chain is clean, and no
\* block with a clean chain sorts above it.
LEMMA PickedBest ==
    ASSUME BaseInv, BestInv, NEW t \in Threads, NEW f \in FindGood, NEW target \in linked,
           Picked(t, f, target)
    PROVE  /\ target \in f.cands /\ \A c \in f.cands : ~Worse(target, c)
           /\ Clean(target)
           /\ \A b \in linked : Clean(b) => Cover(f.cands, SoundBlocks, b) /\ ~Worse(target, b)
<1>1. /\ f.cands \subseteq candidates /\ candidates \subseteq linked /\ linked \subseteq Blocks
      /\ seqId \in [Blocks -> Int]
  BY DEF FindGood, BaseInv
<1>2. /\ \A b \in Blocks : Clean(b) <=> Chain[b] \cap (failedValid \cup f.failed) = {}
      /\ \A b \in candidates : Clean(b) => b \in f.cands
  BY FindKeepsClean
<1>3. target \in f.cands /\ \A c \in f.cands : ~Worse(target, c)
  <2>1. CASE mostWork[t] = NoBlock
    <3>1. f.cands # {} /\ target = Best(f.cands)
      BY <2>1 DEF Picked
    <3> QED  BY <1>1, <3>1, BestFacts
  <2>2. CASE mostWork[t] # NoBlock
    <3>1. target = mostWork[t] /\ f.cands = candidates
      BY <2>2 DEF Picked
    <3> QED  BY <2>2, <3>1 DEF BestInv
  <2> QED  BY <2>1, <2>2
<1>4. Clean(target)
  <2>1. Clean(tip) /\ (mostWork[t] # NoBlock => Clean(mostWork[t]))
    BY DEF BestInv, SoundBlocks, Clean
  <2>2. Chain[target] \cap (failedValid \cup f.failed) = {}
    BY <1>1, <2>1, PickedClean
  <2> QED  BY <1>1, <1>2, <2>2
<1>5. ASSUME NEW b \in linked, Clean(b) PROVE Cover(f.cands, SoundBlocks, b)
  <2>1. Cover(candidates, SoundBlocks, b)
    BY <1>5 DEF BestInv
  <2>2. \A c \in candidates \cap SoundBlocks : c \in f.cands
    BY <1>2 DEF SoundBlocks, Clean
  <2> QED  BY <1>2, <1>5, <2>1, <2>2 DEF Cover
<1>6. ASSUME NEW b \in linked, Clean(b) PROVE ~Worse(target, b)
  <2>1. Cover(f.cands, SoundBlocks, b)
    BY <1>5, <1>6
  <2>2. \A c \in f.cands : Worse(target, b) /\ Worse(b, c) => Worse(target, c)
    BY <1>1, <1>6, OrderFacts DEF Worse
  <2> QED  BY <1>3, <2>1, <2>2 DEF Cover
<1> QED  BY <1>3, <1>4, <1>5, <1>6

\* A round of the loop of ActivateBestChain keeps BestInv.
LEMMA BestActivate ==
    ASSUME BaseInv, BestInv, \A s, t \in Threads : s = t, NEW t \in Threads, Activate(t)
    PROVE  BestInv'
<1>1. PICK f \in FindGood :
         /\ UNCHANGED <<processed, linked, unlinked, seqId>>
         /\ failedChild' = f.failed
         /\ \/ Ends(t, f)
            \/ \E target \in linked, damaged \in SUBSET Damaged :
                  /\ Picked(t, f, target) /\ target # tip
                  /\ ActivateBestChainStep(t, target, f, damaged)
  BY ActivateFacts
<1>2. /\ linked \subseteq Blocks /\ candidates \subseteq linked /\ tip \in linked
      /\ \A b \in linked : Chain[b] \subseteq linked
      /\ seqId \in [Blocks -> Int]
      /\ mostWork \in [Threads -> linked \cup {NoBlock}]
      /\ phase \in [Threads -> {"idle", "loop", "notify", "last"}]
  BY DEF BaseInv
<1>3. f.failed \in SUBSET linked /\ failedChild \subseteq f.failed /\ f.cands \subseteq candidates
  BY DEF FindGood
<1>4. \A b \in Blocks : Clean(b) <=> Chain[b] \cap (failedValid \cup f.failed) = {}
  BY FindKeepsClean
<1>5. \A b \in failedValid \cup f.failed : Chain[b] \cap failedValid # {}
  BY FindHasCause DEF BestInv, FlagInv
<1>6. \A a, b \in Blocks : Worse(a, b)' <=> Worse(a, b)
  BY <1>1 DEF Worse, WorseWith
<1>7. ASSUME NEW D \in SUBSET BadConnect, D \subseteq Blocks, failedValid' = failedValid \cup D
      PROVE  /\ FlagInv' /\ SoundBlocks' = SoundBlocks
             /\ \A b \in Blocks : Clean(b)' <=> Clean(b) /\ Chain[b] \cap D = {}
  <2>1. Failed' = failedValid \cup D \cup f.failed /\ Failed \subseteq Failed'
    BY <1>1, <1>3, <1>7 DEF Failed
  <2>2. \A b \in Blocks : Clean(b)' <=> Clean(b) /\ Chain[b] \cap D = {}
    BY <1>4, <2>1 DEF Clean
  <2>3. SoundBlocks' = SoundBlocks
    <3>1. \A b \in Blocks : b \in SoundBlocks' <=> Clean(b)' /\ Chain[b] \cap BadConnect = {}
      BY DEF SoundBlocks, Clean
    <3>2. \A b \in Blocks : b \in SoundBlocks <=> Clean(b) /\ Chain[b] \cap BadConnect = {}
      BY DEF SoundBlocks, Clean
    <3>3. SoundBlocks \subseteq Blocks /\ SoundBlocks' \subseteq Blocks
      BY DEF SoundBlocks
    <3> QED  BY <2>2, <3>1, <3>2, <3>3
  <2>4. FailureHasCause'
    <3> SUFFICES ASSUME NEW b \in Failed' PROVE Chain[b] \cap failedValid' # {}
      BY DEF FailureHasCause, Invalid
    <3>1. CASE b \in D
      <4>1. b \in Chain[b]
        BY <1>7, <3>1, ChainFacts
      <4> QED  BY <1>7, <3>1, <4>1
    <3>2. CASE b \notin D
      BY <1>5, <1>7, <2>1, <3>2
    <3> QED  BY <3>1, <3>2
  <2>5. FlagInv'
    BY <1>1, <2>1, <2>4 DEF FlagInv, BestInv
  <2> QED  BY <2>2, <2>3, <2>5
<1>8. CASE Ends(t, f)
  <2>1. /\ candidates' = f.cands /\ tip' = tip /\ failedValid' = failedValid
        /\ phase' = [phase EXCEPT ![t] = "idle"] /\ mostWork' = [mostWork EXCEPT ![t] = NoBlock]
        /\ (mostWork[t] = NoBlock /\ f.cands = {}) \/ Picked(t, f, tip)
    BY <1>8 DEF Ends
  <2>2. Picked(t, f, tip)
    <3>1. tip \in candidates \/ \E c \in candidates : c \in SoundBlocks
      BY <1>2 DEF BestInv, Cover, SoundBlocks, Clean
    <3>2. \A c \in candidates \cap SoundBlocks : c \in f.cands
      BY <1>2, FindKeepsClean DEF SoundBlocks, Clean
    <3>3. f.cands # {}
      BY <3>1, <3>2 DEF BestInv
    <3> QED  BY <2>1, <3>3
  <2>3. /\ \A b \in linked : Clean(b) => Cover(f.cands, SoundBlocks, b) /\ ~Worse(tip, b)
    BY <1>2, <2>2, PickedBest
  <2>4. /\ FlagInv' /\ SoundBlocks' = SoundBlocks
        /\ \A b \in Blocks : Clean(b)' <=> Clean(b)
    <3> DEFINE D == {}
    <3>1. /\ failedValid' = failedValid \cup D /\ D \in SUBSET BadConnect /\ D \subseteq Blocks
          /\ \A b \in Blocks : Chain[b] \cap D = {}
      BY <2>1
    <3> HIDE DEF D
    <3> QED  BY <1>7, <3>1
  <2>5. \A c \in candidates' : ~Worse(c, tip)'
    BY <1>2, <1>3, <1>6, <2>1 DEF BestInv
  <2>6. \A b \in linked' : Clean(b)' => Cover(candidates, SoundBlocks, b)'
    <3> SUFFICES ASSUME NEW b \in linked, Clean(b) PROVE Cover(candidates, SoundBlocks, b)'
      BY <1>1, <1>2, <2>4
    <3>1. Cover(f.cands, SoundBlocks, b)
      BY <2>3
    <3> QED  BY <1>1, <1>2, <1>3, <1>6, <2>1, <2>4, <3>1 DEF Cover
  <2>7. TipBest'
    BY <1>1, <1>2, <1>6, <2>1, <2>3, <2>4 DEF TipBest
  <2>8. \A s \in Threads : mostWork'[s] = NoBlock
    BY <1>2, <2>1
  <2> QED  BY <2>1, <2>4, <2>5, <2>6, <2>7, <2>8 DEF BestInv
<1>9. ASSUME NEW target \in linked, NEW damaged \in SUBSET Damaged,
              Picked(t, f, target), target # tip, ActivateBestChainStep(t, target, f, damaged)
       PROVE  BestInv'
  <2>1. /\ tip' \in Chain[target] /\ tip' \in linked
        /\ (Chain[tip'] \ Chain[tip]) \cap BadConnect = {}
        /\ StepFails(t, target, f) \/ StepMoves(t, target, f)
    BY <1>9, StepFacts
  <2>2. /\ target \in f.cands /\ \A c \in f.cands : ~Worse(target, c)
        /\ Clean(target)
        /\ \A b \in linked : Clean(b) => Cover(f.cands, SoundBlocks, b) /\ ~Worse(target, b)
    BY <1>9, PickedBest
  <2>3. /\ target \in Blocks /\ tip' \in Blocks /\ Chain[tip'] \subseteq Chain[target]
    BY <1>2, <2>1, ChainFacts
  <2>4. tip' \in SoundBlocks /\ Clean(tip')
    <3>1. Chain[tip] \cap BadConnect = {}
      BY DEF BestInv, SoundBlocks
    <3> QED  BY <2>1, <2>2, <2>3, <3>1 DEF SoundBlocks, Clean
  <2>5. ASSUME NEW D \in SUBSET BadConnect, D \subseteq Blocks, Left(f.cands \ D),
               failedValid' = failedValid \cup D
        PROVE  /\ FlagInv' /\ tip' \in SoundBlocks' /\ candidates' \subseteq f.cands
               /\ \A c \in candidates' : ~Worse(c, tip)'
               /\ \A b \in linked' : Clean(b)' => Cover(candidates, SoundBlocks, b)'
    <3>1. /\ FlagInv' /\ SoundBlocks' = SoundBlocks
          /\ \A b \in Blocks : Clean(b)' <=> Clean(b) /\ Chain[b] \cap D = {}
      BY <1>7, <2>5
    <3>2. candidates' \subseteq f.cands
      BY <2>5 DEF Left, NotWorse
    <3>3. \A c \in candidates' : ~Worse(c, tip')
      <4>1. CASE candidates' = NotWorse(f.cands \ D, seqId, tip')
        BY <4>1 DEF NotWorse, Worse
      <4>2. CASE tip' \in Chain[tip]
        <5>1. tip' = tip \/ Worse(tip', tip)
          BY <1>2, <4>2, OrderFacts DEF Worse
        <5>2. \A c \in candidates' : c \in Blocks /\ ~Worse(c, tip)
          BY <1>2, <1>3, <3>2 DEF BestInv
        <5>3. \A c \in Blocks : Worse(c, tip') /\ Worse(tip', tip) => Worse(c, tip)
          BY <1>2, <2>3, OrderFacts DEF Worse
        <5> QED  BY <5>1, <5>2, <5>3
      <4> QED  BY <2>5, <4>1, <4>2 DEF Left
    <3>4. \A c \in candidates' : ~Worse(c, tip)'
      BY <1>1, <3>3 DEF Worse, WorseWith
    <3>5. ASSUME NEW b \in linked, Clean(b)' PROVE Cover(candidates, SoundBlocks, b)'
      <4> DEFINE C == f.cands
                 R == candidates'
                 n == tip'
                 good == SoundBlocks
      <4>1. /\ b \in Blocks /\ Clean(b) /\ Chain[b] \cap D = {} /\ b \notin D
        <5>1. b \in Blocks /\ b \in Chain[b]
          BY <1>2, ChainFacts
        <5> QED  BY <3>1, <3>5, <5>1
      <4>2. Cover(C, good, b) /\ Cover(C, good, n)
        BY <2>1, <2>2, <2>4, <4>1
      <4>3. R = C \ D \/ R = NotWorse(C \ D, seqId, n)
        BY <2>5 DEF Left
      <4>4. D \cap good = {}
        BY <2>5, ChainFacts DEF SoundBlocks
      <4>5. C \in SUBSET Blocks /\ n \in Blocks /\ n \in good
        BY <1>2, <1>3, <2>3, <2>4
      <4>6. R \subseteq Blocks
        BY <1>2, <1>3, <3>2
      <4> HIDE DEF C, R, n, good
      <4>7. Cover(R, good, b)
        BY <1>2, <4>1, <4>2, <4>3, <4>4, <4>5, LeftCovers
      <4>8. R = candidates' /\ good = SoundBlocks'
        BY <3>1 DEF R, good
      <4> QED  BY <1>6, <4>1, <4>6, <4>7, <4>8 DEF Cover
    <3> QED  BY <1>1, <2>4, <3>1, <3>2, <3>4, <3>5
  <2>6. CASE StepFails(t, target, f)
    <3>1. PICK x \in Chain[target] \ Chain[tip], D \in SUBSET BadConnect :
             /\ D \subseteq {x} /\ failedValid' = failedValid \cup D /\ Left(f.cands \ D)
             /\ phase' = [phase EXCEPT ![t] = "notify"]
             /\ mostWork' = [mostWork EXCEPT ![t] = NoBlock]
      BY <2>6 DEF StepFails
    <3>2. D \subseteq Blocks
      BY <2>3, <3>1, ChainFacts
    <3>3. /\ FlagInv' /\ tip' \in SoundBlocks'
          /\ \A c \in candidates' : ~Worse(c, tip)'
          /\ \A b \in linked' : Clean(b)' => Cover(candidates, SoundBlocks, b)'
      BY <2>5, <3>1, <3>2
    <3>4. \A s \in Threads : phase'[s] = "notify" /\ mostWork'[s] = NoBlock
      BY <1>2, <3>1
    <3> QED  BY <3>3, <3>4 DEF BestInv
  <2>7. CASE StepMoves(t, target, f)
    <3> DEFINE D == {}
    <3>1. /\ failedValid' = failedValid \cup D /\ D \in SUBSET BadConnect /\ D \subseteq Blocks
          /\ \A b \in Blocks : Chain[b] \cap D = {}
          /\ Left(f.cands \ D)
      <4>1. f.cands \ D = f.cands
        OBVIOUS
      <4> QED  BY <2>7, <4>1 DEF StepMoves
    <3> HIDE DEF D
    <3>2. /\ FlagInv' /\ tip' \in SoundBlocks' /\ candidates' \subseteq f.cands
          /\ \A c \in candidates' : ~Worse(c, tip)'
          /\ \A b \in linked' : Clean(b)' => Cover(candidates, SoundBlocks, b)'
      BY <2>5, <3>1
    <3>3. \A b \in Blocks : Clean(b)' <=> Clean(b)
      BY <1>7, <3>1
    <3>4. CASE tip' = target
      <4>1. /\ phase' = [phase EXCEPT ![t] = "last"] /\ mostWork' = [mostWork EXCEPT ![t] = NoBlock]
        BY <2>7, <3>4 DEF StepMoves
      <4>2. \A s \in Threads : mostWork'[s] = NoBlock
        BY <1>2, <4>1
      <4>3. TipBest'
        <5> SUFFICES ASSUME NEW b \in linked, Clean(b) PROVE ~Worse(tip, b)'
          BY <1>1, <1>2, <3>3 DEF TipBest
        <5>1. ~Worse(tip', b)
          BY <2>2, <3>4
        <5> QED  BY <1>1, <5>1 DEF Worse, WorseWith
      <4> QED  BY <3>2, <4>2, <4>3 DEF BestInv
    <3>5. CASE tip' # target
      <4>1. /\ phase' = [phase EXCEPT ![t] = "notify"] /\ mostWork' = [mostWork EXCEPT ![t] = target]
        BY <2>7, <3>5 DEF StepMoves
      <4>2. \A s \in Threads : phase'[s] = "notify" /\ mostWork'[s] = target
        BY <1>2, <4>1
      <4>3. target \in candidates'
        <5>1. ~Worse(target, tip')
          BY <1>2, <2>1, <2>3, <3>5, OrderFacts DEF Worse
        <5>2. \/ candidates' = NotWorse(f.cands, seqId, tip') \/ candidates' = f.cands
          BY <2>7 DEF StepMoves, Left
        <5> QED  BY <2>2, <5>1, <5>2 DEF NotWorse, Worse
      <4>4. \A c \in candidates' : ~Worse(target, c)'
        BY <1>2, <1>3, <1>6, <2>2, <2>3, <3>2
      <4>5. Clean(target)'
        BY <2>2, <2>3, <3>3
      <4>6. \A s \in Threads : /\ mostWork'[s] \in candidates' /\ Clean(mostWork[s])'
                               /\ \A c \in candidates' : ~Worse(mostWork[s], c)'
        BY <4>2, <4>3, <4>4, <4>5 DEF Clean, Worse
      <4> QED  BY <3>2, <4>2, <4>6 DEF BestInv
    <3> QED  BY <3>4, <3>5
  <2> QED  BY <2>1, <2>6, <2>7
<1> QED  BY <1>1, <1>8, <1>9

\* When the loop has been left, the tip is a candidate.
LEMMA TipCandidate ==
    ASSUME BaseInv, BestInv, TipBest
    PROVE  tip \in candidates
<1>1. tip \in linked /\ Clean(tip) /\ tip \in Blocks
  BY DEF BaseInv, BestInv, SoundBlocks, Clean
<1>2. \A c \in candidates \cap SoundBlocks : ~Worse(tip, c)
  BY DEF TipBest, BaseInv, SoundBlocks, Clean
<1> QED  BY <1>1, <1>2 DEF BestInv, Cover

\* Storing a block keeps BestInv: what is linked by it is a candidate, or sorts below
\* the tip, which is one.
LEMMA BestStore ==
    ASSUME BaseInv, BestInv, TipBest, NEW b \in Blocks \ processed, StoreBlock(b),
           UNCHANGED <<failedValid, failedChild, tip>>
    PROVE  /\ FlagInv' /\ tip' \in SoundBlocks'
           /\ \A c \in candidates' : ~Worse(c, tip)'
           /\ \A c \in linked' : Clean(c)' => Cover(candidates, SoundBlocks, c)'
<1>1. /\ processed' = processed \cup {b} /\ linked \subseteq linked' /\ linked' \subseteq processed'
      /\ seqId' \in [Blocks -> Int]
      /\ \A c \in linked : seqId'[c] = seqId[c]
      /\ \A c \in candidates' \ candidates : ChainWork[tip] < ChainWork[c]
      /\ candidates \subseteq candidates'
      /\ candidates' \subseteq candidates \cup (linked' \ linked)
      /\ \A c \in linked' \ linked : c \in candidates' \/ WorseWith(seqId', c, tip)
      /\ \A c \in Blocks : WaitsIn(unlinked, c) => c \in linked' \/ WaitsIn(unlinked', c)
      /\ \/ b \in linked' \/ WaitsIn(unlinked', b)
         \/ linked' = linked /\ Parent[b] \in Failed \ linked
  BY StoreFacts
<1>2. /\ tip \in linked /\ candidates \subseteq linked /\ linked \subseteq Blocks
      /\ processed \subseteq Blocks
  BY DEF BaseInv
<1>3. /\ Failed' = Failed /\ SoundBlocks' = SoundBlocks /\ (FailureHasCause => FailureHasCause')
      /\ \A c : Clean(c)' <=> Clean(c)
  BY DEF Failed, SoundBlocks, Clean, FailureHasCause, Invalid
<1>4. \A x, y \in linked : Worse(x, y)' <=> Worse(x, y)
  BY <1>1 DEF Worse, WorseWith
<1>5. FlagInv'
  <2>1. \A c \in processed' \ linked' : WaitsIn(unlinked', c) \/ Parent[c] \in Failed
    BY <1>1, <1>2 DEF BestInv, FlagInv
  <2> QED  BY <1>3, <2>1 DEF BestInv, FlagInv
<1>6. \A c \in candidates' : ~Worse(c, tip)'
  <2> TAKE c \in candidates'
  <2>1. CASE c \in candidates
    <3>1. ~Worse(c, tip) /\ c \in linked
      BY <1>2, <2>1 DEF BestInv
    <3> QED  BY <1>2, <1>4, <3>1
  <2>2. CASE c \notin candidates
    <3>1. ChainWork[tip] < ChainWork[c] /\ c \in Blocks
      BY <1>1, <1>2, <2>2
    <3>2. ChainWork[tip] \in Nat /\ ChainWork[c] \in Nat
      BY <1>2, <3>1, WorkFacts
    <3> QED  BY <3>1, <3>2 DEF Worse, WorseWith
  <2> QED  BY <2>1, <2>2
<1>7. ASSUME NEW c \in linked', Clean(c) PROVE Cover(candidates, SoundBlocks, c)'
  <2>1. CASE c \in linked
    <3>1. Cover(candidates, SoundBlocks, c)
      BY <1>7, <2>1 DEF BestInv
    <3> QED  BY <1>1, <1>2, <1>3, <1>4, <2>1, <3>1 DEF Cover
  <2>2. CASE c \notin linked
    <3>1. tip \in candidates \cap SoundBlocks
      BY TipCandidate DEF BestInv
    <3>2. c \in candidates' \/ Worse(c, tip)'
      BY <1>1, <2>2 DEF Worse
    <3> QED  BY <1>1, <1>3, <3>1, <3>2 DEF Cover
  <2> QED  BY <2>1, <2>2
<1> QED  BY <1>3, <1>5, <1>6, <1>7 DEF BestInv

\* InvalidateBlock keeps BestInv: it makes a candidate of each block that could take
\* over from the tip it leaves, and of that tip.
LEMMA BestInvalidate ==
    ASSUME BaseInv, BestInv, NEW t \in Threads, NEW b \in Blocks, InvalidateBlock(t, b)
    PROVE  /\ FlagInv' /\ tip' \in SoundBlocks'
           /\ \A c \in candidates' : ~Worse(c, tip)'
           /\ \A c \in linked' : Clean(c)' => Cover(candidates, SoundBlocks, c)'
<1>1. /\ failedValid' = failedValid \cup {b} /\ failedChild' = failedChild \cup Undone(b)
      /\ tip' \in Chain[tip] /\ Chain[tip'] \cap (Undone(b) \cup {b}) = {}
      /\ candidates' = (candidates \ (Undone(b) \cup {b})) \cup Refill(tip', Undone(b) \cup {b})
      /\ UNCHANGED <<processed, linked, unlinked, seqId>>
  BY InvalidateFacts
<1>2. /\ tip \in linked /\ candidates \subseteq linked /\ linked \subseteq Blocks
      /\ linked \subseteq processed /\ seqId \in [Blocks -> Int]
      /\ Chain[tip] \subseteq linked
  BY DEF BaseInv
<1>3. /\ tip' \in linked /\ tip' \in Blocks /\ tip \in Blocks /\ Chain[tip'] \subseteq Chain[tip]
  BY <1>1, <1>2, ChainFacts
<1>4. Failed' = Failed \cup Undone(b) \cup {b}
  BY <1>1 DEF Failed
<1>5. \A c \in Undone(b) \cup {b} : b \in Chain[c]
  BY ChainFacts DEF Undone
<1>6. FlagInv'
  <2>1. FailureHasCause'
    BY <1>1, <1>4, <1>5 DEF BestInv, FlagInv, FailureHasCause, Invalid
  <2> QED  BY <1>1, <1>4, <2>1 DEF BestInv, FlagInv
<1>7. tip' \in SoundBlocks' /\ tip' \notin Failed /\ tip' \notin Undone(b) \cup {b}
  <2>1. Chain[tip'] \cap (Failed \cup BadConnect) = {}
    BY <1>3 DEF BestInv, SoundBlocks
  <2>2. tip' \in Chain[tip']
    BY <1>3, ChainFacts
  <2> QED  BY <1>1, <1>3, <1>4, <2>1, <2>2 DEF SoundBlocks
<1>8. \A x, y \in Blocks : Worse(x, y)' <=> Worse(x, y)
  BY <1>1 DEF Worse, WorseWith
<1>9. \A c \in Refill(tip', Undone(b) \cup {b}) : ~Worse(c, tip') /\ c \in linked
  BY DEF Refill
<1>10. \A c \in candidates' : ~Worse(c, tip)'
  <2>1. tip' = tip \/ Worse(tip', tip)
    BY <1>1, <1>2, OrderFacts DEF Worse
  <2>2. \A c \in Blocks : Worse(c, tip') /\ Worse(tip', tip) => Worse(c, tip)
    BY <1>2, <1>3, OrderFacts DEF Worse
  <2>3. \A c \in candidates' : c \in Blocks /\ ~Worse(c, tip')
    BY <1>1, <1>2, <1>9, <2>1, <2>2 DEF BestInv
  <2> QED  BY <1>1, <2>3 DEF Worse, WorseWith
<1>11. tip' \in candidates'
  <2>1. ~Worse(tip', tip')
    BY <1>2, <1>3, OrderFacts DEF Worse
  <2>2. tip' \in Refill(tip', Undone(b) \cup {b})
    BY <1>2, <1>3, <1>7, <2>1 DEF Refill
  <2> QED  BY <1>1, <2>2
<1>12. ASSUME NEW c \in linked, Clean(c)' PROVE Cover(candidates, SoundBlocks, c)'
  <2>1. c \in Chain[c] /\ c \notin Failed'
    BY <1>2, <1>12, ChainFacts DEF Clean
  <2>2. CASE Worse(c, tip')
    <3>1. Worse(c, tip)'
      BY <1>1, <2>2 DEF Worse, WorseWith
    <3> QED  BY <1>7, <1>11, <3>1 DEF Cover
  <2>3. CASE ~Worse(c, tip')
    <3>1. c \in Refill(tip', Undone(b) \cup {b})
      BY <1>2, <1>4, <2>1, <2>3 DEF Refill
    <3> QED  BY <1>1, <3>1 DEF Cover
  <2> QED  BY <2>2, <2>3
<1> QED  BY <1>1, <1>6, <1>7, <1>10, <1>12

\* What makes it safe to number blocks anew, as PreciousBlock does: some chain that
\* will stay good has the work at which numbers were last given out, and a numbered
\* block with that much work has a number above the next one.  So the next number is
\* below the one the tip has, and the tip can only gain by it.
PreciousInv ==
    /\ preciousWork \in Nat
    /\ \E c \in linked \cap SoundBlocks : preciousWork <= ChainWork[c]
    /\ \A c \in linked : Clean(c) /\ seqId[c] < 0 =>
          \/ ChainWork[c] < preciousWork
          \/ ChainWork[c] = preciousWork /\ reverseSeq < seqId[c]

\* When the loop has been left, the tip has the most work, and the number that
\* PreciousBlock would give out next is no greater than that of the tip.
LEMMA TipNumber ==
    ASSUME BaseInv, BestInv, TipBest, PreciousInv
    PROVE  /\ preciousWork <= ChainWork[tip]
           /\ \A c \in linked : Clean(c) => ChainWork[c] <= ChainWork[tip]
           /\ (IF ChainWork[tip] > preciousWork THEN -1 ELSE reverseSeq) <= seqId[tip]
<1>1. /\ tip \in linked /\ linked \subseteq Blocks /\ Clean(tip)
      /\ seqId \in [Blocks -> Int] /\ reverseSeq \in Int /\ reverseSeq < 0
  BY DEF BaseInv, BestInv, SoundBlocks, Clean
<1>2. \A c \in Blocks : ChainWork[c] \in Nat /\ seqId[c] \in Int
  BY <1>1, WorkFacts
<1>3. ASSUME NEW c \in linked, Clean(c) PROVE ChainWork[c] <= ChainWork[tip]
  <2>1. ~Worse(tip, c)
    BY <1>3 DEF TipBest
  <2> QED  BY <1>1, <1>2, <2>1 DEF Worse, WorseWith
<1>4. preciousWork <= ChainWork[tip] /\ preciousWork \in Nat
  <2>1. PICK c \in linked \cap SoundBlocks : preciousWork <= ChainWork[c]
    BY DEF PreciousInv
  <2>2. Clean(c)
    BY <2>1 DEF SoundBlocks, Clean
  <2>3. ChainWork[c] <= ChainWork[tip] /\ preciousWork \in Nat
    BY <1>3, <2>1, <2>2 DEF PreciousInv
  <2> QED  BY <1>1, <1>2, <2>1, <2>3
<1>5. seqId[tip] < 0 => \/ ChainWork[tip] < preciousWork
                        \/ ChainWork[tip] = preciousWork /\ reverseSeq < seqId[tip]
  BY <1>1 DEF PreciousInv
<1> QED  BY <1>1, <1>2, <1>3, <1>4, <1>5

\* PreciousBlock keeps BestInv and PreciousInv.
LEMMA BestPrecious ==
    ASSUME BaseInv, BestInv, TipBest, PreciousInv, NEW t \in Threads, NEW b \in Blocks,
           PreciousBlock(t, b)
    PROVE  /\ FlagInv' /\ tip' \in SoundBlocks'
           /\ \A c \in candidates' : ~Worse(c, tip)'
           /\ \A c \in linked' : Clean(c)' => Cover(candidates, SoundBlocks, c)'
           /\ PreciousInv'
<1> DEFINE id == IF ChainWork[tip] > preciousWork THEN -1 ELSE reverseSeq
           seq == [seqId EXCEPT ![b] = id]
<1>1. /\ seqId' = seq /\ reverseSeq' = id - 1 /\ preciousWork' = ChainWork[tip]
      /\ UNCHANGED <<processed, linked, failedValid, failedChild, unlinked, tip>>
  BY DEF PreciousBlock, index, flags
<1>2. /\ b \in (processed \cap linked) \ Failed =>
            candidates' = NotWorse(candidates \cup {b}, seq, tip)
      /\ b \notin (processed \cap linked) \ Failed => candidates' = candidates \ {b}
  BY DEF PreciousBlock
<1>3. /\ tip \in linked /\ candidates \subseteq linked /\ linked \subseteq Blocks
      /\ linked \subseteq processed /\ seqId \in [Blocks -> Int]
      /\ reverseSeq \in Int /\ reverseSeq < 0 /\ tip \in Blocks
  BY DEF BaseInv
<1>4. /\ preciousWork <= ChainWork[tip] /\ id <= seqId[tip] /\ preciousWork \in Nat
      /\ \A c \in linked : Clean(c) => ChainWork[c] <= ChainWork[tip]
  BY TipNumber DEF PreciousInv
<1>5. \A c \in Blocks : ChainWork[c] \in Nat /\ seqId[c] \in Int /\ Ptr[c] \in Int
  BY <1>3, WorkFacts, TreeAssumption
<1>6. /\ id \in Int /\ id < 0 /\ (id = -1 \/ id = reverseSeq)
      /\ (ChainWork[tip] = preciousWork => id = reverseSeq)
  <2>1. CASE ChainWork[tip] > preciousWork
    <3>1. id = -1 /\ ChainWork[tip] # preciousWork
      BY <1>3, <1>4, <1>5, <2>1
    <3> QED  BY <3>1
  <2>2. CASE ~(ChainWork[tip] > preciousWork)
    BY <1>3, <2>2
  <2> QED  BY <2>1, <2>2
<1> HIDE DEF id
<1>7. /\ seq \in [Blocks -> Int] /\ seq[b] = id
      /\ \A c \in Blocks \ {b} : seq[c] = seqId[c]
  BY <1>3, <1>5, <1>6
<1> HIDE DEF seq
<1>8. Failed' = Failed /\ SoundBlocks' = SoundBlocks
  BY <1>1 DEF Failed, SoundBlocks
<1>9. /\ FailureHasCause <=> FailureHasCause'
      /\ \A c : Clean(c)' <=> Clean(c)
      /\ \A x, y : Worse(x, y)' <=> WorseWith(seq, x, y)
  BY <1>1, <1>8 DEF Failed, Clean, FailureHasCause, Invalid, Worse, WorseWith
<1>10. FlagInv' /\ tip' \in SoundBlocks'
  BY <1>1, <1>8, <1>9 DEF BestInv, FlagInv
<1>11. tip \in candidates /\ tip \in SoundBlocks /\ Clean(tip) /\ tip \in Chain[tip]
  BY <1>3, TipCandidate, ChainFacts DEF BestInv, SoundBlocks, Clean
<1>12. \A c \in Blocks : c # b /\ tip # b => (WorseWith(seq, c, tip) <=> Worse(c, tip))
  BY <1>3, <1>7 DEF Worse, WorseWith
<1>13. ~WorseWith(seq, tip, tip)
  BY <1>3, <1>7, OrderFacts
<1>14. tip = b => tip \in (processed \cap linked) \ Failed
  BY <1>3, <1>11 DEF Clean
<1>15. ASSUME NEW c \in candidates' PROVE ~Worse(c, tip)'
  <2>1. CASE b \in (processed \cap linked) \ Failed
    BY <1>1, <1>2, <1>9, <2>1 DEF NotWorse
  <2>2. CASE b \notin (processed \cap linked) \ Failed
    <3>1. c \in candidates /\ c # b /\ tip # b /\ c \in Blocks
      BY <1>2, <1>3, <1>14, <2>2
    <3>2. ~Worse(c, tip)
      BY <3>1 DEF BestInv
    <3> QED  BY <1>1, <1>9, <1>12, <3>1, <3>2
  <2> QED  BY <2>1, <2>2
<1>16. tip \in candidates'
  <2>1. CASE b \in (processed \cap linked) \ Failed
    BY <1>2, <1>11, <1>13, <2>1 DEF NotWorse
  <2>2. CASE b \notin (processed \cap linked) \ Failed
    BY <1>2, <1>11, <1>14, <2>2
  <2> QED  BY <2>1, <2>2
<1>17. ASSUME NEW c \in linked, Clean(c), c # tip
       PROVE  c \in candidates' \/ WorseWith(seq, c, tip)
  <2>1. Worse(c, tip)
    <3>1. ~Worse(tip, c)
      BY <1>17 DEF TipBest
    <3> QED  BY <1>3, <1>17, <3>1, OrderFacts DEF Worse
  <2>2. CASE c = b
    <3>1. c \notin Failed
      BY <1>3, <1>17, ChainFacts DEF Clean
    <3> QED  BY <1>2, <1>3, <2>2, <3>1 DEF NotWorse
  <2>3. CASE tip = b
    <3>1. c \in Blocks /\ c # b /\ seq[c] = seqId[c] /\ seq[tip] <= seqId[tip]
          /\ seq[tip] \in Int
      BY <1>3, <1>4, <1>5, <1>6, <1>7, <1>17, <2>3
    <3> QED  BY <1>3, <1>5, <1>6, <2>1, <3>1 DEF Worse, WorseWith
  <2>4. CASE c # b /\ tip # b
    BY <1>3, <1>12, <2>1, <2>4
  <2> QED  BY <2>2, <2>3, <2>4
<1>18. \A c \in linked' : Clean(c)' => Cover(candidates, SoundBlocks, c)'
  BY <1>1, <1>8, <1>9, <1>11, <1>16, <1>17 DEF Cover
<1>19. PreciousInv'
  <2>1. \E c \in linked' \cap SoundBlocks' : preciousWork' <= ChainWork[c]
    <3>1. tip \in linked' \cap SoundBlocks' /\ ChainWork[tip] <= ChainWork[tip]
      BY <1>1, <1>3, <1>5, <1>8, <1>11
    <3> QED  BY <1>1, <3>1
  <2>2. ASSUME NEW c \in linked, Clean(c), seq[c] < 0
        PROVE  \/ ChainWork[c] < ChainWork[tip]
               \/ ChainWork[c] = ChainWork[tip] /\ id - 1 < seq[c]
    <3>1. c \in Blocks /\ ChainWork[c] <= ChainWork[tip]
      BY <1>3, <1>4, <2>2
    <3>2. CASE c = b
      BY <1>3, <1>5, <1>6, <1>7, <3>1, <3>2
    <3>3. CASE c # b
      <4>1. \/ ChainWork[c] < preciousWork
            \/ ChainWork[c] = preciousWork /\ reverseSeq < seqId[c]
        BY <1>7, <2>2, <3>1, <3>3 DEF PreciousInv
      <4>2. /\ ChainWork[c] \in Nat /\ ChainWork[tip] \in Nat /\ preciousWork \in Nat
            /\ seq[c] = seqId[c] /\ seqId[c] \in Int /\ reverseSeq \in Int
            /\ preciousWork <= ChainWork[tip] /\ id \in Int
            /\ (ChainWork[tip] = preciousWork => id = reverseSeq)
        BY <1>3, <1>4, <1>5, <1>6, <1>7, <3>1, <3>3
      <4> QED  BY <3>1, <4>1, <4>2
    <3> QED  BY <3>2, <3>3
  <2>3. preciousWork' \in Nat
    BY <1>1, <1>3, <1>5, <1>6
  <2> QED  BY <1>1, <1>8, <1>9, <2>1, <2>2, <2>3 DEF PreciousInv
<1> QED  BY <1>10, <1>15, <1>18, <1>19

\* A round of the loop of ActivateBestChain keeps PreciousInv.
LEMMA PreciousActivate ==
    ASSUME BaseInv, PreciousInv, NEW t \in Threads, Activate(t)
    PROVE  PreciousInv'
<1>1. PICK f \in FindGood :
         /\ UNCHANGED <<linked, seqId, reverseSeq, preciousWork>>
         /\ failedChild' = f.failed
         /\ \/ Ends(t, f)
            \/ \E target \in linked, damaged \in SUBSET Damaged :
                  /\ Picked(t, f, target) /\ target # tip
                  /\ ActivateBestChainStep(t, target, f, damaged)
  BY ActivateFacts
<1>2. failedChild \subseteq f.failed
  BY DEF FindGood
<1>3. failedValid \subseteq failedValid' /\ failedValid' \subseteq failedValid \cup BadConnect
  <2>1. CASE Ends(t, f)
    BY <2>1 DEF Ends
  <2>2. ASSUME NEW target \in linked, NEW damaged \in SUBSET Damaged,
               ActivateBestChainStep(t, target, f, damaged)
        PROVE  failedValid \subseteq failedValid' /\ failedValid' \subseteq failedValid \cup BadConnect
    <3>1. StepFails(t, target, f) \/ StepMoves(t, target, f)
      BY <2>2, StepFacts
    <3> QED  BY <3>1 DEF StepFails, StepMoves
  <2> QED  BY <1>1, <2>1, <2>2
<1>4. \A b \in Blocks : Clean(b)' => Clean(b)
  BY <1>1, <1>2, <1>3 DEF Clean, Failed
<1>5. SoundBlocks \subseteq SoundBlocks'
  <2> SUFFICES ASSUME NEW b \in Blocks, Chain[b] \cap (Failed \cup BadConnect) = {}
               PROVE  Chain[b] \cap (Failed' \cup BadConnect) = {}
    BY DEF SoundBlocks
  <2>1. Chain[b] \cap (failedValid \cup f.failed) = {}
    BY FindKeepsClean DEF Clean
  <2> QED  BY <1>1, <1>3, <2>1 DEF Failed
<1>6. linked \subseteq Blocks
  BY DEF BaseInv
<1> QED  BY <1>1, <1>4, <1>5, <1>6 DEF PreciousInv

\* Every step of the one thread keeps BestInv.
LEMMA BestNext ==
    ASSUME BaseInv, BestInv, "precious" \in Operations => PreciousInv,
           Operations \subseteq {"invalidate", "precious"}, \A s, t \in Threads : s = t,
           [Next]_vars
    PROVE  BestInv'
<1>1. /\ linked \subseteq processed /\ processed \cap BadContext = {} /\ processed \subseteq Blocks
      /\ tip \in linked /\ candidates \subseteq linked
      /\ \A b \in linked : Chain[b] \subseteq linked
      /\ mostWork \in [Threads -> linked \cup {NoBlock}]
      /\ phase \in [Threads -> {"idle", "loop", "notify", "last"}]
  BY DEF BaseInv
<1>2. ASSUME UNCHANGED <<processed, linked, failedValid, failedChild, unlinked, tip, candidates,
                         seqId>>
      PROVE  /\ FlagInv' /\ tip' \in SoundBlocks'
             /\ \A c \in candidates' : ~Worse(c, tip)'
             /\ \A c \in linked' : Clean(c)' => Cover(candidates, SoundBlocks, c)'
             /\ TipBest' <=> TipBest
             /\ \A b \in Blocks : Clean(b)' <=> Clean(b)
             /\ \A a, b \in Blocks : Worse(a, b)' <=> Worse(a, b)
  <2>1. /\ Failed' = Failed /\ SoundBlocks' = SoundBlocks /\ (FailureHasCause <=> FailureHasCause')
        /\ \A b : Clean(b)' <=> Clean(b)
        /\ \A a, b : Worse(a, b)' <=> Worse(a, b)
    BY <1>2 DEF Failed, SoundBlocks, Clean, FailureHasCause, Invalid, Worse, WorseWith
  <2> QED  BY <1>2, <2>1 DEF BestInv, FlagInv, Cover, TipBest
<1>3. ASSUME NEW t \in Threads, StartActivation(t), FlagInv', tip' \in SoundBlocks',
             \A c \in candidates' : ~Worse(c, tip)',
             \A c \in linked' : Clean(c)' => Cover(candidates, SoundBlocks, c)'
      PROVE  BestInv'
  <2>1. \A s \in Threads : phase'[s] = "loop" /\ mostWork'[s] = NoBlock
    BY <1>1, <1>3 DEF StartActivation
  <2> QED  BY <1>3, <2>1 DEF BestInv
<1>4. ASSUME UNCHANGED <<processed, linked, failedValid, failedChild, unlinked, tip, candidates,
                         seqId, mostWork>>,
             \A s \in Threads : phase'[s] \in {"idle", "last"} => phase[s] \in {"idle", "last"}
      PROVE  BestInv'
  BY <1>1, <1>2, <1>4 DEF BestInv
<1>5. ASSUME NEW b \in Blocks, AcceptHeader(b) PROVE BestInv'
  BY <1>4, <1>5 DEF AcceptHeader, flags, order, threads
<1>6. ASSUME NEW t \in Threads, Activate(t) PROVE BestInv'
  BY <1>6, BestActivate
<1>7. ASSUME NEW t \in Threads, Notified(t) PROVE BestInv'
  <2>1. \A s \in Threads : phase'[s] \in {"idle", "last"} => phase[s] \in {"idle", "last"}
    BY <1>1, <1>7 DEF Notified
  <2> QED  BY <1>4, <1>7, <2>1 DEF Notified, flags, index, order
<1>8. ASSUME NEW t \in Threads, NEW b \in Blocks, NEW requested \in BOOLEAN,
             ProcessKnownBlock(t, b, requested)
      PROVE  BestInv'
  BY <1>2, <1>3, <1>8 DEF ProcessKnownBlock, flags, order
<1>9. ASSUME NEW t \in Threads, NEW b \in Blocks, NEW requested \in BOOLEAN,
             ProcessNewBlock(t, b, requested)
      PROVE  BestInv'
  <2>1. /\ StoreBlock(b) /\ StartActivation(t) /\ phase[t] = "idle"
        /\ UNCHANGED <<failedValid, failedChild, tip>>
    BY <1>9 DEF ProcessNewBlock, flags
  <2>2. b \in Blocks \ processed
    BY <1>9, BaseStore
  <2>3. TipBest
    BY <2>1 DEF BestInv
  <2> QED  BY <1>3, <2>1, <2>2, <2>3, BestStore
<1>10. ASSUME NEW t \in Threads, NEW b \in Blocks, NEW requested \in BOOLEAN,
              RejectBlock(t, b, requested)
       PROVE  BestInv'
  <2>1. /\ b \in BadContext /\ failedValid' = failedValid \cup {b}
        /\ UNCHANGED <<processed, linked, failedChild, unlinked, tip, candidates, seqId,
                       mostWork, phase>>
    BY <1>10 DEF RejectBlock, order, threads
  <2>2. Failed' = Failed \cup {b} /\ b \in Chain[b]
    BY <2>1, ChainFacts DEF Failed
  <2>3. \A c \in linked : /\ b \notin Chain[c] /\ c \in Blocks
                          /\ Clean(c)' <=> Clean(c)
                          /\ c \in SoundBlocks' <=> c \in SoundBlocks
    BY <1>1, <2>1, <2>2 DEF Clean, SoundBlocks
  <2>4. \A x, y : Worse(x, y)' <=> Worse(x, y)
    BY <2>1 DEF Worse, WorseWith
  <2>5. FlagInv'
    <3>1. FailureHasCause'
      BY <2>1, <2>2 DEF BestInv, FlagInv, FailureHasCause, Invalid
    <3> QED  BY <2>1, <2>2, <3>1 DEF BestInv, FlagInv
  <2>6. \A c \in linked' : Clean(c)' => Cover(candidates, SoundBlocks, c)'
    BY <1>1, <2>1, <2>3, <2>4 DEF BestInv, Cover
  <2>7. TipBest => TipBest'
    BY <2>1, <2>3, <2>4 DEF TipBest
  <2>8. \A s \in Threads : mostWork[s] # NoBlock => Clean(mostWork[s])'
    BY <1>1, <2>1, <2>3 DEF BestInv, Clean
  <2> QED  BY <1>1, <2>1, <2>3, <2>4, <2>5, <2>6, <2>7, <2>8 DEF BestInv
<1>11. ASSUME NEW t \in Threads, NEW b \in Blocks, InvalidateBlock(t, b) PROVE BestInv'
  <2>1. StartActivation(t)
    BY <1>11, InvalidateFacts DEF StartActivation
  <2> QED  BY <1>3, <1>11, <2>1, BestInvalidate
<1>12. ASSUME NEW t \in Threads, NEW b \in Blocks, PreciousBlock(t, b) PROVE BestInv'
  <2>1. StartActivation(t) /\ phase[t] = "idle" /\ PreciousInv
    BY <1>12 DEF PreciousBlock
  <2>2. TipBest
    BY <2>1 DEF BestInv
  <2> QED  BY <1>3, <1>12, <2>1, <2>2, BestPrecious
<1>13. CASE UNCHANGED vars
  BY <1>4, <1>13 DEF vars, flags, index, order, threads
<1>14. /\ \A b \in Blocks : ~PruneBlock(b)
       /\ \A t \in Threads, b \in Blocks : ~ReconsiderBlock(t, b)
  BY DEF PruneBlock, ReconsiderBlock
<1> QED  BY <1>5, <1>6, <1>7, <1>8, <1>9, <1>10, <1>11, <1>12, <1>13, <1>14
         DEF Next, ReceiveAndActivate

\* So does PreciousInv hold, if no block is invalidated by a call.
LEMMA PreciousNext ==
    ASSUME BaseInv, BestInv, PreciousInv, Operations \subseteq {"precious"}, [Next]_vars
    PROVE  PreciousInv'
<1>1. linked \subseteq processed /\ processed \cap BadContext = {} /\ processed \subseteq Blocks
      /\ \A b \in linked : Chain[b] \subseteq linked
  BY DEF BaseInv
<1>2. ASSUME UNCHANGED <<linked, failedValid, failedChild, seqId, reverseSeq, preciousWork>>
      PROVE  PreciousInv'
  BY <1>2 DEF PreciousInv, SoundBlocks, Clean, Failed
<1>3. ASSUME NEW b \in Blocks, AcceptHeader(b) PROVE PreciousInv'
  BY <1>2, <1>3 DEF AcceptHeader, flags, order
<1>4. ASSUME NEW t \in Threads, Activate(t) PROVE PreciousInv'
  BY <1>4, PreciousActivate
<1>5. ASSUME NEW t \in Threads, Notified(t) PROVE PreciousInv'
  BY <1>2, <1>5 DEF Notified, flags, index, order
<1>6. ASSUME NEW t \in Threads, NEW b \in Blocks, NEW requested \in BOOLEAN,
             ProcessKnownBlock(t, b, requested)
      PROVE  PreciousInv'
  BY <1>2, <1>6 DEF ProcessKnownBlock, flags, order
<1>7. ASSUME NEW t \in Threads, NEW b \in Blocks, NEW requested \in BOOLEAN,
             ProcessNewBlock(t, b, requested)
      PROVE  PreciousInv'
  <2>1. /\ StoreBlock(b) /\ b \in Blocks \ processed
        /\ UNCHANGED <<failedValid, failedChild, reverseSeq, preciousWork>>
    BY <1>7, BaseStore DEF ProcessNewBlock, flags
  <2>2. /\ linked \subseteq linked' /\ \A c \in linked : seqId'[c] = seqId[c]
        /\ linked' \subseteq processed' /\ processed' = processed \cup {b}
        /\ \A c \in linked' \ linked : seqId'[c] >= 0
        /\ seqId' \in [Blocks -> Int]
    BY <2>1, StoreFacts
  <2>3. /\ SoundBlocks' = SoundBlocks /\ \A c : Clean(c)' <=> Clean(c)
    BY <2>1 DEF SoundBlocks, Clean, Failed
  <2>4. ASSUME NEW c \in linked', Clean(c)', seqId'[c] < 0
        PROVE  \/ ChainWork[c] < preciousWork
               \/ ChainWork[c] = preciousWork /\ reverseSeq < seqId'[c]
    <3>1. seqId'[c] \in Int
      BY <1>1, <2>1, <2>2
    <3>2. c \in linked /\ Clean(c)
      BY <2>2, <2>3, <2>4, <3>1
    <3> QED  BY <2>2, <2>4, <3>2 DEF PreciousInv
  <2> QED  BY <2>1, <2>2, <2>3, <2>4 DEF PreciousInv
<1>8. ASSUME NEW t \in Threads, NEW b \in Blocks, NEW requested \in BOOLEAN,
             RejectBlock(t, b, requested)
      PROVE  PreciousInv'
  <2>1. /\ b \in BadContext /\ failedValid' = failedValid \cup {b}
        /\ UNCHANGED <<linked, failedChild, seqId, reverseSeq, preciousWork>>
    BY <1>8 DEF RejectBlock, order
  <2>2. Failed' = Failed \cup {b}
    BY <2>1 DEF Failed
  <2>3. \A c \in linked : /\ b \notin Chain[c] /\ c \in Blocks /\ (Clean(c)' <=> Clean(c))
                          /\ (c \in SoundBlocks' <=> c \in SoundBlocks)
    BY <1>1, <2>1, <2>2 DEF Clean, SoundBlocks
  <2> QED  BY <2>1, <2>3 DEF PreciousInv
<1>9. ASSUME NEW t \in Threads, NEW b \in Blocks, PreciousBlock(t, b) PROVE PreciousInv'
  <2>1. TipBest
    BY <1>9 DEF PreciousBlock, BestInv
  <2> QED  BY <1>9, <2>1, BestPrecious
<1>10. CASE UNCHANGED vars
  BY <1>2, <1>10 DEF vars, flags, index, order
<1>11. /\ \A b \in Blocks : ~PruneBlock(b)
       /\ \A t \in Threads, b \in Blocks : ~InvalidateBlock(t, b) /\ ~ReconsiderBlock(t, b)
  BY DEF PruneBlock, InvalidateBlock, ReconsiderBlock
<1> QED  BY <1>3, <1>4, <1>5, <1>6, <1>7, <1>8, <1>9, <1>10, <1>11
         DEF Next, ReceiveAndActivate

\* A block whose ancestors all have been processed is linked, if none has failed.
LEMMA CleanLinked ==
    ASSUME BaseInv, FlagInv
    PROVE  \A b \in Blocks : Clean(b) /\ Chain[b] \subseteq processed => b \in linked
<1> DEFINE S == {b \in Blocks : Clean(b) /\ Chain[b] \subseteq processed => b \in linked}
<1>1. Genesis \in S /\ S \in SUBSET Blocks
  BY ChainFacts DEF BaseInv
<1>2. ASSUME NEW b \in Blocks \ {Genesis}, Parent[b] \in S PROVE b \in S
  <2> SUFFICES ASSUME Clean(b), Chain[b] \subseteq processed PROVE b \in linked
    OBVIOUS
  <2>1. b \in Chain[b] /\ Parent[b] \in Chain[b] /\ Parent[b] \in Blocks
        /\ Chain[Parent[b]] \subseteq Chain[b]
    BY ChainFacts
  <2>2. Parent[b] \in linked /\ b \in processed /\ Parent[b] \notin Failed
    BY <1>2, <2>1 DEF Clean
  <2>3. ~WaitsIn(unlinked, b)
    BY <2>1, <2>2 DEF WaitsIn, BaseInv
  <2> QED  BY <2>2, <2>3 DEF FlagInv
<1> HIDE DEF S
<1>3. S = Blocks
  BY <1>1, <1>2, DescentAssumption
<1> QED  BY <1>3 DEF S

\* When the thread is idle the candidates are what CheckBlockIndex asks for, and the
\* best chain is the active one.
LEMMA BestWhenIdle ==
    ASSUME BaseInv, BestInv, Threads # {}
    PROVE  CandidatesExact /\ BestChainWhenIdle
<1>1. /\ known \subseteq Blocks /\ candidates \subseteq linked /\ linked \subseteq Blocks
      /\ tip \in linked /\ linked \subseteq processed /\ seqId \in [Blocks -> Int]
      /\ \A b \in linked : Chain[b] \subseteq linked
  BY DEF BaseInv
<1>2. \A b \in Blocks : Clean(b) <=> ~Invalid(b)
  <2> TAKE b \in Blocks
  <2>1. ASSUME NEW c \in Chain[b], c \in Failed PROVE Invalid(b)
    <3>1. Chain[c] \subseteq Chain[b]
      BY ChainFacts
    <3> QED  BY <2>1, <3>1 DEF BestInv, FlagInv, FailureHasCause, Invalid
  <2> QED  BY <2>1 DEF Clean, Invalid, Failed
<1>3. \A b \in Blocks : Clean(b) /\ ~NeverProcessed(b) => b \in linked
  BY CleanLinked DEF BestInv, NeverProcessed
<1>4. Idle => TipBest
  BY DEF Idle, BestInv
<1>5. CandidatesExact
  <2> SUFFICES ASSUME Idle, NEW b \in known
               PROVE  /\ Worse(b, tip) \/ NeverProcessed(b) => b \notin candidates
                      /\ ~(Worse(b, tip) \/ NeverProcessed(b)) /\ ~Invalid(b) => b \in candidates
    BY DEF CandidatesExact
  <2>1. b \in candidates => ~Worse(b, tip) /\ ~NeverProcessed(b)
    BY <1>1 DEF BestInv, NeverProcessed
  <2>2. ASSUME ~Worse(b, tip), ~NeverProcessed(b), ~Invalid(b) PROVE b \in candidates
    <3>1. b \in Blocks /\ b \in linked /\ Clean(b)
      BY <1>1, <1>2, <1>3, <2>2
    <3>2. ~Worse(tip, b)
      BY <1>4, <3>1 DEF TipBest
    <3>3. b = tip
      BY <1>1, <2>2, <3>1, <3>2, OrderFacts DEF Worse
    <3> QED  BY <1>4, <3>3, TipCandidate
  <2> QED  BY <2>1, <2>2
<1>6. BestChainWhenIdle
  <2> SUFFICES ASSUME Idle, NEW b \in known, Usable(b) PROVE ~Worse(tip, b)
    BY DEF BestChainWhenIdle
  <2>1. b \in linked /\ Clean(b)
    BY <1>1, <1>3 DEF Usable, Clean
  <2> QED  BY <1>4, <2>1 DEF TipBest
<1> QED  BY <1>5, <1>6

\* With one thread in validation, and blocks arriving, failing to connect and being
\* either invalidated or preferred by calls, in whatever order: whenever
\* ActivateBestChain has been left, the candidates are exactly what CheckBlockIndex
\* demands of them and no usable chain sorts above the active one.  With calls of both
\* kinds it need not be so: PreciousBlock starts to number from -1 again when the tip
\* has gained work, and if that tip is then invalidated, two blocks can get one number.
THEOREM BestChainActive ==
    ASSUME Operations \subseteq {"invalidate"} \/ Operations \subseteq {"precious"},
           Threads # {}, \A s, t \in Threads : s = t
    PROVE  Spec => [](CandidatesExact /\ BestChainWhenIdle)
<1> DEFINE Inv == BaseInv /\ BestInv /\ ("precious" \in Operations => PreciousInv)
<1>0. "prune" \notin Operations
  OBVIOUS
<1>1. Init => Inv
  <2> SUFFICES ASSUME Init PROVE BaseInv /\ BestInv /\ PreciousInv
    OBVIOUS
  <2>1. BaseInv
    BY BaseInit
  <2>2. /\ Failed = {} /\ tip = Genesis /\ linked = {Genesis} /\ candidates = {Genesis}
        /\ processed = {Genesis} /\ \A t \in Threads : mostWork[t] = NoBlock
    BY DEF Init, Failed
  <2>3. Chain[Genesis] = {Genesis} /\ Genesis \notin BadConnect /\ Genesis \in Blocks
    BY ChainFacts, TreeAssumption
  <2>4. ~Worse(Genesis, Genesis)
    BY <2>1, <2>3, OrderFacts DEF BaseInv, Worse
  <2>5. FlagInv
    BY <2>2 DEF FlagInv, FailureHasCause
  <2>6. TipBest /\ tip \in SoundBlocks
    BY <2>2, <2>3, <2>4 DEF TipBest, SoundBlocks
  <2>7. /\ \A c \in candidates : ~Worse(c, tip)
        /\ \A b \in linked : Clean(b) => Cover(candidates, SoundBlocks, b)
    BY <2>2, <2>4 DEF Cover
  <2>8. BestInv
    BY <2>2, <2>5, <2>6, <2>7 DEF BestInv
  <2>9. PreciousInv
    <3>1. preciousWork = 0 /\ seqId[Genesis] = 1 /\ ChainWork[Genesis] \in Nat
      BY <2>3, WorkFacts DEF Init
    <3> QED  BY <2>2, <2>6, <3>1 DEF PreciousInv
  <2> QED  BY <2>1, <2>8, <2>9
<1>2. Inv /\ [Next]_vars => Inv'
  <2> SUFFICES ASSUME Inv, [Next]_vars PROVE Inv'
    OBVIOUS
  <2>1. Operations \subseteq {"invalidate", "precious"}
        /\ ("precious" \in Operations => Operations \subseteq {"precious"})
    OBVIOUS
  <2>2. BaseInv' /\ BestInv'
    BY <1>0, <2>1, BaseNext, BestNext
  <2>3. "precious" \in Operations => PreciousInv'
    BY <2>1, PreciousNext
  <2> QED  BY <2>2, <2>3
<1>3. Inv => CandidatesExact /\ BestChainWhenIdle
  BY BestWhenIdle
<1> QED  BY <1>1, <1>2, <1>3, PTL DEF Spec
=============================================================================
