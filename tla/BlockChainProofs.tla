-------------------------- MODULE BlockChainProofs --------------------------
(***************************************************************************)
(* Proof that the index of blocks stays consistent for any number of       *)
(* threads (BlockChain, CheckBlockIndex) and that with one thread no block *)
(* of the active chain has failed (ActiveChainSound).                      *)
(***************************************************************************)
EXTENDS BlockChainLemmas

-----------------------------------------------------------------------------
(* BaseInv is inductive.                                                   *)

\* It holds when the genesis block is all there is.
LEMMA BaseInit ==
    ASSUME Init
    PROVE  BaseInv
<1>1. /\ known = {Genesis} /\ haveData = {Genesis} /\ processed = {Genesis}
      /\ linked = {Genesis} /\ candidates = {Genesis}
      /\ failedValid = {} /\ failedChild = {}
      /\ tip = Genesis /\ nextSeq = 2 /\ reverseSeq = -1
      /\ havePruned = FALSE /\ halted = FALSE
      /\ phase = [t \in Threads |-> "idle"] /\ mostWork = [t \in Threads |-> NoBlock]
  BY DEF Init
<1>2. unlinked \in [Blocks -> Seq(Blocks)] /\ \A p \in Blocks : Range(unlinked[p]) = {}
  BY DEF Init, Range
<1>3. /\ seqId \in [Blocks -> Int] /\ \A b \in Blocks : seqId[b] < nextSeq
      /\ \A b \in Blocks \ linked : seqId[b] <= 0
  BY <1>1 DEF Init
<1>4. Genesis \in Blocks /\ Genesis \notin BadContext /\ Chain[Genesis] = {Genesis}
  BY TreeAssumption, ChainFacts
<1> QED  BY <1>1, <1>2, <1>3, <1>4 DEF BaseInv

\* A block of which the header was accepted is stored.
LEMMA BaseStore ==
    ASSUME BaseInv, NEW t \in Threads, NEW b \in Blocks, NEW requested \in BOOLEAN,
           ProcessNewBlock(t, b, requested)
    PROVE  BaseInv' /\ b \notin processed
<1>1. /\ known' = known \cup {b} /\ StoreBlock(b) /\ b \notin haveData /\ b \notin BadContext
      /\ phase' = [phase EXCEPT ![t] = "loop"] /\ mostWork' = [mostWork EXCEPT ![t] = NoBlock]
      /\ UNCHANGED <<scripts, havePruned, failedValid, failedChild, reverseSeq, tip, halted>>
  BY DEF ProcessNewBlock, AlreadyHaveOrUnwanted, StartActivation, flags
<1>2. haveData = processed /\ b \notin processed
  BY <1>1 DEF BaseInv
<1>3. /\ processed' = processed \cup {b} /\ haveData' = processed'
      /\ linked \subseteq linked' /\ linked' \subseteq processed'
      /\ \A c \in linked' : Chain[c] \subseteq linked'
      /\ seqId' \in [Blocks -> Int] /\ nextSeq' \in Nat
      /\ \A c \in Blocks \ linked' : seqId'[c] <= 0
      /\ \A c \in Blocks : seqId'[c] < nextSeq'
      /\ candidates' \subseteq candidates \cup (linked' \ linked)
      /\ unlinked' \in [Blocks -> Seq(Blocks)]
      /\ \A p \in Blocks : \A c \in Range(unlinked'[p]) :
            c # Genesis /\ Parent[c] = p /\ c \in processed' /\ p \notin linked'
  BY <1>1, <1>2, StoreFacts
<1>4. /\ known \in SUBSET Blocks /\ processed \in SUBSET Blocks
      /\ havePruned = FALSE /\ halted = FALSE
      /\ Genesis \in linked /\ processed \cap BadContext = {}
      /\ failedValid \in SUBSET Blocks /\ failedChild \in SUBSET linked
      /\ candidates \in SUBSET linked /\ tip \in linked
      /\ reverseSeq \in Int /\ reverseSeq < 0
      /\ mostWork \in [Threads -> linked \cup {NoBlock}]
      /\ phase \in [Threads -> {"idle", "loop", "notify", "last"}]
  BY DEF BaseInv
<1>5. /\ mostWork' \in [Threads -> linked' \cup {NoBlock}]
      /\ phase' \in [Threads -> {"idle", "loop", "notify", "last"}]
  BY <1>1, <1>3, <1>4
<1>6. /\ known' \in SUBSET Blocks /\ processed' \in SUBSET Blocks /\ haveData' = processed'
      /\ havePruned' = FALSE /\ halted' = FALSE
      /\ Genesis \in linked' /\ linked' \in SUBSET processed' /\ processed' \cap BadContext = {}
      /\ failedValid' \in SUBSET Blocks /\ failedChild' \in SUBSET linked'
      /\ candidates' \in SUBSET linked' /\ tip' \in linked'
      /\ reverseSeq' \in Int /\ reverseSeq' < 0
  BY <1>1, <1>2, <1>3, <1>4
<1> QED  BY <1>2, <1>3, <1>5, <1>6 DEF BaseInv

\* A thread takes a step towards its target.
LEMMA BaseActivate ==
    ASSUME BaseInv, NEW t \in Threads, Activate(t)
    PROVE  BaseInv'
<1>1. PICK f \in FindGood :
         /\ UNCHANGED <<known, haveData, processed, linked, havePruned, halted, unlinked,
                        seqId, nextSeq, reverseSeq, preciousWork>>
         /\ failedChild' = f.failed
         /\ \/ Ends(t, f)
            \/ \E target \in linked, damaged \in SUBSET Damaged :
                  /\ Picked(t, f, target) /\ target # tip
                  /\ ActivateBestChainStep(t, target, f, damaged)
  BY ActivateFacts
<1>2. /\ f.cands \in SUBSET candidates /\ f.failed \in SUBSET linked
  BY DEF FindGood
<1>3. /\ linked \subseteq Blocks /\ failedValid \in SUBSET Blocks
      /\ candidates \in SUBSET linked /\ tip \in linked
      /\ mostWork \in [Threads -> linked \cup {NoBlock}]
      /\ phase \in [Threads -> {"idle", "loop", "notify", "last"}]
      /\ \A b \in linked : Chain[b] \subseteq linked
  BY DEF BaseInv
<1>4. /\ failedValid' \in SUBSET Blocks
      /\ candidates' \in SUBSET linked /\ tip' \in linked
      /\ mostWork' \in [Threads -> linked \cup {NoBlock}]
      /\ phase' \in [Threads -> {"idle", "loop", "notify", "last"}]
  <2>1. CASE Ends(t, f)
    BY <1>2, <1>3, <2>1 DEF Ends
  <2>2. ASSUME NEW target \in linked, NEW damaged \in SUBSET Damaged,
               ActivateBestChainStep(t, target, f, damaged)
        PROVE  /\ failedValid' \in SUBSET Blocks
               /\ candidates' \in SUBSET linked /\ tip' \in linked
               /\ mostWork' \in [Threads -> linked \cup {NoBlock}]
               /\ phase' \in [Threads -> {"idle", "loop", "notify", "last"}]
    <3>1. tip' \in linked /\ (StepFails(t, target, f) \/ StepMoves(t, target, f))
      BY <2>2, StepFacts
    <3>2. CASE StepFails(t, target, f)
      <4>1. PICK x \in Chain[target] \ Chain[tip], D \in SUBSET BadConnect :
               /\ D \subseteq {x} /\ failedValid' = failedValid \cup D /\ Left(f.cands \ D)
               /\ phase' = [phase EXCEPT ![t] = "notify"]
               /\ mostWork' = [mostWork EXCEPT ![t] = NoBlock]
        BY <3>2 DEF StepFails
      <4>2. candidates' \subseteq f.cands
        BY <4>1 DEF Left, NotWorse
      <4> QED  BY <1>2, <1>3, <3>1, <4>1, <4>2
    <3>3. CASE StepMoves(t, target, f)
      <4>1. candidates' \subseteq f.cands
        BY <3>3 DEF StepMoves, Left, NotWorse
      <4>2. /\ mostWork' \in [Threads -> linked \cup {NoBlock}]
            /\ phase' \in [Threads -> {"idle", "loop", "notify", "last"}]
        BY <1>3, <3>3 DEF StepMoves
      <4> QED  BY <1>2, <1>3, <3>1, <3>3, <4>1, <4>2 DEF StepMoves
    <3> QED  BY <3>1, <3>2, <3>3
  <2> QED  BY <1>1, <2>1, <2>2
<1> QED  BY <1>1, <1>2, <1>4 DEF BaseInv

\* The blocks that InvalidateBlock disconnects: those of the active chain from the
\* tip down to b.
Undone(b) == IF b \in Chain[tip] THEN {c \in Chain[tip] : b \in Chain[c]} ELSE {}

\* InvalidateBlock goes down to the parent of b, if b is active, for which no block
\* is missing.  Nothing of b is left in the active chain.
LEMMA InvalidateFacts ==
    ASSUME BaseInv, NEW t \in Threads, NEW b \in Blocks, InvalidateBlock(t, b)
    PROVE  /\ b # Genesis /\ phase[t] = "idle"
           /\ failedValid' = failedValid \cup {b}
           /\ failedChild' = failedChild \cup Undone(b)
           /\ tip' = IF b \in Chain[tip] THEN Parent[b] ELSE tip
           /\ tip' \in Chain[tip] /\ Chain[tip'] \cap (Undone(b) \cup {b}) = {}
           /\ candidates' = (candidates \ (Undone(b) \cup {b}))
                               \cup Refill(tip', Undone(b) \cup {b})
           /\ phase' = [phase EXCEPT ![t] = "loop"] /\ mostWork' = [mostWork EXCEPT ![t] = NoBlock]
           /\ UNCHANGED <<known, haveData, processed, scripts, linked, havePruned, halted, unlinked,
                          seqId, nextSeq, reverseSeq, preciousWork>>
<1> DEFINE u == Undone(b)
           newTip == IF u = {} THEN tip ELSE Parent[b]
<1>1. /\ b # Genesis /\ phase[t] = "idle" /\ failedValid' = failedValid \cup {b}
      /\ failedChild' = failedChild \cup u
      /\ IF u \subseteq haveData
         THEN /\ tip' = newTip
              /\ candidates' = (candidates \ (u \cup {b})) \cup Refill(newTip, u \cup {b})
              /\ StartActivation(t)
              /\ UNCHANGED halted
         ELSE halted' = TRUE /\ UNCHANGED <<tip, candidates, threads>>
      /\ UNCHANGED <<index, order, unlinked>>
  BY DEF InvalidateBlock, Undone
<1>2. tip \in linked /\ Chain[tip] \subseteq haveData /\ tip \in Blocks
  BY DEF BaseInv
<1>3. u \subseteq Chain[tip] /\ u \subseteq haveData
  BY <1>2 DEF Undone
<1>4. b \in Chain[tip] <=> u # {}
  BY ChainFacts DEF Undone
<1>5. newTip = IF b \in Chain[tip] THEN Parent[b] ELSE tip
  BY <1>4
<1>6. newTip \in Chain[tip] /\ Chain[newTip] \cap (u \cup {b}) = {}
  <2>1. CASE b \notin Chain[tip]
    BY <1>2, <1>4, <2>1, ChainFacts
  <2>2. CASE b \in Chain[tip]
    <3>1. /\ newTip = Parent[b] /\ Parent[b] \in Blocks /\ b \notin Chain[Parent[b]]
          /\ Parent[b] \in Chain[b]
      BY <1>1, <1>5, <2>2, ChainFacts, WorkFacts
    <3>2. Chain[b] \subseteq Chain[tip]
      BY <1>2, <2>2, ChainFacts
    <3>3. \A c \in u : b \in Chain[c]
      BY DEF Undone
    <3>4. \A c \in Chain[Parent[b]] : Chain[c] \subseteq Chain[Parent[b]]
      BY <3>1, ChainFacts
    <3> QED  BY <3>1, <3>2, <3>3, <3>4
  <2> QED  BY <2>1, <2>2
<1> QED  BY <1>1, <1>3, <1>5, <1>6 DEF StartActivation, index, order

\* Every step keeps BaseInv, if blocks are not pruned.
LEMMA BaseNext ==
    ASSUME BaseInv, "prune" \notin Operations, [Next]_vars
    PROVE  BaseInv'
<1>0. /\ mostWork \in [Threads -> linked \cup {NoBlock}]
      /\ phase \in [Threads -> {"idle", "loop", "notify", "last"}]
      /\ known \in SUBSET Blocks /\ failedValid \in SUBSET Blocks
      /\ failedChild \in SUBSET linked /\ candidates \in SUBSET linked
      /\ processed \cap BadContext = {} /\ linked \in SUBSET processed
  BY DEF BaseInv
<1>1. ASSUME NEW b \in Blocks, AcceptHeader(b) PROVE BaseInv'
  <2>1. known' \in SUBSET Blocks
    BY <1>0, <1>1 DEF AcceptHeader
  <2> QED  BY <1>1, <2>1 DEF AcceptHeader, BaseInv, flags, order, threads
<1>2. ASSUME NEW t \in Threads, Activate(t) PROVE BaseInv'
  BY <1>2, BaseActivate
<1>3. ASSUME NEW t \in Threads, Notified(t) PROVE BaseInv'
  <2>1. phase' \in [Threads -> {"idle", "loop", "notify", "last"}]
    BY <1>0, <1>3 DEF Notified
  <2> QED  BY <1>3, <2>1 DEF Notified, BaseInv, index, flags, order
<1>4. ASSUME NEW t \in Threads, NEW b \in Blocks, NEW requested \in BOOLEAN,
             ProcessKnownBlock(t, b, requested)
      PROVE  BaseInv'
  <2>1. /\ known' \in SUBSET Blocks
        /\ phase' \in [Threads -> {"idle", "loop", "notify", "last"}]
        /\ mostWork' \in [Threads -> linked \cup {NoBlock}]
    BY <1>0, <1>4 DEF ProcessKnownBlock, StartActivation
  <2> QED  BY <1>4, <2>1 DEF ProcessKnownBlock, BaseInv, flags, order
<1>5. ASSUME NEW t \in Threads, NEW b \in Blocks, NEW requested \in BOOLEAN,
             ProcessNewBlock(t, b, requested)
      PROVE  BaseInv'
  BY <1>5, BaseStore
<1>6. ASSUME NEW t \in Threads, NEW b \in Blocks, NEW requested \in BOOLEAN,
             RejectBlock(t, b, requested)
      PROVE  BaseInv'
  <2>1. known' \in SUBSET Blocks /\ failedValid' \in SUBSET Blocks
    BY <1>0, <1>6 DEF RejectBlock
  <2> QED  BY <1>6, <2>1 DEF RejectBlock, BaseInv, order, threads
<1>7. ASSUME NEW t \in Threads, NEW b \in Blocks, InvalidateBlock(t, b) PROVE BaseInv'
  <2>1. /\ failedValid' = failedValid \cup {b} /\ failedChild' = failedChild \cup Undone(b)
        /\ tip' \in Chain[tip]
        /\ candidates' = (candidates \ (Undone(b) \cup {b})) \cup Refill(tip', Undone(b) \cup {b})
        /\ phase' = [phase EXCEPT ![t] = "loop"] /\ mostWork' = [mostWork EXCEPT ![t] = NoBlock]
        /\ UNCHANGED <<known, haveData, processed, scripts, linked, havePruned, halted, unlinked,
                       seqId, nextSeq, reverseSeq, preciousWork>>
    BY <1>7, InvalidateFacts
  <2>2. Chain[tip] \subseteq linked
    BY DEF BaseInv
  <2>3. Undone(b) \subseteq linked
    BY <2>2 DEF Undone
  <2>4. /\ failedValid' \in SUBSET Blocks /\ failedChild' \in SUBSET linked
        /\ candidates' \in SUBSET linked /\ tip' \in linked
    BY <1>0, <2>1, <2>2, <2>3 DEF Refill
  <2>5. /\ phase' \in [Threads -> {"idle", "loop", "notify", "last"}]
        /\ mostWork' \in [Threads -> linked \cup {NoBlock}]
    BY <1>0, <2>1
  <2> QED  BY <2>1, <2>4, <2>5 DEF BaseInv
<1>8. ASSUME NEW t \in Threads, NEW b \in Blocks, ReconsiderBlock(t, b) PROVE BaseInv'
  <2>1. /\ failedValid' \subseteq failedValid /\ failedChild' \subseteq failedChild
        /\ candidates' \subseteq candidates \cup linked
        /\ phase' = [phase EXCEPT ![t] = "loop"] /\ mostWork' = [mostWork EXCEPT ![t] = NoBlock]
        /\ UNCHANGED <<known, haveData, processed, scripts, linked, havePruned, halted, unlinked,
                       tip, seqId, nextSeq, reverseSeq, preciousWork>>
    BY <1>8 DEF ReconsiderBlock, StartActivation, index, order
  <2>2. /\ failedValid' \in SUBSET Blocks /\ failedChild' \in SUBSET linked
        /\ candidates' \in SUBSET linked
    BY <1>0, <2>1
  <2>3. /\ phase' \in [Threads -> {"idle", "loop", "notify", "last"}]
        /\ mostWork' \in [Threads -> linked \cup {NoBlock}]
    BY <1>0, <2>1
  <2> QED  BY <2>1, <2>2, <2>3 DEF BaseInv
<1>9. ASSUME NEW t \in Threads, NEW b \in Blocks, PreciousBlock(t, b) PROVE BaseInv'
  <2> DEFINE id == IF ChainWork[tip] > preciousWork THEN -1 ELSE reverseSeq
  <2>1. /\ seqId' = [seqId EXCEPT ![b] = id] /\ reverseSeq' = id - 1
        /\ candidates' \subseteq candidates \cup linked
        /\ phase' = [phase EXCEPT ![t] = "loop"] /\ mostWork' = [mostWork EXCEPT ![t] = NoBlock]
        /\ UNCHANGED <<known, haveData, processed, scripts, linked, havePruned, halted, unlinked,
                       tip, failedValid, failedChild, nextSeq>>
    BY <1>9 DEF PreciousBlock, StartActivation, NotWorse, index, flags
  <2>2. /\ reverseSeq \in Int /\ reverseSeq < 0 /\ nextSeq \in Nat /\ seqId \in [Blocks -> Int]
        /\ \A c \in Blocks : seqId[c] < nextSeq /\ (c \notin linked => seqId[c] <= 0)
    BY DEF BaseInv
  <2>3. id \in Int /\ id < 0
    BY <2>2
  <2> HIDE DEF id
  <2>4. /\ seqId' \in [Blocks -> Int] /\ reverseSeq' \in Int /\ reverseSeq' < 0
        /\ \A c \in Blocks : seqId'[c] < nextSeq /\ (c \notin linked => seqId'[c] <= 0)
    BY <2>1, <2>2, <2>3
  <2>5. candidates' \in SUBSET linked
    BY <1>0, <2>1
  <2>6. /\ phase' \in [Threads -> {"idle", "loop", "notify", "last"}]
        /\ mostWork' \in [Threads -> linked \cup {NoBlock}]
    BY <1>0, <2>1
  <2> QED  BY <2>1, <2>4, <2>5, <2>6 DEF BaseInv
<1>10. CASE UNCHANGED vars
  BY <1>10 DEF vars, index, flags, order, threads, BaseInv
<1>11. \A b \in Blocks : ~PruneBlock(b)
  BY DEF PruneBlock
<1> QED  BY <1>1, <1>2, <1>3, <1>4, <1>5, <1>6, <1>7, <1>8, <1>9, <1>10, <1>11
         DEF Next, ReceiveAndActivate

-----------------------------------------------------------------------------
(* One thread: the active chain is valid, whatever is called.              *)

\* No block of the active chain and none of the chain a thread is going to is
\* marked as failed.  A thread outside the loop of ActivateBestChain has no target.
ValidInv ==
    /\ Clean(tip)
    /\ \A t \in Threads : mostWork[t] # NoBlock =>
          phase[t] \in {"loop", "notify"} /\ Clean(mostWork[t])

\* What FindMostWorkChain marks does not touch the active chain, nor the target.
LEMMA PickedClean ==
    ASSUME BaseInv, Clean(tip), NEW t \in Threads, NEW f \in FindGood,
           mostWork[t] # NoBlock => Clean(mostWork[t])
    PROVE  /\ Chain[tip] \cap (failedValid \cup f.failed) = {}
           /\ \A target \in Blocks : Picked(t, f, target) =>
                 Chain[target] \cap (failedValid \cup f.failed) = {}
<1>1. Chain[tip] \cap (failedValid \cup f.failed) = {}
  BY DEF FindGood, Clean, Failed
<1>2. ASSUME NEW target \in Blocks, Picked(t, f, target)
      PROVE  Chain[target] \cap (failedValid \cup f.failed) = {}
  <2>1. CASE mostWork[t] = NoBlock
    <3>1. target = Best(f.cands) /\ f.cands # {} /\ Settled(f)
      BY <1>2, <2>1 DEF Picked
    <3>2. (Chain[target] \ Chain[tip]) \cap (failedValid \cup f.failed) = {}
      BY <3>1 DEF Settled, Branch
    <3> QED  BY <1>1, <3>2
  <2>2. CASE mostWork[t] # NoBlock
    <3>1. target = mostWork[t] /\ f.failed = failedChild
      BY <1>2, <2>2 DEF Picked
    <3> QED  BY <2>2, <3>1 DEF Clean, Failed
  <2> QED  BY <2>1, <2>2
<1> QED  BY <1>1, <1>2

\* ValidInv is inductive when there is no second thread.
LEMMA ValidNext ==
    ASSUME BaseInv, ValidInv, "prune" \notin Operations, \A s, t \in Threads : s = t,
           [Next]_vars
    PROVE  ValidInv'
<1>0. /\ mostWork \in [Threads -> linked \cup {NoBlock}]
      /\ phase \in [Threads -> {"idle", "loop", "notify", "last"}]
      /\ Chain[tip] \subseteq linked /\ linked \subseteq processed /\ processed \subseteq Blocks
      /\ processed \cap BadContext = {} /\ tip \in linked
      /\ \A b \in linked : Chain[b] \subseteq linked
  BY DEF BaseInv
<1>1. ASSUME NEW b \in Blocks, AcceptHeader(b) PROVE ValidInv'
  BY <1>1 DEF AcceptHeader, ValidInv, Clean, Failed, flags, threads
<1>2. ASSUME NEW t \in Threads, Activate(t) PROVE ValidInv'
  <2>1. PICK f \in FindGood :
           /\ failedChild' = f.failed
           /\ \/ Ends(t, f)
              \/ \E target \in linked, damaged \in SUBSET Damaged :
                    /\ Picked(t, f, target) /\ target # tip
                    /\ ActivateBestChainStep(t, target, f, damaged)
    BY <1>2, ActivateFacts
  <2>2. /\ Chain[tip] \cap (failedValid \cup f.failed) = {}
        /\ \A target \in Blocks : Picked(t, f, target) =>
              Chain[target] \cap (failedValid \cup f.failed) = {}
    BY PickedClean DEF ValidInv
  <2>3. CASE Ends(t, f)
    <3>1. /\ mostWork' = [mostWork EXCEPT ![t] = NoBlock]
          /\ tip' = tip /\ failedValid' = failedValid
      BY <2>3 DEF Ends
    <3>2. \A s \in Threads : mostWork'[s] = NoBlock
      BY <1>0, <3>1
    <3> QED  BY <2>1, <2>2, <3>1, <3>2 DEF ValidInv, Clean, Failed
  <2>4. ASSUME NEW target \in linked, NEW damaged \in SUBSET Damaged, Picked(t, f, target),
               ActivateBestChainStep(t, target, f, damaged)
        PROVE  ValidInv'
    <3>1. /\ tip' \in Chain[target] /\ tip' \in linked
          /\ StepFails(t, target, f) \/ StepMoves(t, target, f)
      BY <2>4, StepFacts
    <3>2. /\ Chain[target] \cap (failedValid \cup f.failed) = {}
          /\ Chain[tip'] \subseteq Chain[target]
      BY <1>0, <2>2, <2>4, <3>1, ChainFacts
    <3>3. CASE StepFails(t, target, f)
      <4>1. PICK x \in Chain[target], D \in SUBSET BadConnect :
               /\ D \subseteq {x} /\ x # Genesis /\ tip' = Parent[x] /\ failedValid' = failedValid \cup D
               /\ mostWork' = [mostWork EXCEPT ![t] = NoBlock]
        BY <3>3 DEF StepFails
      <4>2. x \notin Chain[tip']
        BY <1>0, <4>1, ChainFacts, WorkFacts
      <4>3. \A s \in Threads : mostWork'[s] = NoBlock
        BY <1>0, <4>1
      <4> QED  BY <2>1, <3>2, <4>1, <4>2, <4>3 DEF ValidInv, Clean, Failed
    <3>4. CASE StepMoves(t, target, f)
      <4>1. failedValid' = failedValid
        BY <3>4 DEF StepMoves
      <4>2. \A s \in Threads : mostWork'[s] # NoBlock =>
               mostWork'[s] = target /\ phase'[s] \in {"loop", "notify"}
        BY <1>0, <3>4 DEF StepMoves
      <4> QED  BY <2>1, <3>2, <4>1, <4>2 DEF ValidInv, Clean, Failed
    <3> QED  BY <3>1, <3>3, <3>4
  <2> QED  BY <2>1, <2>3, <2>4
<1>3. ASSUME NEW t \in Threads, Notified(t) PROVE ValidInv'
  <2>1. /\ phase[t] \in {"notify", "last"}
        /\ phase' = [phase EXCEPT ![t] = IF @ = "last" THEN "idle" ELSE "loop"]
        /\ UNCHANGED <<failedValid, failedChild, tip, mostWork>>
    BY <1>3 DEF Notified, flags
  <2>2. \A s \in Threads : phase[s] \in {"loop", "notify"} => phase'[s] \in {"loop", "notify"}
    BY <1>0, <2>1
  <2> QED  BY <2>1, <2>2 DEF ValidInv, Clean, Failed
<1>4. ASSUME NEW t \in Threads, StartActivation(t), tip' \in Blocks, Chain[tip'] \cap Failed' = {}
      PROVE  ValidInv'
  <2>1. \A s \in Threads : mostWork'[s] = NoBlock
    BY <1>0, <1>4 DEF StartActivation
  <2> QED  BY <1>4, <2>1 DEF ValidInv, Clean
<1>5. ASSUME NEW t \in Threads, NEW b \in Blocks, NEW requested \in BOOLEAN,
             ProcessKnownBlock(t, b, requested) \/ ProcessNewBlock(t, b, requested)
      PROVE  ValidInv'
  <2>1. StartActivation(t) /\ UNCHANGED <<failedValid, failedChild, tip>>
    BY <1>5 DEF ProcessKnownBlock, ProcessNewBlock, flags
  <2> QED  BY <1>0, <1>4, <2>1 DEF ValidInv, Clean, Failed
<1>6. ASSUME NEW t \in Threads, NEW b \in Blocks, NEW requested \in BOOLEAN,
             RejectBlock(t, b, requested)
      PROVE  ValidInv'
  <2>1. /\ b \in BadContext /\ failedValid' = failedValid \cup {b} /\ phase[t] = "idle"
        /\ UNCHANGED <<failedChild, tip, phase, mostWork>>
    BY <1>6 DEF RejectBlock, threads
  <2>2. \A s \in Threads : mostWork'[s] = NoBlock
    BY <2>1 DEF ValidInv
  <2> QED  BY <1>0, <2>1, <2>2 DEF ValidInv, Clean, Failed
<1>7. ASSUME NEW t \in Threads, NEW b \in Blocks, InvalidateBlock(t, b) PROVE ValidInv'
  <2>1. /\ failedValid' = failedValid \cup {b} /\ failedChild' = failedChild \cup Undone(b)
        /\ tip' \in Chain[tip] /\ Chain[tip'] \cap (Undone(b) \cup {b}) = {}
        /\ phase' = [phase EXCEPT ![t] = "loop"] /\ mostWork' = [mostWork EXCEPT ![t] = NoBlock]
    BY <1>7, InvalidateFacts
  <2>2. Chain[tip'] \subseteq Chain[tip] /\ tip' \in Blocks
    BY <1>0, <2>1, ChainFacts
  <2> QED  BY <1>4, <2>1, <2>2 DEF ValidInv, Clean, Failed, StartActivation
<1>8. ASSUME NEW t \in Threads, NEW b \in Blocks, ReconsiderBlock(t, b) PROVE ValidInv'
  <2>1. /\ failedValid' \subseteq failedValid /\ failedChild' \subseteq failedChild
        /\ StartActivation(t) /\ tip' = tip
    BY <1>8 DEF ReconsiderBlock
  <2> QED  BY <1>0, <1>4, <2>1 DEF ValidInv, Clean, Failed
<1>9. ASSUME NEW t \in Threads, NEW b \in Blocks, PreciousBlock(t, b) PROVE ValidInv'
  <2>1. StartActivation(t) /\ UNCHANGED <<failedValid, failedChild, tip>>
    BY <1>9 DEF PreciousBlock, flags
  <2> QED  BY <1>0, <1>4, <2>1 DEF ValidInv, Clean, Failed
<1>10. CASE UNCHANGED vars
  BY <1>10 DEF vars, flags, threads, ValidInv, Clean, Failed
<1>11. \A b \in Blocks : ~PruneBlock(b)
  BY DEF PruneBlock
<1> QED  BY <1>1, <1>2, <1>3, <1>5, <1>6, <1>7, <1>8, <1>9, <1>10, <1>11
         DEF Next, ReceiveAndActivate

\* With one thread in validation and no pruning, no block of the active chain is ever
\* marked as failed, in whatever order blocks arrive, fail to connect, and are
\* invalidated, reconsidered or preferred by calls: FindMostWorkChain may stop at the
\* active chain, as its comment says.  Every block of that chain has its data.
THEOREM OneThreadChainSound ==
    ASSUME "prune" \notin Operations, \A s, t \in Threads : s = t
    PROVE  Spec => []ActiveChainSound
<1>1. Init => BaseInv /\ ValidInv
  <2> SUFFICES ASSUME Init PROVE BaseInv /\ ValidInv
    OBVIOUS
  <2>1. BaseInv
    BY BaseInit
  <2>2. Failed = {} /\ \A t \in Threads : mostWork[t] = NoBlock
    BY DEF Init, Failed
  <2> QED  BY <2>1, <2>2 DEF ValidInv, Clean
<1>2. BaseInv /\ ValidInv /\ [Next]_vars => BaseInv' /\ ValidInv'
  BY BaseNext, ValidNext
<1>3. BaseInv /\ ValidInv => ActiveChainSound
  <2>1. ValidInv => ActiveChainValid
    BY DEF ValidInv, Clean, ActiveChainValid
  <2>2. BaseInv => RecentBlocksKept
    BY DEF BaseInv, RecentBlocksKept
  <2> QED  BY <2>1, <2>2 DEF ActiveChainSound
<1> QED  BY <1>1, <1>2, <1>3, PTL DEF Spec

-----------------------------------------------------------------------------
(* Any number of threads: the index passes its checks, as long as no block *)
(* is invalidated or reconsidered by a call.                               *)

\* The flags are then the verdicts on the blocks and what follows from them: a block
\* marked as invalid fails a check, a marked block without its data or that of an
\* ancestor fails ContextualCheckBlock, and no block that fails to connect is active.
\* So whoever does not wait for a parent that is not linked never will be linked.
IndexInv ==
    /\ FailureHasCause
    /\ failedValid \subseteq BadContext \cup BadConnect
    /\ Failed \ linked \subseteq BadContext
    /\ Chain[tip] \cap BadConnect = {}
    /\ \A c \in processed \ linked :
          WaitsIn(unlinked, c) \/ Parent[c] \in Failed \cap BadContext
    /\ scripts \in SUBSET processed /\ Chain[tip] \subseteq scripts
    /\ \A b \in scripts : Chain[b] \subseteq scripts

\* No block of a chain of linked blocks that all connect is marked as failed.
LEMMA NoVerdict ==
    ASSUME BaseInv, NEW valid, valid \subseteq BadContext \cup BadConnect,
           NEW child, \A b \in valid \cup child : Chain[b] \cap valid # {},
           NEW b \in linked, Chain[b] \cap BadConnect = {}
    PROVE  Chain[b] \cap (valid \cup child) = {}
<1> SUFFICES ASSUME NEW c \in Chain[b], c \in valid \cup child PROVE FALSE
  OBVIOUS
<1>1. PICK d \in Chain[c] : d \in valid
  OBVIOUS
<1>2. b \in Blocks /\ Chain[b] \subseteq processed /\ processed \cap BadContext = {}
  BY DEF BaseInv
<1>3. d \in Chain[b]
  BY <1>1, <1>2, ChainFacts
<1> QED  BY <1>1, <1>2, <1>3

\* What FindMostWorkChain marks has a cause, too.
LEMMA FindHasCause ==
    ASSUME BaseInv, FailureHasCause, NEW f \in FindGood
    PROVE  \A b \in failedValid \cup f.failed : Chain[b] \cap failedValid # {}
<1> TAKE b \in failedValid \cup f.failed
<1>1. CASE b \in Failed
  BY <1>1 DEF FailureHasCause, Invalid
<1>2. CASE b \notin Failed
  <2>1. b \in f.failed \ failedChild /\ b \in Blocks
    BY <1>2 DEF Failed, FindGood, BaseInv
  <2>2. PICK c \in Chain[b] : c \in Failed
    BY <2>1 DEF FindGood
  <2>3. Chain[c] \cap failedValid # {}
    BY <2>2 DEF FailureHasCause, Invalid
  <2>4. Chain[c] \subseteq Chain[b]
    BY <2>1, <2>2, ChainFacts
  <2> QED  BY <2>3, <2>4
<1> QED  BY <1>1, <1>2

\* A step of a thread keeps IndexInv, even if another thread has found a block on the
\* way to the target invalid since the target was chosen.
LEMMA IndexActivate ==
    ASSUME BaseInv, IndexInv, NEW t \in Threads, Activate(t)
    PROVE  IndexInv'
<1>1. PICK f \in FindGood :
         /\ UNCHANGED <<processed, linked, unlinked>>
         /\ failedChild' = f.failed
         /\ \/ Ends(t, f)
            \/ \E target \in linked, damaged \in SUBSET Damaged :
                  ActivateBestChainStep(t, target, f, damaged)
  BY ActivateFacts
<1>2. f.failed \in SUBSET linked /\ failedChild \subseteq f.failed
  BY DEF FindGood
<1>3. /\ linked \subseteq Blocks /\ linked \subseteq processed /\ processed \cap BadContext = {}
      /\ \A b \in linked : Chain[b] \subseteq linked
  BY DEF BaseInv
<1>4. \A b \in failedValid \cup f.failed : Chain[b] \cap failedValid # {}
  BY FindHasCause DEF IndexInv
<1>5. CASE Ends(t, f)
  <2>1. UNCHANGED <<scripts, failedValid, tip>>
    BY <1>5 DEF Ends
  <2>2. Failed' = failedValid \cup f.failed /\ Failed \subseteq Failed'
    BY <1>1, <1>2, <2>1 DEF Failed
  <2>3. FailureHasCause'
    BY <1>4, <2>1, <2>2 DEF FailureHasCause, Invalid
  <2>4. Failed' \ linked \subseteq BadContext
    BY <1>2, <2>2 DEF IndexInv, Failed
  <2> QED  BY <1>1, <2>1, <2>2, <2>3, <2>4 DEF IndexInv
<1>6. ASSUME NEW target \in linked, NEW damaged \in SUBSET Damaged,
               ActivateBestChainStep(t, target, f, damaged)
      PROVE  IndexInv'
  <2>1. /\ tip' \in linked /\ (Chain[tip'] \ Chain[tip]) \cap BadConnect = {}
        /\ scripts' = scripts \cup ((Chain[tip'] \ Chain[tip]) \ (failedValid \cup f.failed))
        /\ StepFails(t, target, f) \/ StepMoves(t, target, f)
    BY <1>6, StepFacts
  <2>2. Chain[tip'] \cap BadConnect = {}
    BY <2>1 DEF IndexInv
  <2>3. Chain[tip'] \cap (failedValid \cup f.failed) = {}
    <3>1. failedValid \subseteq BadContext \cup BadConnect
      BY DEF IndexInv
    <3> DEFINE child == f.failed
               n == tip'
    <3>2. /\ \A b \in failedValid \cup child : Chain[b] \cap failedValid # {}
          /\ n \in linked /\ Chain[n] \cap BadConnect = {}
      BY <1>4, <2>1, <2>2
    <3> HIDE DEF child, n
    <3>3. Chain[n] \cap (failedValid \cup child) = {}
      BY <3>1, <3>2, NoVerdict
    <3> QED  BY <3>3 DEF child, n
  <2>4. /\ scripts' = scripts \cup Chain[tip'] /\ Chain[tip'] \subseteq scripts'
        /\ scripts' \in SUBSET processed
    BY <1>3, <2>1, <2>3 DEF IndexInv
  <2>5. \A b \in scripts' : Chain[b] \subseteq scripts'
    <3>1. \A b \in Chain[tip'] : Chain[b] \subseteq Chain[tip']
      BY <1>3, <2>1, ChainFacts
    <3> QED  BY <2>4, <3>1 DEF IndexInv
  <2>6. \/ failedValid' = failedValid
        \/ \E D \in SUBSET (linked \cap BadConnect) : failedValid' = failedValid \cup D
    BY <1>3, <2>1 DEF StepFails, StepMoves
  <2>7. /\ failedValid \subseteq failedValid' /\ failedValid' \subseteq BadContext \cup BadConnect
        /\ failedValid' \subseteq failedValid \cup linked
    BY <2>6 DEF IndexInv
  <2>8. Failed' = failedValid' \cup f.failed /\ Failed \subseteq Failed'
    BY <1>1, <1>2, <2>7 DEF Failed
  <2>9. FailureHasCause'
    <3> SUFFICES ASSUME NEW b \in Failed' PROVE Chain[b] \cap failedValid' # {}
      BY DEF FailureHasCause, Invalid
    <3>1. CASE b \in failedValid \cup f.failed
      BY <1>4, <2>7, <3>1
    <3>2. CASE b \notin failedValid \cup f.failed
      <4>1. b \in failedValid' /\ b \in Blocks
        BY <1>3, <2>7, <2>8, <3>2
      <4> QED  BY <4>1, ChainFacts
    <3> QED  BY <3>1, <3>2
  <2>10. Failed' \ linked \subseteq BadContext
    BY <1>2, <2>7, <2>8 DEF IndexInv, Failed
  <2> QED  BY <1>1, <2>2, <2>4, <2>5, <2>7, <2>8, <2>9, <2>10 DEF IndexInv
<1> QED  BY <1>1, <1>5, <1>6

\* IndexInv is inductive.
LEMMA IndexNext ==
    ASSUME BaseInv, IndexInv, Operations \subseteq {"precious"}, [Next]_vars
    PROVE  IndexInv'
<1>0. /\ linked \subseteq processed /\ processed \subseteq Blocks
      /\ processed \cap BadContext = {} /\ Genesis \in processed
  BY DEF BaseInv
<1>1. ASSUME UNCHANGED <<processed, scripts, linked, failedValid, failedChild, unlinked, tip>>
      PROVE  IndexInv'
  BY <1>1 DEF IndexInv, FailureHasCause, Invalid, Failed
<1>2. ASSUME NEW b \in Blocks, AcceptHeader(b) PROVE IndexInv'
  BY <1>1, <1>2 DEF AcceptHeader, flags
<1>3. ASSUME NEW t \in Threads, Activate(t) PROVE IndexInv'
  BY <1>3, IndexActivate
<1>4. ASSUME NEW t \in Threads, Notified(t) PROVE IndexInv'
  BY <1>1, <1>4 DEF Notified, flags, index
<1>5. ASSUME NEW t \in Threads, NEW b \in Blocks, NEW requested \in BOOLEAN,
             ProcessKnownBlock(t, b, requested)
      PROVE  IndexInv'
  BY <1>1, <1>5 DEF ProcessKnownBlock, flags
<1>6. ASSUME NEW t \in Threads, NEW b \in Blocks, NEW requested \in BOOLEAN,
             ProcessNewBlock(t, b, requested)
      PROVE  IndexInv'
  <2>1. StoreBlock(b) /\ UNCHANGED <<scripts, failedValid, failedChild, tip>>
    BY <1>6 DEF ProcessNewBlock, flags
  <2>2. b \in Blocks \ processed
    BY <1>6, BaseStore
  <2>3. /\ processed' = processed \cup {b} /\ linked \subseteq linked'
        /\ \A c \in Blocks : WaitsIn(unlinked, c) => c \in linked' \/ WaitsIn(unlinked', c)
        /\ \/ b \in linked' \/ WaitsIn(unlinked', b)
           \/ linked' = linked /\ Parent[b] \in Failed \ linked
    BY <2>1, <2>2, StoreFacts
  <2>4. Failed' = Failed /\ (FailureHasCause <=> FailureHasCause')
    BY <2>1 DEF FailureHasCause, Invalid, Failed
  <2>5. \A c \in processed' \ linked' :
           WaitsIn(unlinked', c) \/ Parent[c] \in Failed \cap BadContext
    BY <1>0, <2>3 DEF IndexInv
  <2>6. Failed \ linked' \subseteq BadContext /\ scripts' \in SUBSET processed'
    BY <2>1, <2>3 DEF IndexInv
  <2> QED  BY <2>1, <2>4, <2>5, <2>6 DEF IndexInv
<1>7. ASSUME NEW t \in Threads, NEW b \in Blocks, NEW requested \in BOOLEAN,
             RejectBlock(t, b, requested)
      PROVE  IndexInv'
  <2>1. /\ b \in BadContext /\ failedValid' = failedValid \cup {b}
        /\ UNCHANGED <<processed, scripts, linked, failedChild, unlinked, tip>>
    BY <1>7 DEF RejectBlock
  <2>2. Failed' = Failed \cup {b}
    BY <2>1 DEF Failed
  <2>3. b \in Chain[b]
    BY ChainFacts
  <2>4. FailureHasCause'
    BY <2>1, <2>2, <2>3 DEF IndexInv, FailureHasCause, Invalid
  <2> QED  BY <2>1, <2>2, <2>4 DEF IndexInv
<1>8. ASSUME NEW t \in Threads, NEW b \in Blocks, PreciousBlock(t, b) PROVE IndexInv'
  BY <1>1, <1>8 DEF PreciousBlock, flags, index
<1>9. CASE UNCHANGED vars
  BY <1>1, <1>9 DEF vars, flags, index
<1>10. /\ \A b \in Blocks : ~PruneBlock(b)
       /\ \A t \in Threads, b \in Blocks : ~InvalidateBlock(t, b) /\ ~ReconsiderBlock(t, b)
  BY DEF PruneBlock, InvalidateBlock, ReconsiderBlock
<1> QED  BY <1>2, <1>3, <1>4, <1>5, <1>6, <1>7, <1>8, <1>9, <1>10
         DEF Next, ReceiveAndActivate

\* A block whose ancestors all have been processed is linked: along its chain no block
\* waits, since the block below is linked, and none was left out for a parent that
\* failed, since that one has no transactions.
LEMMA ProcessedLinked ==
    ASSUME BaseInv, IndexInv
    PROVE  \A b \in Blocks : b \in linked <=> Chain[b] \subseteq processed
<1> DEFINE S == {b \in Blocks : Chain[b] \subseteq processed => b \in linked}
<1>1. Genesis \in S /\ S \in SUBSET Blocks
  BY ChainFacts DEF BaseInv
<1>2. ASSUME NEW b \in Blocks \ {Genesis}, Parent[b] \in S PROVE b \in S
  <2> SUFFICES ASSUME Chain[b] \subseteq processed PROVE b \in linked
    OBVIOUS
  <2>1. b \in Chain[b] /\ Parent[b] \in Chain[b] /\ Parent[b] \in Blocks
        /\ Chain[Parent[b]] \subseteq Chain[b]
    BY ChainFacts
  <2>2. Parent[b] \in linked /\ b \in processed /\ Parent[b] \in processed
    BY <1>2, <2>1
  <2>3. ~WaitsIn(unlinked, b)
    BY <2>1, <2>2 DEF WaitsIn, BaseInv
  <2>4. Parent[b] \notin BadContext
    BY <2>2 DEF BaseInv
  <2> QED  BY <2>2, <2>3, <2>4 DEF IndexInv
<1> HIDE DEF S
<1>3. S = Blocks
  BY <1>1, <1>2, DescentAssumption
<1>4. \A b \in linked : b \in Blocks /\ Chain[b] \subseteq processed
  BY DEF BaseInv
<1> QED  BY <1>3, <1>4 DEF S

\* The checks of CheckBlockIndex follow.
LEMMA IndexChecked ==
    ASSUME BaseInv, IndexInv
    PROVE  CheckBlockIndex /\ ActiveChainSound
<1>0. /\ known \subseteq Blocks /\ haveData = processed /\ linked \subseteq processed
      /\ tip \in linked /\ Chain[tip] \subseteq processed
      /\ \A b \in linked : Chain[b] \subseteq linked
  BY DEF BaseInv
<1>1. \A b \in Blocks : b \in linked <=> ~NeverProcessed(b)
  BY ProcessedLinked DEF NeverProcessed
<1>2. IndexConsistent
  <2> SUFFICES ASSUME NEW b \in known
               PROVE  /\ b \in linked <=> ~NeverProcessed(b)
                      /\ b \notin linked => seqId[b] <= 0
                      /\ b \in scripts => Chain[b] \subseteq scripts
                      /\ ~havePruned => (b \in haveData <=> b \in processed)
    BY DEF IndexConsistent
  <2>1. b \in linked <=> ~NeverProcessed(b)
    BY <1>0, <1>1
  <2>2. b \notin linked => seqId[b] <= 0
    BY <1>0 DEF BaseInv
  <2>3. b \in scripts => Chain[b] \subseteq scripts
    BY DEF IndexInv
  <2> QED  BY <1>0, <2>1, <2>2, <2>3
<1>3. UnlinkedExact
  <2> SUFFICES ASSUME NEW b \in known \ {Genesis}
               PROVE  /\ b \in haveData /\ NeverProcessed(b) /\ ~Invalid(b) => Waiting(b)
                      /\ b \notin haveData \/ ~Missing(b) => ~Waiting(b)
                      /\ b \in haveData /\ ~NeverProcessed(b) => ~Missing(b)
    BY DEF UnlinkedExact
  <2>1. b \in Blocks /\ Parent[b] \in Blocks /\ b \in Chain[b] /\ Parent[b] \in Chain[b]
        /\ Chain[Parent[b]] \subseteq Chain[b]
    BY <1>0, ChainFacts
  <2>2. Waiting(b) <=> WaitsIn(unlinked, b)
    BY DEF Waiting, WaitsIn
  <2>3. Missing(b) <=> NeverProcessed(b)
    BY <1>0 DEF Missing, NeverProcessed
  <2>4. ASSUME b \in haveData, NeverProcessed(b), ~Invalid(b) PROVE WaitsIn(unlinked, b)
    <3>1. b \in processed \ linked
      BY <1>0, <1>1, <2>1, <2>4
    <3>2. Parent[b] \notin Failed
      BY <2>1, <2>4 DEF IndexInv, FailureHasCause, Invalid
    <3> QED  BY <3>1, <3>2 DEF IndexInv
  <2>5. ASSUME WaitsIn(unlinked, b) PROVE b \in haveData /\ NeverProcessed(b)
    <3>1. b \in processed /\ Parent[b] \notin linked
      BY <2>1, <2>5 DEF WaitsIn, BaseInv
    <3>2. b \notin linked
      BY <1>0, <2>1, <3>1
    <3> QED  BY <1>0, <1>1, <2>1, <3>1, <3>2
  <2> QED  BY <2>2, <2>3, <2>4, <2>5
<1>4. ActiveChainValid
  <2>1. Chain[tip] \cap (failedValid \cup failedChild) = {}
    <3>1. /\ failedValid \subseteq BadContext \cup BadConnect /\ Chain[tip] \cap BadConnect = {}
          /\ \A b \in failedValid \cup failedChild : Chain[b] \cap failedValid # {}
      BY DEF IndexInv, FailureHasCause, Invalid, Failed
    <3> QED  BY <1>0, <3>1, NoVerdict
  <2> QED  BY <2>1 DEF ActiveChainValid, Failed
<1>5. RecentBlocksKept
  BY <1>0 DEF RecentBlocksKept
<1> QED  BY <1>2, <1>3, <1>4, <1>5 DEF CheckBlockIndex, ActiveChainSound, IndexInv

\* Whatever number of threads receives and activates blocks, in whatever order their
\* critical sections follow each other, the index passes the checks of CheckBlockIndex
\* and the active chain holds no block that is marked as failed.  No block is pruned,
\* invalidated or reconsidered by a call: with the last two the checks need not hold.
THEOREM IndexSound ==
    ASSUME Operations \subseteq {"precious"}
    PROVE  Spec => [](CheckBlockIndex /\ ActiveChainSound)
<1>0. "prune" \notin Operations
  OBVIOUS
<1>1. Init => BaseInv /\ IndexInv
  <2> SUFFICES ASSUME Init PROVE BaseInv /\ IndexInv
    OBVIOUS
  <2>1. BaseInv
    BY BaseInit
  <2>2. /\ Failed = {} /\ failedValid = {} /\ tip = Genesis /\ scripts = {Genesis}
        /\ processed = {Genesis} /\ linked = {Genesis}
    BY DEF Init, Failed
  <2>3. Chain[Genesis] = {Genesis} /\ Genesis \notin BadConnect
    BY ChainFacts, TreeAssumption
  <2> QED  BY <2>1, <2>2, <2>3 DEF IndexInv, FailureHasCause
<1>2. BaseInv /\ IndexInv /\ [Next]_vars => BaseInv' /\ IndexInv'
  BY <1>0, BaseNext, IndexNext
<1>3. BaseInv /\ IndexInv => CheckBlockIndex /\ ActiveChainSound
  BY IndexChecked
<1> QED  BY <1>1, <1>2, <1>3, PTL DEF Spec

=============================================================================
