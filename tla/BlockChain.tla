----------------------------- MODULE BlockChain -----------------------------
(***************************************************************************)
(* Block acceptance and chain selection (validation.cpp).                  *)
(*                                                                         *)
(* The block index is a growing part of a fixed tree of blocks.  Every     *)
(* thread that changes the index (message handler, RPC, miner) does so     *)
(* under cs_main and then runs ActivateBestChain, which RELEASES cs_main   *)
(* between the calls of ActivateBestChainStep while keeping its target     *)
(* pindexMostWork.  One action is one cs_main critical section.            *)
(***************************************************************************)
EXTENDS Integers, Sequences, FiniteSets, Functions

CONSTANTS
    Blocks,        \* the block tree
    Genesis,       \* its root
    Parent,        \* CBlockIndex::pprev, on Blocks \ {Genesis}
    Proof,         \* GetBlockProof of each block
    Ptr,           \* address of its CBlockIndex, the last tie breaker
    BadContext,    \* blocks that ContextualCheckBlock rejects
    BadConnect,    \* blocks that ConnectBlock rejects
    Damaged,       \* blocks that are read back from disk with another body
    Threads,       \* threads that call into validation
    Operations,    \* subset of {"invalidate", "reconsider", "precious", "prune"}
    MinBlocksToKeep,
    MaxSequenceId, \* bound: blocks processed
    MaxPrecious,   \* bound: preciousblock calls
    NoBlock        \* nullptr

ASSUME TreeAssumption ==
    /\ Genesis \in Blocks /\ NoBlock \notin Blocks
    /\ Parent \in [Blocks \ {Genesis} -> Blocks]
    /\ Proof \in [Blocks -> Nat \ {0}]
    /\ Ptr \in [Blocks -> Int] /\ \A a, b \in Blocks : Ptr[a] = Ptr[b] => a = b
    /\ Genesis \notin BadContext \cup BadConnect
    /\ IsFiniteSet(Blocks)
    /\ MinBlocksToKeep \in Nat

\* Every block descends from the genesis block.
ASSUME DescentAssumption ==
    \A S \in SUBSET Blocks :
        /\ Genesis \in S
        /\ \A b \in Blocks \ {Genesis} : Parent[b] \in S => b \in S
        => S = Blocks

VARIABLES
    known,         \* mapBlockIndex
    haveData,      \* BLOCK_HAVE_DATA (and, once connected, BLOCK_HAVE_UNDO)
    failedValid,   \* BLOCK_FAILED_VALID
    failedChild,   \* BLOCK_FAILED_CHILD
    processed,     \* nTx > 0; validity is then at least BLOCK_VALID_TRANSACTIONS
    scripts,       \* validity is BLOCK_VALID_SCRIPTS
    linked,        \* nChainTx # 0
    seqId,         \* nSequenceId
    candidates,    \* setBlockIndexCandidates
    unlinked,      \* mapBlocksUnlinked: the blocks that wait for the data of a
                   \* block or of its ancestors, under it, in insertion order
    tip,           \* chainActive.Tip()
    havePruned,    \* fHavePruned
    nextSeq,       \* nBlockSequenceId
    reverseSeq,    \* nBlockReverseSequenceId
    preciousWork,  \* nLastPreciousChainwork
    phase,         \* per thread: "idle" or where it is in ActivateBestChain:
                   \* before a step ("loop"), or in the notifications after
                   \* one ("notify", "last" when the loop then ends)
    mostWork,      \* per thread: pindexMostWork
    halted         \* AbortNode was called

index == <<known, haveData, processed, scripts, linked, havePruned>>
flags == <<failedValid, failedChild>>
order == <<seqId, nextSeq, reverseSeq, preciousWork>>
threads == <<phase, mostWork>>
vars == <<index, flags, order, candidates, unlinked, tip, threads, halted>>

----------------------------------------------------------------------------
(* The tree. *)

\* The block and all its ancestors; GetAncestor and chainActive.Contains.
Chain[b \in Blocks] == {b} \cup (IF b = Genesis THEN {} ELSE Chain[Parent[b]])

Height(b) == Cardinality(Chain[b]) - 1

\* nChainWork, set once by AddToBlockIndex.
ChainWork[b \in Blocks] ==
    Proof[b] + (IF b = Genesis THEN 0 ELSE ChainWork[Parent[b]])

Failed == failedValid \cup failedChild

\* CBlockIndexWorkComparator, for given sequence numbers: a sorts before b.
WorseWith(seq, a, b) ==
    \/ ChainWork[a] < ChainWork[b]
    \/ ChainWork[a] = ChainWork[b] /\ seq[a] > seq[b]
    \/ ChainWork[a] = ChainWork[b] /\ seq[a] = seq[b] /\ Ptr[a] > Ptr[b]

Worse(a, b) == WorseWith(seqId, a, b)

\* *setBlockIndexCandidates.rbegin()
Best(S) == CHOOSE b \in S : \A c \in S : ~Worse(b, c)

\* Mutant: the candidates are not pruned when the tip improves.
NotWorseKeepAll(S, seq, t) == S

\* PruneBlockIndexCandidates for a new tip t.
NotWorse(S, seq, t) == {b \in S : ~WorseWith(seq, b, t)}

----------------------------------------------------------------------------
(* Accepting headers and blocks. *)

\* AcceptBlockHeader succeeds: a known header must not have failed, a new one
\* needs a parent that is known and has not failed.
HeaderAccepted(b) ==
    IF b \in known THEN b \notin Failed
    ELSE Parent[b] \in known /\ Parent[b] \notin Failed

\* AcceptBlock stops before storing the block.
AlreadyHaveOrUnwanted(b, requested) ==
    \/ b \in haveData
    \/ /\ ~requested
       /\ \/ b \in processed
          \/ ChainWork[b] <= ChainWork[tip]
          \/ Height(b) > Height(tip) + MinBlocksToKeep

\* Mutant: what waited for the block is queued but stays in mapBlocksUnlinked.
LinkFirstKeepUnlinked(s) ==
    IF s.queue = <<>> THEN s
    ELSE LET b == Head(s.queue)
         IN [s EXCEPT !.queue = Tail(@) \o s.unlinked[b],
                      !.linked = @ \cup {b}, !.next = @ + 1,
                      !.seq[b] = s.next, !.cands = @ \cup {b}]

\* One round of the queue in ReceivedBlockTransactions: link the first block,
\* number it, make it a candidate and release what waited for it.
LinkFirst(s) ==
    IF s.queue = <<>> THEN s
    ELSE LET b == Head(s.queue)
             seq == [s.seq EXCEPT ![b] = s.next]
         IN [queue  |-> Tail(s.queue) \o s.unlinked[b],
             unlinked |-> [s.unlinked EXCEPT ![b] = <<>>],
             linked |-> s.linked \cup {b},
             seq    |-> seq,
             next   |-> s.next + 1,
             cands  |-> IF WorseWith(seq, b, tip) THEN s.cands
                        ELSE s.cands \cup {b}]

\* The entries of mapBlocksUnlinked.
Entries(waiting) == UNION {{p} \X DOMAIN waiting[p] : p \in Blocks}

\* ReceivedBlockTransactions(b): the new queue state after all rounds.  Every
\* round but the first takes an entry out of mapBlocksUnlinked.
Received(b) ==
    LET start == [queue |-> <<b>>, unlinked |-> unlinked,
                  linked |-> linked \ {b}, seq |-> seqId,
                  next |-> nextSeq, cands |-> candidates]
        last == Cardinality(Entries(unlinked)) + 1
        rounds[n \in 0 .. last] ==
            IF n = 0 THEN start ELSE LinkFirst(rounds[n - 1])
    IN IF b = Genesis \/ Parent[b] \in linked THEN rounds[last]
       ELSE IF Parent[b] \in Failed THEN start
       ELSE [start EXCEPT !.unlinked[Parent[b]] = Append(@, b)]

StoreBlock(b) ==
    LET r == Received(b)
    IN /\ r.next <= MaxSequenceId + 1
       /\ haveData' = haveData \cup {b}
       /\ processed' = processed \cup {b}
       /\ linked' = r.linked
       /\ unlinked' = r.unlinked
       /\ candidates' = r.cands
       /\ seqId' = r.seq
       /\ nextSeq' = r.next

StartActivation(t) ==
    /\ phase' = [phase EXCEPT ![t] = "loop"]
    /\ mostWork' = [mostWork EXCEPT ![t] = NoBlock]

\* ProcessNewBlockHeaders for one new header.
AcceptHeader(b) ==
    /\ ~halted
    /\ b \notin known /\ HeaderAccepted(b)
    /\ known' = known \cup {b}
    /\ UNCHANGED <<haveData, processed, scripts, linked, havePruned, flags,
                   order, candidates, unlinked, tip, threads, halted>>

\* ProcessNewBlock whose AcceptBlock stores nothing: it already has the block
\* or did not ask for it.  ActivateBestChain runs all the same.
ProcessKnownBlock(t, b, requested) ==
    /\ ~halted /\ phase[t] = "idle"
    /\ HeaderAccepted(b) /\ AlreadyHaveOrUnwanted(b, requested)
    /\ known' = known \cup {b}
    /\ StartActivation(t)
    /\ UNCHANGED <<haveData, processed, scripts, linked, havePruned, flags,
                   order, candidates, unlinked, tip, halted>>

\* ProcessNewBlock of a block that AcceptBlock stores.
ProcessNewBlock(t, b, requested) ==
    /\ ~halted /\ phase[t] = "idle"
    /\ HeaderAccepted(b) /\ ~AlreadyHaveOrUnwanted(b, requested)
    /\ b \notin BadContext
    /\ known' = known \cup {b}
    /\ StoreBlock(b)
    /\ StartActivation(t)
    /\ UNCHANGED <<scripts, havePruned, flags, reverseSeq, preciousWork, tip, halted>>

\* ProcessNewBlock of a block that ContextualCheckBlock rejects: the header
\* stays in the index, marked, and ActivateBestChain does not run.
RejectBlock(t, b, requested) ==
    /\ ~halted /\ phase[t] = "idle"
    /\ HeaderAccepted(b) /\ ~AlreadyHaveOrUnwanted(b, requested)
    /\ b \in BadContext
    /\ known' = known \cup {b}
    /\ failedValid' = failedValid \cup {b}
    /\ UNCHANGED <<haveData, processed, scripts, linked, havePruned, failedChild,
                   order, candidates, unlinked, tip, threads, halted>>

----------------------------------------------------------------------------
(* Choosing and activating a chain. *)

\* The blocks above the active chain on the way to b.
Branch(b) == Chain[b] \ Chain[tip]

Highest(S) == CHOOSE b \in S : \A c \in S : Height(c) <= Height(b)
Lowest(S) == CHOOSE b \in S : \A c \in S : Height(b) <= Height(c)

\* Each block of S put into mapBlocksUnlinked, under its parent.
Unlink(waiting, S) ==
    [p \in Blocks |-> IF \E c \in S : Parent[c] = p
                      THEN Append(waiting[p], CHOOSE c \in S : Parent[c] = p)
                      ELSE waiting[p]]

\* Mutant: the failure flags of the branch are not looked at.
DropUnusableIgnoreFailed(s) ==
    IF s.cands = {} \/ Branch(Best(s.cands)) \subseteq haveData THEN s
    ELSE [s EXCEPT !.cands = @ \ {Best(s.cands)}]

\* Mutant: blocks above missing data leave the candidates and are forgotten.
DropUnusableForget(s) ==
    IF s.cands = {} THEN s
    ELSE LET branch == Branch(Best(s.cands))
         IN IF branch \cap Failed = {} /\ branch \subseteq haveData THEN s
            ELSE [s EXCEPT !.cands = @ \ branch]

\* One round of FindMostWorkChain: drop the best candidate if a block of its
\* branch failed or has no data, together with the blocks down to that one.
DropUnusable(s) ==
    IF s.cands = {} THEN s
    ELSE LET best == Best(s.cands)
             unusable == {b \in Branch(best) :
                            b \in failedValid \cup s.failed \/ b \notin haveData}
         IN IF unusable = {} THEN s
            ELSE LET stop == Highest(unusable)
                     above == {b \in Branch(best) : Height(b) > Height(stop)}
                     invalid == stop \in failedValid \cup s.failed
                 IN [cands |-> s.cands \ (above \cup {stop}),
                     failed |-> IF invalid THEN s.failed \cup above ELSE s.failed,
                     unlinked |-> IF invalid THEN s.unlinked
                                  ELSE Unlink(s.unlinked, above)]

FindMostWorkChain ==
    LET start == [cands |-> candidates, failed |-> failedChild,
                  unlinked |-> unlinked]
        rounds[n \in 0 .. Cardinality(candidates)] ==
            IF n = 0 THEN start ELSE DropUnusable(rounds[n - 1])
    IN rounds[Cardinality(candidates)]

\* Where ActivateBestChainStep stops on its way to `target': the first block
\* that fails, that makes the tip better than the old one, or the target.
StopAt(target, damaged) ==
    Lowest({b \in Branch(target) : \/ b \in BadConnect \cup damaged
                                   \/ ChainWork[b] > ChainWork[tip]
                                   \/ b = target})

\* Mutant: every failure counts as possible corruption of the data.
InvalidBlockFoundIgnore(cands, b, damaged) == [failed |-> failedValid, cands |-> cands]

\* InvalidBlockFound and InvalidChainFound.  When the body does not match the Merkle
\* root the data may be corrupt (CorruptionPossible): nothing is marked then.
InvalidBlockFound(cands, b, damaged) ==
    IF b \in damaged THEN [failed |-> failedValid, cands |-> cands]
    ELSE [failed |-> failedValid \cup {b}, cands |-> cands \ {b}]

\* Mutant: ActivateBestChain returns after an invalid block.
LoopDoneOnInvalid(newTip, target, invalidFound) == newTip = target \/ invalidFound

\* The loop of ActivateBestChain ends: pindexNewTip = pindexMostWork, which
\* is wiped when an invalid block was found.
LoopDone(newTip, target, invalidFound) == newTip = target /\ ~invalidFound

\* ActivateBestChainStep(target), on the candidates and flags f left by
\* FindMostWorkChain.  ConnectTip marks a block that fails, drops it from the
\* candidates (unless its data may be corrupt) and leaves its parent as the tip.
ActivateBestChainStep(t, target, f, damaged) ==
    LET stop == StopAt(target, damaged)
        invalidFound == Branch(target) # {} /\ stop \in BadConnect \cup damaged
        fork == Highest(Chain[target] \cap Chain[tip])
        newTip == IF Branch(target) = {} THEN target
                  ELSE IF invalidFound THEN Parent[stop] ELSE stop
        connected == Chain[newTip] \ Chain[tip]
        found == IF invalidFound THEN InvalidBlockFound(f.cands, stop, damaged)
                 ELSE [failed |-> failedValid, cands |-> f.cands]
        done == LoopDone(newTip, target, invalidFound)
    IN /\ tip' = newTip
       /\ scripts' = scripts \cup (connected \ (failedValid \cup f.failed))
       /\ failedValid' = found.failed
       /\ candidates' = IF newTip = fork THEN found.cands
                        ELSE NotWorse(found.cands, seqId, newTip)
       /\ mostWork' = [mostWork EXCEPT ![t] = IF done \/ invalidFound THEN NoBlock
                                              ELSE target]
       /\ phase' = [phase EXCEPT ![t] = IF done THEN "last" ELSE "notify"]

\* A block that the step must disconnect or connect has been pruned:
\* ReadBlockFromDisk or the undo data fails and AbortNode is called.
StepReadsMissing(target, damaged) ==
    \/ Chain[tip] \ Chain[target] \notin SUBSET haveData
    \/ /\ Branch(target) # {}
       /\ Chain[StopAt(target, damaged)] \ Chain[tip] \notin SUBSET haveData

\* The part of the loop in ActivateBestChain that holds cs_main.  The body of the
\* target itself may be at hand in memory (pblock), all others are read from disk.
Activate(t) ==
    /\ ~halted /\ phase[t] = "loop"
    /\ LET keep == [cands |-> candidates, failed |-> failedChild, unlinked |-> unlinked]
           f == IF mostWork[t] = NoBlock THEN FindMostWorkChain ELSE keep
           target == IF mostWork[t] # NoBlock THEN mostWork[t]
                     ELSE IF f.cands = {} THEN NoBlock ELSE Best(f.cands)
       IN /\ failedChild' = f.failed
          /\ unlinked' = f.unlinked
          /\ \/ /\ target \in {NoBlock, tip}
                /\ candidates' = f.cands
                /\ phase' = [phase EXCEPT ![t] = "idle"]
                /\ mostWork' = [mostWork EXCEPT ![t] = NoBlock]
                /\ UNCHANGED <<scripts, failedValid, tip, halted>>
             \/ \E damaged \in {Damaged, Damaged \ {target}} :
                /\ target \notin {NoBlock, tip}
                /\ ~StepReadsMissing(target, damaged)
                /\ ActivateBestChainStep(t, target, f, damaged)
                /\ UNCHANGED halted
             \/ \E damaged \in {Damaged, Damaged \ {target}} :
                /\ target \notin {NoBlock, tip}
                /\ StepReadsMissing(target, damaged)
                /\ halted' = TRUE
                /\ candidates' = f.cands
                /\ UNCHANGED <<scripts, failedValid, tip, threads>>
    /\ UNCHANGED <<known, haveData, processed, linked, havePruned, order>>

\* The listeners were told about the new tip, without cs_main, and the loop
\* condition is tested.
Notified(t) ==
    /\ ~halted /\ phase[t] \in {"notify", "last"}
    /\ phase' = [phase EXCEPT ![t] = IF @ = "last" THEN "idle" ELSE "loop"]
    /\ UNCHANGED <<index, flags, order, candidates, unlinked, tip, mostWork, halted>>

----------------------------------------------------------------------------
(* The RPC calls invalidateblock, reconsiderblock and preciousblock. *)

\* Mutant: the candidates are not filled up after blocks were disconnected.
RefillNothing(newTip, excluded) == {}

\* The blocks InvalidateBlock puts back into the candidates.
Refill(newTip, excluded) ==
    {c \in (processed \cap linked) \ excluded : c \notin Failed /\ ~Worse(c, newTip)}

\* InvalidateBlock: every active block from the tip down to b is marked and
\* disconnected, and the candidates are filled up for the lower tip.
InvalidateBlock(t, b) ==
    /\ "invalidate" \in Operations
    /\ ~halted /\ phase[t] = "idle"
    /\ b \in known \ {Genesis}
    /\ LET undone == IF b \in Chain[tip]
                     THEN {c \in Chain[tip] : b \in Chain[c]} ELSE {}
           newTip == IF undone = {} THEN tip ELSE Parent[b]
       IN /\ failedValid' = failedValid \cup {b}
          /\ failedChild' = failedChild \cup undone
          /\ IF undone \subseteq haveData
             THEN /\ tip' = newTip
                  /\ candidates' =
                       (candidates \ (undone \cup {b})) \cup Refill(newTip, undone \cup {b})
                  /\ StartActivation(t)
                  /\ UNCHANGED halted
             ELSE halted' = TRUE /\ UNCHANGED <<tip, candidates, threads>>
    /\ UNCHANGED <<index, order, unlinked>>

\* ResetBlockFailureFlags: clears b, its descendants and its ancestors.
ReconsiderBlock(t, b) ==
    /\ "reconsider" \in Operations
    /\ ~halted /\ phase[t] = "idle"
    /\ b \in known
    /\ LET below == {c \in known \cap Failed : b \in Chain[c]}
           cleared == below \cup Chain[b]
       IN /\ failedValid' = failedValid \ cleared
          /\ failedChild' = failedChild \ cleared
          /\ candidates' = candidates \cup
               {c \in below \cap processed \cap linked : Worse(tip, c)}
    /\ StartActivation(t)
    /\ UNCHANGED <<index, order, unlinked, tip, halted>>

\* PreciousBlock of a block at least as good as the tip.
PreciousBlock(t, b) ==
    /\ "precious" \in Operations
    /\ ~halted /\ phase[t] = "idle"
    /\ b \in known
    /\ ChainWork[b] >= ChainWork[tip]
    /\ LET id == IF ChainWork[tip] > preciousWork THEN -1 ELSE reverseSeq
           seq == [seqId EXCEPT ![b] = id]
       IN /\ id >= -MaxPrecious
          /\ seqId' = seq
          /\ reverseSeq' = id - 1
          /\ preciousWork' = ChainWork[tip]
          /\ candidates' = IF b \in (processed \cap linked) \ Failed
                           THEN NotWorse(candidates \cup {b}, seq, tip)
                           ELSE candidates \ {b}
    /\ StartActivation(t)
    /\ UNCHANGED <<index, flags, nextSeq, unlinked, tip, halted>>

\* Mutant: one block too many is pruned.
PrunableOffByOne(b) == Height(b) <= Height(tip) - MinBlocksToKeep + 1

\* nHeightLast <= nLastBlockWeCanPrune in FindFilesToPrune.
Prunable(b) == Height(b) <= Height(tip) - MinBlocksToKeep

\* PruneOneBlockFile of a file that holds just b (called by FlushStateToDisk).
PruneBlock(b) ==
    /\ "prune" \in Operations
    /\ ~halted
    /\ b \in haveData
    /\ Prunable(b)
    /\ haveData' = haveData \ {b}
    /\ unlinked' = [p \in Blocks |-> SelectSeq(unlinked[p], LAMBDA c : c # b)]
    /\ havePruned' = TRUE
    /\ UNCHANGED <<known, processed, scripts, linked, flags, order, candidates,
                   tip, threads, halted>>

----------------------------------------------------------------------------
\* After InitBlockIndex and the activation of the genesis block.
Init ==
    /\ known = {Genesis} /\ haveData = {Genesis} /\ processed = {Genesis}
    /\ scripts = {Genesis} /\ linked = {Genesis} /\ candidates = {Genesis}
    /\ failedValid = {} /\ failedChild = {}
    /\ unlinked = [p \in Blocks |-> <<>>]
    /\ tip = Genesis
    /\ seqId = [b \in Blocks |-> IF b = Genesis THEN 1 ELSE 0]
    /\ nextSeq = 2 /\ reverseSeq = -1 /\ preciousWork = 0
    /\ havePruned = FALSE /\ halted = FALSE
    /\ phase = [t \in Threads |-> "idle"] /\ mostWork = [t \in Threads |-> NoBlock]

\* What the node does with the headers and blocks that it is given.
ReceiveAndActivate ==
    \/ \E b \in Blocks : AcceptHeader(b)
    \/ \E t \in Threads :
        \/ Activate(t) \/ Notified(t)
        \/ \E b \in Blocks, requested \in BOOLEAN :
            \/ ProcessKnownBlock(t, b, requested)
            \/ ProcessNewBlock(t, b, requested)
            \/ RejectBlock(t, b, requested)

Next ==
    \/ ReceiveAndActivate
    \/ \E b \in Blocks : PruneBlock(b)
    \/ \E t \in Threads, b \in Blocks :
        InvalidateBlock(t, b) \/ ReconsiderBlock(t, b) \/ PreciousBlock(t, b)

Spec == Init /\ [][Next]_vars

\* A thread inside ActivateBestChain keeps being scheduled and gets cs_main.
\* Both steps change the phase, so this is weak fairness of the two.
Scheduled ==
    \A t \in Threads :
        \/ []<>(phase[t] = "idle" \/ halted)
        \/ []<><<Activate(t) \/ Notified(t)>>_vars

\* Blocks arrive and are activated, and nobody prunes or calls an RPC.
FairSpec == Init /\ [][ReceiveAndActivate]_vars /\ Scheduled

----------------------------------------------------------------------------
(* Properties. *)

\* The parts of the index nest as the status bits of chain.h do, and a target
\* or a tip is always a block of the index.
TypeOK ==
    /\ known \subseteq Blocks /\ tip \in known
    /\ haveData \subseteq processed /\ processed \subseteq known
    /\ linked \subseteq known /\ scripts \subseteq processed
    /\ failedValid \subseteq known /\ failedChild \subseteq known
    /\ candidates \subseteq linked
    /\ seqId \in [Blocks -> Int] /\ nextSeq \in Nat /\ reverseSeq \in Int
    /\ preciousWork \in Nat
    /\ unlinked \in [Blocks -> Seq(known)]
    /\ phase \in [Threads -> {"idle", "loop", "notify", "last"}]
    /\ mostWork \in [Threads -> known \cup {NoBlock}]
    /\ havePruned \in BOOLEAN /\ halted \in BOOLEAN

\* No thread is inside ActivateBestChain.
Idle == \A t \in Threads : phase[t] = "idle"

\* The first ancestors that CheckBlockIndex tracks while it walks the tree.
NeverProcessed(b) == Chain[b] \notin SUBSET processed
Missing(b) == Chain[b] \notin SUBSET haveData
Invalid(b) == Chain[b] \cap failedValid # {}

\* nChainTx, nSequenceId and the validity levels tell the truth about the
\* ancestors: a block is linked exactly when every ancestor's transactions were
\* received, only linked blocks have a positive number, script validity is
\* closed under parents, and without pruning data is lost for no block
\* (CheckBlockIndex, the assertions on nChainTx, nSequenceId, BLOCK_HAVE_DATA).
IndexConsistent ==
    \A b \in known :
        /\ b \in linked <=> ~NeverProcessed(b)
        /\ b \notin linked => seqId[b] <= 0
        /\ b \in scripts => Chain[b] \subseteq scripts
        /\ ~havePruned => (b \in haveData <=> b \in processed)

\* A failure flag always has a reason: some block of the chain is itself marked
\* invalid ("The failed mask cannot be set for blocks without invalid parents",
\* CheckBlockIndex).
FailureHasCause == \A b \in Failed : Invalid(b)

\* setBlockIndexCandidates holds every block that could become the tip and no
\* block that sorts below it (CheckBlockIndex): whatever FindMostWorkChain can
\* return is at least as good as the tip, and no better usable chain is missed.
\* It is an invariant of the states without an activation under way: when a
\* block fails in the middle of a reorganisation, the tip is for a moment a
\* block that was never a candidate.
CandidatesExact ==
    Idle /\ ~halted => \A b \in known :
        IF Worse(b, tip) \/ NeverProcessed(b) THEN b \notin candidates
        ELSE ~Invalid(b) /\ (~Missing(b) \/ b = tip) => b \in candidates

\* b is in mapBlocksUnlinked.
Waiting(b) == b # Genesis /\ b \in Range(unlinked[Parent[b]])

\* mapBlocksUnlinked holds the blocks that wait for an ancestor's data, so that
\* they become candidates when it arrives, and no others (CheckBlockIndex).  Of
\* the candidates that were given up for want of pruned data this is said, like
\* CandidatesExact, of the states without an activation under way.
UnlinkedExact ==
    \A b \in known \ {Genesis} :
        /\ b \in haveData /\ NeverProcessed(b) /\ ~Invalid(b) => Waiting(b)
        /\ b \notin haveData \/ ~Missing(b) => ~Waiting(b)
        /\ (/\ Idle /\ ~halted
            /\ b \in haveData /\ ~NeverProcessed(b) /\ Missing(b) /\ ~Invalid(b)
            /\ ~Worse(b, tip) /\ b \notin candidates) => Waiting(b)

\* No block of the active chain is marked as failed: FindMostWorkChain stops at
\* the active chain because "we know all blocks in it are valid already".
ActiveChainValid == Chain[tip] \cap Failed = {}

\* A chain that can be connected completely.
Usable(b) == ~NeverProcessed(b) /\ ~Missing(b) /\ Chain[b] \cap Failed = {}

\* When no thread is inside ActivateBestChain, no usable chain sorts above the
\* active one ("The result is either failure or an activated best chain").
BestChainWhenIdle ==
    Idle /\ ~halted => \A b \in known : Usable(b) => ~Worse(tip, b)

\* Pruning leaves the blocks that a reorganisation of up to MIN_BLOCKS_TO_KEEP
\* blocks disconnects: the top of the active chain keeps its block and undo data
\* (validation.h: "will not be pruned").  When a block fails in the middle of a
\* reorganisation the tip is for a moment lower than it was when blocks were
\* pruned, so this too is said of the states without an activation under way.
RecentBlocksKept ==
    Idle /\ ~halted => \A b \in Chain[tip] :
        Height(b) > Height(tip) - MinBlocksToKeep => b \in haveData

\* The index passes the checks that CheckBlockIndex makes of it at any time,
\* whatever order blocks, failures and prunings come in.
CheckBlockIndex == IndexConsistent /\ FailureHasCause /\ UnlinkedExact

\* The active chain can be built on and its top can be undone: no block of it is
\* marked as failed, and none of the last ones has been pruned.
ActiveChainSound == ActiveChainValid /\ RecentBlocksKept

\* The best candidate is above a block that cannot be read back as it was.
DamagedAhead == candidates # {} /\ Branch(Best(candidates)) \cap Damaged # {}

\* ActivateBestChain returns: it does not chase candidates for ever, although
\* each round may find a block invalid and start over.  The one exception is a
\* best candidate that is damaged on disk or above such a block: nothing is
\* marked, it stays the best candidate, and the loop goes on with it.
ActivationTerminates ==
    \A t \in Threads : []<>(phase[t] = "idle" \/ halted) \/ <>[]DamagedAhead
=============================================================================
