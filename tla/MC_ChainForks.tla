--------------------------- MODULE MC_ChainForks ---------------------------
(* One thread and the operations that only one caller at a time uses: a     *)
(* behaviour prunes, or invalidates blocks, or makes some precious, or      *)
(* invalidates and reconsiders, each over a part of the tree.               *)
EXTENDS MC_BlockChain

VARIABLE part

\* The four kinds of behaviour, and the blocks that exist in each.
Parts == {"prune", "invalidate", "precious", "reconsider"}
BlocksOf(p) == IF p = "prune" THEN Blocks \ {a1} ELSE {g, a1, b1, b2, c2}

ForksInit == Init /\ part \in Parts

ForksNext ==
    /\ UNCHANGED part
    /\ \/ ReceiveAndActivate
       \/ part = "prune" /\ \E b \in Blocks : PruneBlock(b)
       \/ /\ part = "invalidate"
          /\ \E t \in Threads, b \in Blocks : InvalidateBlock(t, b)
       \/ /\ part = "precious"
          /\ \E t \in Threads, b \in Blocks : PreciousBlock(t, b)
       \/ /\ part = "reconsider"
          /\ \E t \in Threads, b \in Blocks : InvalidateBlock(t, b) \/ ReconsiderBlock(t, b)
    /\ known' \subseteq BlocksOf(part)

ForksSpec == ForksInit /\ [][ForksNext]_<<part, vars>>

-----------------------------------------------------------------------------
\* What CheckBlockIndex asserts of the failure flags, of mapBlocksUnlinked and
\* of setBlockIndexCandidates, after any sequence of prunings, of invalidations or
\* of preciousblock calls.  When blocks are reconsidered the candidates are not
\* exact: ResetBlockFailureFlags adds blocks that may sort below the tip.
ForkCheckBlockIndex ==
    part # "reconsider" => FailureHasCause /\ UnlinkedExact /\ CandidatesExact

\* The best usable chain is active ("The result is either failure or an
\* activated best chain"), after any such sequence.
ForkBestChainWhenIdle == part # "reconsider" => BestChainWhenIdle
=============================================================================
