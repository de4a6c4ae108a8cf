------------------------------ MODULE ChainWalk ------------------------------
(***************************************************************************)
(* Ancestors, locators and fork points (chain.cpp, chain.h and             *)
(* FindForkInGlobalIndex of validation.cpp): a skip pointer is built for   *)
(* every block that enters the index, with the ones of its ancestors, and  *)
(* the walks use it to find what two nodes have in common.                 *)
(*                                                                         *)
(* The tree is one trunk that two branches leave.  A block is the pair of  *)
(* its branch (0 for the trunk) and its height.                            *)
(***************************************************************************)
EXTENDS Integers, Sequences, SequencesExt

CONSTANTS
    ForkHeights,   \* where the branches may leave the trunk
    MaxHeight,     \* of the first branch
    MaxSide        \* of the second one

Branches == {0, 1, 2}

VARIABLES
    fork,      \* the height of the last block of the trunk
    pskip,     \* of every block of the index
    vChain     \* the active chain: vChain[h + 1] is the block at height h

walkVars == <<fork, pskip, vChain>>

None == <<-1, -1>>
Height(b) == b[2]
Index == DOMAIN pskip

pprev(b) == IF Height(b) = 0 THEN None
            ELSE IF Height(b) = fork + 1 THEN <<0, fork>> ELSE <<b[1], Height(b) - 1>>

-----------------------------------------------------------------------------
(* The skip list.                                                          *)

\* The number without its lowest bit, n & (n - 1).
InvertLowestOne(n) ==
    IF n = 0 THEN 0
    ELSE n - CHOOSE p \in {2 ^ k : k \in 0..29} : n % p = 0 /\ n % (2 * p) # 0

GetSkipHeight(height) ==
    IF height < 2 THEN 0
    ELSE IF height % 2 = 1 THEN InvertLowestOne(InvertLowestOne(height - 1)) + 1
    ELSE InvertLowestOne(height)

\* The jump is taken whenever there is one.
JumpAlways(walk, heightWalk, height) == pskip[walk] # None

\* Whether pskip is followed: only if pprev->pskip is not better than pskip->pprev.
Jump(walk, heightWalk, height) ==
    LET skip == GetSkipHeight(heightWalk)
        skipPrev == GetSkipHeight(heightWalk - 1)
    IN  /\ pskip[walk] # None
        /\ \/ skip = height
           \/ skip > height /\ ~ (skipPrev < skip - 2 /\ skipPrev >= height)

\* The loop of GetAncestor.  The source counts the height beside the pointer: a
\* jump sets it to GetSkipHeight, and it is compared, not that of the block.
RECURSIVE Walk(_, _, _)
Walk(walk, heightWalk, height) ==
    IF heightWalk <= height THEN walk
    ELSE IF Jump(walk, heightWalk, height) THEN Walk(pskip[walk], GetSkipHeight(heightWalk), height)
    ELSE Walk(pprev(walk), heightWalk - 1, height)

GetAncestor(b, height) ==
    IF height > Height(b) \/ height < 0 THEN None ELSE Walk(b, Height(b), height)

-----------------------------------------------------------------------------
(* The active chain.                                                       *)

InChain(chain, b) == Height(b) < Len(chain) /\ chain[Height(b) + 1] = b

ChainTip(chain) == Last(chain)

\* SetTip: the entries are rewritten from the tip down to the first that is right.
RECURSIVE Rewritten(_, _)
Rewritten(chain, b) ==
    IF b = None THEN chain
    ELSE IF chain[Height(b) + 1] = b THEN chain
    ELSE Rewritten([chain EXCEPT ![Height(b) + 1] = b], pprev(b))

SetTip(chain, b) ==
    Rewritten([i \in 1..(Height(b) + 1) |-> IF i <= Len(chain) THEN chain[i] ELSE None], b)

\* The first ten steps back are of one block.
StepAfter(have, step) == IF have > 10 THEN 2 * step ELSE step

\* The loop of GetLocator, from b on, with the entries that are there already.
RECURSIVE LocatorFrom(_, _, _, _)
LocatorFrom(chain, b, step, vHave) ==
    LET have == Append(vHave, b)
        below == IF Height(b) > step THEN Height(b) - step ELSE 0
        next == IF InChain(chain, b) THEN chain[below + 1] ELSE GetAncestor(b, below)
    IN  IF Height(b) = 0 THEN have
        ELSE LocatorFrom(chain, next, StepAfter(Len(have), step), have)

GetLocator(chain, b) == LocatorFrom(chain, b, 1, <<>>)

\* FindFork, for a block of the index.
RECURSIVE FirstIn(_, _)
FirstIn(chain, b) == IF b = None \/ InChain(chain, b) THEN b ELSE FirstIn(chain, pprev(b))

FindFork(chain, b) ==
    FirstIn(chain, IF Height(b) > Len(chain) - 1 THEN GetAncestor(b, Len(chain) - 1) ELSE b)

\* FindForkInGlobalIndex by a node with the active chain, that knows the given blocks.
FindForkInGlobalIndex(chain, known, locator) ==
    LET Serves(b) == b \in known /\ (InChain(chain, b) \/ GetAncestor(b, Len(chain) - 1) = ChainTip(chain))
        hits == SelectSeq(locator, Serves)
    IN  IF hits = <<>> THEN chain[1]
        ELSE IF InChain(chain, Head(hits)) THEN Head(hits) ELSE ChainTip(chain)

-----------------------------------------------------------------------------
\* The genesis block, with no parent and no skip pointer, is the tip.
WalkInit ==
    /\ fork = 0
    /\ pskip = [b \in {<<0, 0>>} |-> None]
    /\ vChain = <<<<0, 0>>>>

BranchTip(k) ==
    LET heights == {Height(b) : b \in {c \in Index : c[1] = k}}
    IN  IF heights = {} THEN <<0, fork>>
        ELSE <<k, CHOOSE h \in heights : \A i \in heights : i <= h>>

\* BuildSkip, for a block whose parent is in the index.
BuildSkip(b) == GetAncestor(pprev(b), GetSkipHeight(Height(b)))

\* AddToBlockIndex: the trunk grows until a branch leaves it.
AddToBlockIndex(k) ==
    LET b == <<k, Height(BranchTip(k)) + 1>>
    IN  /\ Height(b) <= IF k = 2 THEN MaxSide ELSE MaxHeight
        /\ IF k = 0 THEN /\ \A c \in Index : c[1] = 0
                         /\ \E h \in ForkHeights : fork < h
                         /\ fork' = fork + 1
                    ELSE fork \in ForkHeights /\ UNCHANGED fork
        /\ pskip' = [c \in Index \cup {b} |->
                        IF c # b THEN pskip[c] ELSE BuildSkip(b)]
        /\ UNCHANGED vChain

\* ActivateBestChainStep and its callers: the tip is disconnected or a block that
\* builds on it is connected; LoadChainTip sets a tip with no chain there.
MoveTip ==
    /\ \E b \in Index :
          \/ pprev(b) = ChainTip(vChain) /\ vChain' = SetTip(vChain, b)
          \/ b = pprev(ChainTip(vChain)) /\ vChain' = SetTip(vChain, b)
          \/ b = BranchTip(b[1]) /\ vChain' = SetTip(<<>>, b)
    /\ UNCHANGED <<fork, pskip>>

WalkNext == MoveTip \/ \E k \in Branches : AddToBlockIndex(k)

WalkSpec == WalkInit /\ [][WalkNext]_walkVars

-----------------------------------------------------------------------------
\* The ancestor by the definition, and the last block that two have in common.
AncestorOf(b, h) == IF h <= fork THEN <<0, h>> ELSE <<b[1], h>>
CommonWith(b, c) ==
    IF b[1] = c[1] THEN (IF Height(b) < Height(c) THEN b ELSE c)
    ELSE IF b[1] = 0 THEN b ELSE IF c[1] = 0 THEN c ELSE <<0, fork>>

\* Two nodes find what they have in common.  For the tip or the best header b of a
\* node and the active chain of a peer, whatever else the peer knows: FindFork gives
\* the last common block; the locator finds that block when it is at most eleven
\* blocks below b, and otherwise one that is at most twice as far away, so that a
\* node is never sent much more than it lacks.  The skip pointers lead to the right
\* blocks although they were built when the index was smaller.
ForkFound ==
    LET theirs == ChainTip(vChain)
    IN  \A b \in {BranchTip(k) : k \in Branches} :
          LET common == CommonWith(b, theirs)
              d == Height(b) - Height(common)
          IN  /\ FindFork(vChain, b) = common
              /\ \A h \in 0..Height(b) : GetAncestor(b, h) = AncestorOf(b, h)
              /\ \A own \in {vChain, SetTip(vChain, b)} :
                 \A known \in {Index, Range(vChain)} :
                    LET found == FindForkInGlobalIndex(vChain, known, GetLocator(own, b))
                    IN  /\ found = AncestorOf(theirs, Height(found))
                        /\ Height(found) <= Height(common)
                        /\ d <= 11 => found = common
                        /\ Height(b) - Height(found) <= 2 * d
==============================================================================
