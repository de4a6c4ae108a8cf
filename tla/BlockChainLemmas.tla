-------------------------- MODULE BlockChainLemmas --------------------------
(***************************************************************************)
(* What is proved of module BlockChain, for every finite tree of blocks,   *)
(* every assignment of work, and whatever blocks fail.  Blocks are not     *)
(* pruned in what follows: "prune" \notin Operations.                      *)
(***************************************************************************)
EXTENDS BlockChain, FiniteSetTheorems, WellFoundedInduction, TLAPS

\* c waits in the map u for its parent.
WaitsIn(u, c) == c # Genesis /\ c \in Range(u[Parent[c]])

\* The chain of b holds no block that is marked as failed.
Clean(b) == Chain[b] \cap Failed = {}

\* What holds whatever the threads do: the types, and that the blocks linked to
\* the genesis block are closed under parents.  The tip, the candidates and the
\* targets are among them, and a block waits only for one that is not.
BaseInv ==
    /\ known \in SUBSET Blocks /\ processed \in SUBSET Blocks
    /\ haveData = processed /\ havePruned = FALSE /\ halted = FALSE
    /\ Genesis \in linked /\ linked \in SUBSET processed
    /\ \A b \in linked : Chain[b] \subseteq linked
    /\ processed \cap BadContext = {}
    /\ failedValid \in SUBSET Blocks /\ failedChild \in SUBSET linked
    /\ candidates \in SUBSET linked /\ tip \in linked
    /\ mostWork \in [Threads -> linked \cup {NoBlock}]
    /\ phase \in [Threads -> {"idle", "loop", "notify", "last"}]
    /\ seqId \in [Blocks -> Int] /\ nextSeq \in Nat
    /\ reverseSeq \in Int /\ reverseSeq < 0
    /\ \A b \in Blocks : seqId[b] < nextSeq
    /\ \A b \in Blocks \ linked : seqId[b] <= 0
    /\ unlinked \in [Blocks -> Seq(Blocks)]
    /\ \A p \in Blocks : \A c \in Range(unlinked[p]) :
          c # Genesis /\ Parent[c] = p /\ c \in processed /\ p \notin linked

\* What the flags and mapBlocksUnlinked say as long as no flag is taken back: each
\* flag has a cause, and a block with data that is not linked waits for its parent
\* unless that one has failed.
FlagInv ==
    /\ FailureHasCause
    /\ \A c \in processed \ linked : WaitsIn(unlinked, c) \/ Parent[c] \in Failed

-----------------------------------------------------------------------------
(* The tree of blocks.                                                     *)

\* The function Chain is what its definition says: a block and its ancestors are
\* the least set that contains the block and with each block its parent.
LEMMA ChainEquation ==
    Chain = [b \in Blocks |-> {b} \cup (IF b = Genesis THEN {} ELSE Chain[Parent[b]])]
<1> DEFINE Closed(S) == \A c \in S \ {Genesis} : Parent[c] \in S
           g == [b \in Blocks |-> {x \in Blocks : \A S \in SUBSET Blocks :
                                        b \in S /\ Closed(S) => x \in S}]
<1>1. \A b \in Blocks : g[b] \in SUBSET Blocks /\ Closed(g[b]) /\ b \in g[b]
  BY TreeAssumption
<1>2. \A b \in Blocks \ {Genesis} : g[b] = {b} \cup g[Parent[b]]
  <2> TAKE b \in Blocks \ {Genesis}
  <2> DEFINE p == Parent[b]
  <2>0. p \in Blocks
    BY TreeAssumption
  <2>1. ASSUME NEW x \in g[p] PROVE x \in g[b]
    BY <2>0, <2>1
  <2>2. Closed({b} \cup g[p]) /\ {b} \cup g[p] \in SUBSET Blocks
    BY <1>1, <2>0
  <2>3. ASSUME NEW x \in g[b] PROVE x \in {b} \cup g[p]
    BY <2>2, <2>3
  <2>4. b \in g[b]
    BY <1>1
  <2> HIDE DEF g
  <2> QED  BY <2>1, <2>3, <2>4
<1>3. g[Genesis] = {Genesis}
  <2>1. Closed({Genesis})
    OBVIOUS
  <2>2. ASSUME NEW x \in g[Genesis] PROVE x = Genesis
    <3>1. {Genesis} \in SUBSET Blocks
      BY TreeAssumption
    <3>2. x \in {Genesis}
      BY <2>1, <2>2, <3>1, TreeAssumption
    <3> QED  BY <3>2
  <2>3. Genesis \in g[Genesis]
    BY <1>1, TreeAssumption
  <2> HIDE DEF g
  <2> QED  BY <2>2, <2>3
<1>4. g = [b \in Blocks |-> {b} \cup (IF b = Genesis THEN {} ELSE g[Parent[b]])]
  BY <1>2, <1>3
<1> QED  BY <1>4 DEF Chain

\* The chain of a block is made of blocks and reaches down to the genesis block;
\* with a block it holds the whole chain of that block.
LEMMA ChainFacts ==
    /\ Genesis \in Blocks /\ Chain[Genesis] = {Genesis}
    /\ \A b \in Blocks : /\ b \in Chain[b] /\ Genesis \in Chain[b]
                         /\ Chain[b] \subseteq Blocks
    /\ \A b \in Blocks \ {Genesis} :
          Parent[b] \in Blocks /\ Chain[b] = {b} \cup Chain[Parent[b]]
    /\ \A b \in Blocks : \A c \in Chain[b] : Chain[c] \subseteq Chain[b]
<1>1. Genesis \in Blocks /\ Chain[Genesis] = {Genesis}
  BY ChainEquation, TreeAssumption
<1>2. \A b \in Blocks \ {Genesis} :
         Parent[b] \in Blocks /\ Chain[b] = {b} \cup Chain[Parent[b]]
  BY ChainEquation, TreeAssumption
<1>4. \A b \in Blocks : b \in Chain[b]
  BY <1>1, <1>2
<1> DEFINE S == {b \in Blocks : /\ Genesis \in Chain[b] /\ Chain[b] \subseteq Blocks
                                /\ \A c \in Chain[b] : Chain[c] \subseteq Chain[b]}
<1>3. S = Blocks
  <2>1. S \in SUBSET Blocks /\ Genesis \in S
    BY <1>1
  <2>2. \A b \in Blocks \ {Genesis} : Parent[b] \in S => b \in S
    BY <1>2, <1>4
  <2> HIDE DEF S
  <2> QED  BY <2>1, <2>2, DescentAssumption
<1> QED  BY <1>1, <1>2, <1>3, <1>4

\* Two ancestors of a block lie one below the other.
LEMMA ChainLinear ==
    \A b \in Blocks : \A c, d \in Chain[b] : c \in Chain[d] \/ d \in Chain[c]
<1> DEFINE S == {b \in Blocks : \A c, d \in Chain[b] : c \in Chain[d] \/ d \in Chain[c]}
<1>1. Genesis \in S
  BY ChainFacts
<1>2. \A b \in Blocks \ {Genesis} : Parent[b] \in S => b \in S
  BY ChainFacts
<1>3. S \in SUBSET Blocks
  OBVIOUS
<1> HIDE DEF S
<1>4. S = Blocks
  BY <1>1, <1>2, <1>3, DescentAssumption
<1> QED  BY <1>4 DEF S

\* The function ChainWork is what its definition says: the pairs of a block and
\* its work are the least set that holds the genesis block's and with the pair of
\* a parent those of its children.
LEMMA WorkEquation ==
    ChainWork = [b \in Blocks |-> Proof[b] + (IF b = Genesis THEN 0 ELSE ChainWork[Parent[b]])]
<1> DEFINE Pairs == Blocks \X Nat
           Closed(S) == /\ <<Genesis, Proof[Genesis]>> \in S
                        /\ \A b \in Blocks \ {Genesis}, n \in Nat :
                              <<Parent[b], n>> \in S => <<b, Proof[b] + n>> \in S
           R == {e \in Pairs : \A S \in SUBSET Pairs : Closed(S) => e \in S}
           work(b) == CHOOSE n \in Nat : <<b, n>> \in R
           g == [b \in Blocks |-> work(b)]
<1>0. /\ Genesis \in Blocks /\ Parent \in [Blocks \ {Genesis} -> Blocks]
      /\ \A b \in Blocks : Proof[b] \in Nat
  BY TreeAssumption
<1>1. Closed(R)
  <2>1. <<Genesis, Proof[Genesis]>> \in R
    BY <1>0
  <2>2. ASSUME NEW b \in Blocks \ {Genesis}, NEW n \in Nat, <<Parent[b], n>> \in R
        PROVE  <<b, Proof[b] + n>> \in R
    <3>1. <<b, Proof[b] + n>> \in Pairs
      BY <1>0
    <3>2. ASSUME NEW S \in SUBSET Pairs, Closed(S)
          PROVE  <<b, Proof[b] + n>> \in S
      <4>1. <<Parent[b], n>> \in S
        BY <2>2, <3>2
      <4> QED  BY <3>2, <4>1
    <3> QED  BY <3>1, <3>2
  <2> QED  BY <2>1, <2>2
<1>2. \A n \in Nat : <<Genesis, n>> \in R => n = Proof[Genesis]
  <2> SUFFICES ASSUME NEW n \in Nat, <<Genesis, n>> \in R, n # Proof[Genesis]
               PROVE  FALSE
    OBVIOUS
  <2> DEFINE S == R \ {<<Genesis, n>>}
  <2>1. S \in SUBSET Pairs
    OBVIOUS
  <2>2. Closed(S)
    <3>1. <<Genesis, Proof[Genesis]>> \in S
      BY <1>1
    <3>2. ASSUME NEW b \in Blocks \ {Genesis}, NEW m \in Nat, <<Parent[b], m>> \in S
          PROVE  <<b, Proof[b] + m>> \in S
      BY <1>1, <3>2
    <3> QED  BY <3>1, <3>2
  <2> QED  BY <2>1, <2>2
<1>3. \A b \in Blocks \ {Genesis}, n \in Nat :
         <<b, n>> \in R => \E m \in Nat : <<Parent[b], m>> \in R /\ n = Proof[b] + m
  <2> SUFFICES ASSUME NEW b \in Blocks \ {Genesis}, NEW n \in Nat, <<b, n>> \in R,
                      \A m \in Nat : <<Parent[b], m>> \in R => n # Proof[b] + m
               PROVE  FALSE
    OBVIOUS
  <2> DEFINE S == R \ {<<b, n>>}
  <2>1. S \in SUBSET Pairs
    OBVIOUS
  <2>2. Closed(S)
    <3>1. <<Genesis, Proof[Genesis]>> \in S
      BY <1>1
    <3>2. ASSUME NEW c \in Blocks \ {Genesis}, NEW m \in Nat, <<Parent[c], m>> \in S
          PROVE  <<c, Proof[c] + m>> \in S
      <4>1. <<Parent[c], m>> \in R
        BY <3>2
      <4>2. <<c, Proof[c] + m>> \in R
        BY <1>1, <4>1
      <4>3. <<c, Proof[c] + m>> # <<b, n>>
        BY <4>1
      <4> QED  BY <4>2, <4>3
    <3> QED  BY <3>1, <3>2
  <2> QED  BY <2>1, <2>2
<1> HIDE DEF R
<1> DEFINE One(b) == \E n \in Nat : <<b, n>> \in R /\ \A m \in Nat : <<b, m>> \in R => m = n
           T == {b \in Blocks : One(b)}
<1>4. T = Blocks
  <2>1. T \in SUBSET Blocks
    OBVIOUS
  <2>2. Genesis \in T
    BY <1>0, <1>1, <1>2
  <2>3. ASSUME NEW b \in Blocks \ {Genesis}, Parent[b] \in T PROVE b \in T
    <3>1. PICK n \in Nat : /\ <<Parent[b], n>> \in R
                           /\ \A m \in Nat : <<Parent[b], m>> \in R => m = n
      BY <2>3
    <3>2. <<b, Proof[b] + n>> \in R /\ Proof[b] + n \in Nat
      BY <1>0, <1>1, <3>1
    <3>3. \A m \in Nat : <<b, m>> \in R => m = Proof[b] + n
      BY <1>3, <3>1
    <3> QED  BY <3>2, <3>3
  <2> HIDE DEF T
  <2> QED  BY <2>1, <2>2, <2>3, DescentAssumption
<1>5. \A b \in Blocks : g[b] \in Nat /\ <<b, g[b]>> \in R /\ \A m \in Nat : <<b, m>> \in R => m = g[b]
  <2> TAKE b \in Blocks
  <2>1. One(b)
    BY <1>4
  <2> QED  BY <2>1
<1>6. g[Genesis] = Proof[Genesis] + 0
  BY <1>0, <1>1, <1>5
<1>7. \A b \in Blocks \ {Genesis} : g[b] = Proof[b] + g[Parent[b]]
  <2> TAKE b \in Blocks \ {Genesis}
  <2>1. Parent[b] \in Blocks /\ Proof[b] \in Nat
    BY <1>0
  <2>2. g[Parent[b]] \in Nat /\ <<Parent[b], g[Parent[b]]>> \in R
    BY <1>5, <2>1
  <2> HIDE DEF g
  <2>3. <<b, Proof[b] + g[Parent[b]]>> \in R /\ Proof[b] + g[Parent[b]] \in Nat
    BY <1>1, <2>1, <2>2
  <2> QED  BY <1>5, <2>3
<1>8. g = [b \in Blocks |-> Proof[b] + (IF b = Genesis THEN 0 ELSE g[Parent[b]])]
  <2>1. \A b \in Blocks : g[b] = Proof[b] + (IF b = Genesis THEN 0 ELSE g[Parent[b]])
    <3> HIDE DEF g
    <3> QED  BY <1>6, <1>7
  <2>2. g = [b \in Blocks |-> g[b]]
    <3> HIDE DEF work
    <3> QED  OBVIOUS
  <2> HIDE DEF g
  <2> QED  BY <2>1, <2>2
<1> HIDE DEF g
<1> QED  BY <1>8 DEF ChainWork

\* A block has more work than each of its other ancestors, so that no two blocks
\* are ancestors of each other.
LEMMA WorkFacts ==
    /\ \A b \in Blocks : ChainWork[b] \in Nat
    /\ \A b \in Blocks : \A c \in Chain[b] \ {b} : ChainWork[c] < ChainWork[b]
    /\ \A b \in Blocks \ {Genesis} : b \notin Chain[Parent[b]]
<1> DEFINE S == {b \in Blocks : /\ ChainWork[b] \in Nat
                                /\ \A c \in Chain[b] \ {b} : ChainWork[c] < ChainWork[b]
                                /\ \A c \in Chain[b] : ChainWork[c] \in Nat}
<1>0. /\ \A b \in Blocks : Proof[b] \in Nat \ {0}
      /\ ChainWork[Genesis] = Proof[Genesis] + 0
      /\ \A b \in Blocks \ {Genesis} : ChainWork[b] = Proof[b] + ChainWork[Parent[b]]
  BY WorkEquation, TreeAssumption
<1>1. S \in SUBSET Blocks
  OBVIOUS
<1>2. Genesis \in S
  BY <1>0, ChainFacts
<1>3. ASSUME NEW b \in Blocks \ {Genesis}, Parent[b] \in S PROVE b \in S
  <2>1. ChainWork[b] \in Nat /\ ChainWork[Parent[b]] < ChainWork[b]
    BY <1>0, <1>3
  <2>2. ASSUME NEW c \in Chain[b] \ {b} PROVE ChainWork[c] < ChainWork[b] /\ ChainWork[c] \in Nat
    <3>1. c \in Chain[Parent[b]]
      BY ChainFacts
    <3> QED  BY <1>3, <2>1, <3>1
  <2> QED  BY <2>1, <2>2
<1>4. S = Blocks
  <2> HIDE DEF S
  <2> QED  BY <1>1, <1>2, <1>3, DescentAssumption
<1>5. \A b \in Blocks \ {Genesis} : ChainWork[Parent[b]] < ChainWork[b]
  BY <1>0, <1>4, ChainFacts
<1>6. ASSUME NEW b \in Blocks \ {Genesis}, b \in Chain[Parent[b]] PROVE FALSE
  <2>1. Parent[b] \in Blocks /\ ChainWork[Parent[b]] \in Nat /\ ChainWork[b] \in Nat
    BY <1>4, ChainFacts
  <2>2. b = Parent[b] \/ ChainWork[b] < ChainWork[Parent[b]]
    BY <1>4, <1>6, <2>1
  <2> QED  BY <1>5, <2>1, <2>2
<1> QED  BY <1>4, <1>6

\* The height of a block is one more than its parent's, so that an ancestor is
\* lower than its descendants.
LEMMA HeightFacts ==
    /\ \A b \in Blocks : Height(b) \in Nat
    /\ \A b \in Blocks \ {Genesis} : Height(b) = Height(Parent[b]) + 1
    /\ \A b \in Blocks : \A c \in Chain[b] \ {b} : Height(c) < Height(b)
<1>1. \A b \in Blocks : IsFiniteSet(Chain[b]) /\ Cardinality(Chain[b]) \in Nat
  BY ChainFacts, TreeAssumption, FS_Subset, FS_CardinalityType
<1>2. \A b \in Blocks \ {Genesis} : Cardinality(Chain[b]) = Cardinality(Chain[Parent[b]]) + 1
  <2> TAKE b \in Blocks \ {Genesis}
  <2>1. Parent[b] \in Blocks /\ Chain[b] = Chain[Parent[b]] \cup {b} /\ b \notin Chain[Parent[b]]
    BY ChainFacts, WorkFacts
  <2> QED  BY <1>1, <2>1, FS_AddElement
<1>3. Cardinality(Chain[Genesis]) = 1
  BY ChainFacts, FS_Singleton
<1> DEFINE S == {b \in Blocks : /\ Cardinality(Chain[b]) >= 1
                                /\ \A c \in Chain[b] \ {b} : Height(c) < Height(b)}
<1>4. S \in SUBSET Blocks /\ Genesis \in S
  <2>1. Chain[Genesis] \ {Genesis} = {} /\ Genesis \in Blocks
    BY ChainFacts
  <2>2. Cardinality(Chain[Genesis]) >= 1
    BY <1>3
  <2> QED  BY <2>1, <2>2
<1>5. ASSUME NEW b \in Blocks \ {Genesis}, Parent[b] \in S PROVE b \in S
  <2>1. /\ Parent[b] \in Blocks /\ Chain[b] = {b} \cup Chain[Parent[b]]
        /\ Cardinality(Chain[b]) = Cardinality(Chain[Parent[b]]) + 1
        /\ Cardinality(Chain[Parent[b]]) \in Nat
    BY <1>1, <1>2, ChainFacts
  <2>2. Height(Parent[b]) < Height(b)
    BY <2>1 DEF Height
  <2>3. ASSUME NEW c \in Chain[b] \ {b} PROVE Height(c) < Height(b)
    <3>1. c \in Chain[Parent[b]] /\ c \in Blocks
      BY <2>1, ChainFacts
    <3>2. c = Parent[b] \/ Height(c) < Height(Parent[b])
      BY <1>5, <3>1
    <3>3. Height(c) \in Int /\ Height(b) \in Int /\ Height(Parent[b]) \in Int
      BY <1>1, <2>1, <3>1 DEF Height
    <3> QED  BY <2>2, <3>2, <3>3
  <2> QED  BY <1>5, <2>1, <2>3
<1>6. S = Blocks
  <2> HIDE DEF S
  <2> QED  BY <1>4, <1>5, DescentAssumption
<1>7. \A b \in Blocks : Height(b) \in Nat
  BY <1>1, <1>6 DEF Height
<1>8. \A b \in Blocks \ {Genesis} : Height(b) = Height(Parent[b]) + 1
  BY <1>1, <1>2, ChainFacts DEF Height
<1> QED  BY <1>6, <1>7, <1>8

\* A set of natural numbers that is not empty has a least element.
LEMMA LeastNumber ==
    ASSUME NEW T \in SUBSET Nat, T # {}
    PROVE  \E n \in T : \A m \in T : n <= m
<1> DEFINE R == {ss \in Nat \X Nat : ss[1] < ss[2]}
<1>1. IsWellFoundedOn(R, Nat)
  BY NatLessThanWellFounded DEF OpToRel
<1>2. \A x, y \in Nat : y < x => <<y, x>> \in R
  OBVIOUS
<1> HIDE DEF R
<1>3. PICK x \in T : \A y \in T : ~ (<<y, x>> \in R)
  BY <1>1, WFMin
<1>4. \A y \in T : ~ (y < x)
  BY <1>2, <1>3
<1>5. \A y \in T : x <= y
  BY <1>4
<1> QED  BY <1>5

\* A set of blocks that is not empty has a lowest block and a highest one.
LEMMA LowestHighest ==
    ASSUME NEW S \in SUBSET Blocks, S # {}
    PROVE  /\ Lowest(S) \in S /\ \A c \in S : Height(Lowest(S)) <= Height(c)
           /\ Highest(S) \in S /\ \A c \in S : Height(c) <= Height(Highest(S))
<1>1. \A b \in S : Height(b) \in Nat
  BY HeightFacts
<1>2. \E b \in S : \A c \in S : Height(b) <= Height(c)
  <2> DEFINE T == {Height(b) : b \in S}
  <2>1. T \in SUBSET Nat /\ T # {}
    BY <1>1
  <2>2. PICK n \in T : \A m \in T : n <= m
    BY <2>1, LeastNumber
  <2> QED  BY <2>2
<1>3. \E b \in S : \A c \in S : Height(c) <= Height(b)
  <2>1. IsFiniteSet(Blocks) /\ Cardinality(Blocks) \in Nat
    BY TreeAssumption, FS_CardinalityType
  <2>2. \A b \in S : Height(b) <= Cardinality(Blocks)
    <3> TAKE b \in S
    <3>1. Cardinality(Chain[b]) <= Cardinality(Blocks) /\ Cardinality(Chain[b]) \in Nat
      BY <2>1, ChainFacts, FS_Subset, FS_CardinalityType
    <3> QED  BY <2>1, <3>1 DEF Height
  <2> DEFINE T == {Cardinality(Blocks) - Height(b) : b \in S}
  <2>3. T \in SUBSET Nat /\ T # {}
    BY <1>1, <2>1, <2>2
  <2>4. PICK n \in T : \A m \in T : n <= m
    BY <2>3, LeastNumber
  <2>5. PICK b \in S : n = Cardinality(Blocks) - Height(b)
    BY <2>4
  <2>6. \A c \in S : Cardinality(Blocks) - Height(b) <= Cardinality(Blocks) - Height(c)
    BY <2>4, <2>5
  <2>7. \A c \in S : Height(c) <= Height(b)
    BY <1>1, <2>1, <2>6
  <2> QED  BY <2>7
<1> QED  BY <1>2, <1>3 DEF Lowest, Highest

-----------------------------------------------------------------------------
(* The order of the candidates.                                            *)

\* CBlockIndexWorkComparator is a strict total order, and a block sorts above all
\* its other ancestors.
LEMMA OrderFacts ==
    ASSUME NEW seq \in [Blocks -> Int]
    PROVE  /\ \A a \in Blocks : ~WorseWith(seq, a, a)
           /\ \A a, b \in Blocks : WorseWith(seq, a, b) => ~WorseWith(seq, b, a)
           /\ \A a, b \in Blocks : a # b => WorseWith(seq, a, b) \/ WorseWith(seq, b, a)
           /\ \A a, b, c \in Blocks :
                 WorseWith(seq, a, b) /\ WorseWith(seq, b, c) => WorseWith(seq, a, c)
           /\ \A b \in Blocks : \A c \in Chain[b] \ {b} : WorseWith(seq, c, b)
<1>1. /\ \A a \in Blocks : ChainWork[a] \in Nat /\ seq[a] \in Int /\ Ptr[a] \in Int
      /\ \A a, b \in Blocks : Ptr[a] = Ptr[b] => a = b
  BY WorkFacts, TreeAssumption
<1>2. \A a \in Blocks : ~WorseWith(seq, a, a)
  BY <1>1 DEF WorseWith
<1>3. \A a, b \in Blocks : WorseWith(seq, a, b) => ~WorseWith(seq, b, a)
  BY <1>1 DEF WorseWith
<1>4. \A a, b \in Blocks : a # b => WorseWith(seq, a, b) \/ WorseWith(seq, b, a)
  BY <1>1 DEF WorseWith
<1>5. \A a, b, c \in Blocks :
         WorseWith(seq, a, b) /\ WorseWith(seq, b, c) => WorseWith(seq, a, c)
  BY <1>1 DEF WorseWith
<1>6. \A b \in Blocks : \A c \in Chain[b] \ {b} : WorseWith(seq, c, b)
  BY WorkFacts DEF WorseWith
<1> QED  BY <1>2, <1>3, <1>4, <1>5, <1>6

\* A set of candidates that is not empty has a best one.
LEMMA BestFacts ==
    ASSUME seqId \in [Blocks -> Int], NEW S \in SUBSET Blocks, S # {}
    PROVE  Best(S) \in S /\ \A c \in S : ~Worse(Best(S), c)
<1> DEFINE Below(b) == {c \in S : Worse(c, b)}
<1>1. IsFiniteSet(S) /\ Cardinality(S) \in Nat
  BY TreeAssumption, FS_Subset, FS_CardinalityType
<1>2. \A b \in S : /\ IsFiniteSet(Below(b)) /\ Cardinality(Below(b)) \in Nat
                   /\ Cardinality(Below(b)) <= Cardinality(S)
  <2> TAKE b \in S
  <2>1. Below(b) \subseteq S
    OBVIOUS
  <2> HIDE DEF Below
  <2> QED  BY <1>1, <2>1, FS_Subset, FS_CardinalityType
<1>3. \A b, c \in S : Worse(b, c) => Cardinality(Below(b)) < Cardinality(Below(c))
  <2> SUFFICES ASSUME NEW b \in S, NEW c \in S, Worse(b, c)
               PROVE  Cardinality(Below(b)) < Cardinality(Below(c))
    OBVIOUS
  <2>1. Below(b) \cup {b} \subseteq Below(c) /\ b \notin Below(b)
    BY OrderFacts DEF Worse
  <2> HIDE DEF Below
  <2>2. Cardinality(Below(b) \cup {b}) = Cardinality(Below(b)) + 1
    BY <1>2, <2>1, FS_AddElement
  <2>3. Cardinality(Below(b) \cup {b}) <= Cardinality(Below(c))
    BY <1>2, <2>1, FS_Subset
  <2> QED  BY <1>2, <2>2, <2>3
<1> HIDE DEF Below
<1>4. \E b \in S : \A c \in S : ~Worse(b, c)
  <2> DEFINE T == {Cardinality(S) - Cardinality(Below(b)) : b \in S}
  <2>1. T \in SUBSET Nat /\ T # {}
    BY <1>1, <1>2
  <2>2. PICK n \in T : \A m \in T : n <= m
    BY <2>1, LeastNumber
  <2>3. PICK b \in S : n = Cardinality(S) - Cardinality(Below(b))
    BY <2>2
  <2>4. \A c \in S : Cardinality(S) - Cardinality(Below(b)) <= Cardinality(S) - Cardinality(Below(c))
    BY <2>2, <2>3
  <2>5. \A c \in S : ~(Cardinality(Below(b)) < Cardinality(Below(c)))
    BY <1>1, <1>2, <2>4
  <2> QED  BY <1>3, <2>5
<1> QED  BY <1>4 DEF Best

-----------------------------------------------------------------------------
(* Loops.                                                                  *)

\* g is what N steps of F lead to, from s on.
RunOf(g, F, s, N) == g[0] = s /\ \A n \in 1 .. N : g[n] = F[g[n - 1]]

\* A step that stays in a set can be iterated from each of its elements.
LEMMA Iterates ==
    ASSUME NEW St, NEW F \in [St -> St], NEW s \in St, NEW N \in Nat
    PROVE  \E g \in [0 .. N -> St] : RunOf(g, F, s, N)
<1> USE DEF RunOf
<1> DEFINE Run(k, g) == RunOf(g, F, s, k)
           T == {k \in Nat : ~ \E g \in [0 .. k -> St] : Run(k, g)}
<1> SUFFICES ASSUME T # {} PROVE FALSE
  OBVIOUS
<1>1. PICK k \in T : \A m \in T : k <= m
  <2>1. T \in SUBSET Nat
    OBVIOUS
  <2> HIDE DEF T
  <2> QED  BY <2>1, LeastNumber
<1>2. k # 0
  <2>1. [n \in 0 .. 0 |-> s] \in [0 .. 0 -> St] /\ Run(0, [n \in 0 .. 0 |-> s])
    OBVIOUS
  <2> QED  BY <2>1
<1>3. k - 1 \in Nat /\ k - 1 \notin T
  <2>1. k \in Nat
    OBVIOUS
  <2> HIDE DEF T
  <2> QED  BY <1>1, <1>2, <2>1
<1>4. PICK g \in [0 .. (k - 1) -> St] : Run(k - 1, g)
  BY <1>3
<1> DEFINE h == [n \in 0 .. k |-> IF n = k THEN F[g[k - 1]] ELSE g[n]]
<1>5. h \in [0 .. k -> St] /\ Run(k, h)
  <2>1. g[k - 1] \in St /\ F[g[k - 1]] \in St
    BY <1>3, <1>4
  <2>2. h \in [0 .. k -> St]
    BY <1>3, <1>4, <2>1
  <2>3. h[0] = s
    <3>1. 0 \in 0 .. k /\ 0 # k /\ g[0] = s
      BY <1>2, <1>3, <1>4
    <3> QED  BY <3>1
  <2>4. ASSUME NEW n \in 1 .. k PROVE h[n] = F[h[n - 1]]
    <3>1. CASE n = k
      BY <1>3, <3>1
    <3>2. CASE n # k
      <4>1. n \in 1 .. (k - 1) /\ h[n] = g[n] /\ h[n - 1] = g[n - 1]
        BY <1>3, <3>2
      <4> QED  BY <1>4, <4>1
    <3> QED  BY <3>1, <3>2
  <2> QED  BY <2>2, <2>3, <2>4
<1> QED  BY <1>1, <1>5

\* The elements of a sequence are its head and those of its tail, and appending
\* puts together the elements of two sequences.
LEMMA RangeFacts ==
    ASSUME NEW S
    PROVE  /\ \A q \in Seq(S) : q # <<>> =>
                 /\ Head(q) \in S /\ Tail(q) \in Seq(S)
                 /\ Range(q) = {Head(q)} \cup Range(Tail(q))
                 /\ Len(q) \in Nat /\ Len(Tail(q)) = Len(q) - 1
           /\ \A q, r \in Seq(S) : /\ q \o r \in Seq(S)
                                   /\ Range(q \o r) = Range(q) \cup Range(r)
                                   /\ Len(q \o r) = Len(q) + Len(r)
<1>1. ASSUME NEW q \in Seq(S), q # <<>>
      PROVE  /\ Head(q) \in S /\ Tail(q) \in Seq(S)
             /\ Range(q) = {Head(q)} \cup Range(Tail(q))
             /\ Len(q) \in Nat /\ Len(Tail(q)) = Len(q) - 1
  <2>1. /\ Head(q) \in S /\ Tail(q) \in Seq(S) /\ Len(q) \in Nat /\ Len(q) >= 1
        /\ Head(q) = q[1] /\ Len(Tail(q)) = Len(q) - 1
        /\ \A i \in 1 .. (Len(q) - 1) : Tail(q)[i] = q[i + 1]
        /\ DOMAIN q = 1 .. Len(q) /\ DOMAIN Tail(q) = 1 .. (Len(q) - 1)
    BY <1>1
  <2>2. ASSUME NEW i \in DOMAIN q PROVE q[i] \in {Head(q)} \cup Range(Tail(q))
    <3>1. CASE i = 1
      BY <2>1, <3>1
    <3>2. CASE i # 1
      <4>1. i - 1 \in DOMAIN Tail(q) /\ Tail(q)[i - 1] = q[i]
        BY <2>1, <3>2
      <4> QED  BY <4>1 DEF Range
    <3> QED  BY <3>1, <3>2
  <2>3. ASSUME NEW i \in DOMAIN Tail(q) PROVE Tail(q)[i] \in Range(q)
    <3>1. i + 1 \in DOMAIN q /\ Tail(q)[i] = q[i + 1]
      BY <2>1
    <3> QED  BY <3>1 DEF Range
  <2>4. Head(q) \in Range(q)
    BY <2>1 DEF Range
  <2> QED  BY <2>1, <2>2, <2>3, <2>4 DEF Range
<1>2. ASSUME NEW q \in Seq(S), NEW r \in Seq(S)
      PROVE  /\ q \o r \in Seq(S) /\ Len(q \o r) = Len(q) + Len(r)
             /\ Range(q \o r) = Range(q) \cup Range(r)
  <2>1. /\ q \o r \in Seq(S) /\ Len(q) \in Nat /\ Len(r) \in Nat
        /\ Len(q \o r) = Len(q) + Len(r)
        /\ DOMAIN q = 1 .. Len(q) /\ DOMAIN r = 1 .. Len(r)
        /\ DOMAIN (q \o r) = 1 .. (Len(q) + Len(r))
        /\ \A i \in 1 .. Len(q) : (q \o r)[i] = q[i]
        /\ \A i \in 1 .. Len(r) : (q \o r)[Len(q) + i] = r[i]
    OBVIOUS
  <2>2. ASSUME NEW i \in DOMAIN (q \o r) PROVE (q \o r)[i] \in Range(q) \cup Range(r)
    <3>1. CASE i <= Len(q)
      <4>1. i \in DOMAIN q /\ (q \o r)[i] = q[i]
        BY <2>1, <3>1
      <4> QED  BY <4>1 DEF Range
    <3>2. CASE i > Len(q)
      <4>1. i - Len(q) \in DOMAIN r /\ (q \o r)[i] = r[i - Len(q)]
        <5>1. i - Len(q) \in 1 .. Len(r) /\ Len(q) + (i - Len(q)) = i
          BY <2>1, <3>2
        <5> QED  BY <2>1, <5>1
      <4> QED  BY <4>1 DEF Range
    <3>3. i \in Int /\ Len(q) \in Int
      BY <2>1
    <3> QED  BY <3>1, <3>2, <3>3
  <2>3. ASSUME NEW i \in DOMAIN q PROVE q[i] \in Range(q \o r)
    <3>1. i \in DOMAIN (q \o r) /\ (q \o r)[i] = q[i]
      BY <2>1
    <3> QED  BY <3>1 DEF Range
  <2>4. ASSUME NEW i \in DOMAIN r PROVE r[i] \in Range(q \o r)
    <3>1. Len(q) + i \in DOMAIN (q \o r) /\ (q \o r)[Len(q) + i] = r[i]
      BY <2>1
    <3> QED  BY <3>1 DEF Range
  <2> QED  BY <2>1, <2>2, <2>3, <2>4 DEF Range
<1> QED  BY <1>1, <1>2

\* What the queue of ReceivedBlockTransactions keeps true while it links the
\* stored block b and what waited for it.  The blocks it links are new, their
\* parents are linked before them, and each becomes a candidate unless it sorts
\* below the tip; having the highest number so far, it then has more work.
LinkGood(b) ==
    {s \in [queue : Seq(Blocks), unlinked : [Blocks -> Seq(Blocks)],
            linked : SUBSET (processed \cup {b}), seq : [Blocks -> Int],
            next : Nat, cands : SUBSET Blocks] :
        /\ linked \subseteq s.linked
        /\ \A c \in s.linked : Chain[c] \subseteq s.linked
        /\ \A q \in Range(s.queue) :
              /\ q \in (processed \cup {b}) \ linked
              /\ q # Genesis /\ Parent[q] \in s.linked
        /\ \A p \in Blocks : \A c \in Range(s.unlinked[p]) :
              /\ c # Genesis /\ Parent[c] = p
              /\ c \in processed \ linked /\ p \notin s.linked
        /\ \A c \in Blocks \ s.linked : s.seq[c] <= 0
        /\ \A c \in linked : s.seq[c] = seqId[c]
        /\ \A c \in s.linked \ linked : s.seq[c] >= 0
        /\ \A c \in Blocks : s.seq[c] < s.next
        /\ \A c \in s.cands \ candidates : ChainWork[tip] < ChainWork[c]
        /\ candidates \subseteq s.cands /\ s.cands \subseteq candidates \cup (s.linked \ linked)
        /\ \A c \in s.linked \ linked : c \in s.cands \/ WorseWith(s.seq, c, tip)
        /\ \A c \in Blocks : WaitsIn(unlinked, c) =>
              c \in s.linked \/ WaitsIn(s.unlinked, c) \/ c \in Range(s.queue)
        /\ b \in s.linked \cup Range(s.queue)}

\* A round of the queue keeps it so.
LEMMA LinkFirstKeeps ==
    ASSUME BaseInv, NEW b \in Blocks, NEW s \in LinkGood(b)
    PROVE  LinkFirst(s) \in LinkGood(b)
<1>1. CASE s.queue = <<>>
  BY <1>1 DEF LinkFirst
<1>2. CASE s.queue # <<>>
  <2> DEFINE q == Head(s.queue)
             r == LinkFirst(s)
  <2>0. /\ s.queue \in Seq(Blocks) /\ s.unlinked \in [Blocks -> Seq(Blocks)]
        /\ s.linked \in SUBSET (processed \cup {b}) /\ s.seq \in [Blocks -> Int]
        /\ s.next \in Nat /\ s.cands \in SUBSET Blocks
    BY DEF LinkGood
  <2>1. /\ q \in Blocks /\ q \in Range(s.queue) /\ Tail(s.queue) \in Seq(Blocks)
        /\ Range(s.queue) = {q} \cup Range(Tail(s.queue))
    BY <1>2, <2>0, RangeFacts
  <2>2. /\ r.queue = Tail(s.queue) \o s.unlinked[q]
        /\ r.unlinked = [s.unlinked EXCEPT ![q] = <<>>]
        /\ r.linked = s.linked \cup {q} /\ r.seq = [s.seq EXCEPT ![q] = s.next]
        /\ r.next = s.next + 1
        /\ r.cands = (IF WorseWith(r.seq, q, tip) THEN s.cands ELSE s.cands \cup {q})
        /\ r = [queue |-> r.queue, unlinked |-> r.unlinked, linked |-> r.linked,
                seq |-> r.seq, next |-> r.next, cands |-> r.cands]
    BY <1>2 DEF LinkFirst
  <2> HIDE DEF q, r
  <2>3. s.unlinked[q] \in Seq(Blocks) /\ r.queue \in Seq(Blocks)
    BY <2>0, <2>1, <2>2
  <2>4. Range(r.queue) = Range(Tail(s.queue)) \cup Range(s.unlinked[q])
    <3> DEFINE u == s.unlinked[q]
               v == Tail(s.queue)
    <3>1. u \in Seq(Blocks) /\ v \in Seq(Blocks) /\ r.queue = v \o u
      BY <2>1, <2>2, <2>3
    <3> HIDE DEF u, v
    <3>2. Range(v \o u) = Range(v) \cup Range(u)
      BY <3>1, RangeFacts
    <3> QED  BY <3>1, <3>2 DEF u, v
  <2>5. q \in (processed \cup {b}) \ linked /\ q # Genesis /\ Parent[q] \in s.linked
    BY <2>1 DEF LinkGood
  <2>6. /\ r.unlinked \in [Blocks -> Seq(Blocks)] /\ r.unlinked[q] = <<>>
        /\ \A p \in Blocks \ {q} : r.unlinked[p] = s.unlinked[p]
    BY <2>0, <2>1, <2>2
  <2>7. /\ r.seq \in [Blocks -> Int] /\ r.seq[q] = s.next
        /\ \A c \in Blocks \ {q} : r.seq[c] = s.seq[c]
    BY <2>0, <2>1, <2>2
  <2>8. r \in [queue : Seq(Blocks), unlinked : [Blocks -> Seq(Blocks)],
               linked : SUBSET (processed \cup {b}), seq : [Blocks -> Int],
               next : Nat, cands : SUBSET Blocks]
    <3>1. r.linked \in SUBSET (processed \cup {b}) /\ r.next \in Nat /\ r.cands \in SUBSET Blocks
      BY <2>0, <2>1, <2>2, <2>5
    <3> QED  BY <2>2, <2>3, <2>6, <2>7, <3>1
  <2>9. linked \subseteq r.linked /\ \A c \in r.linked : Chain[c] \subseteq r.linked
    <3>1. Chain[q] = {q} \cup Chain[Parent[q]]
      BY <2>1, <2>5, ChainFacts
    <3>2. linked \subseteq s.linked /\ \A c \in s.linked : Chain[c] \subseteq s.linked
      BY DEF LinkGood
    <3> QED  BY <2>2, <2>5, <3>1, <3>2
  <2>10. \A x \in Range(r.queue) :
            x \in (processed \cup {b}) \ linked /\ x # Genesis /\ Parent[x] \in r.linked
    <3>1. \A x \in Range(s.queue) :
             x \in (processed \cup {b}) \ linked /\ x # Genesis /\ Parent[x] \in s.linked
      BY DEF LinkGood
    <3>2. \A x \in Range(s.unlinked[q]) :
             x # Genesis /\ Parent[x] = q /\ x \in processed \ linked
      BY <2>1 DEF LinkGood
    <3> QED  BY <2>1, <2>2, <2>4, <3>1, <3>2
  <2>11. \A p \in Blocks : \A c \in Range(r.unlinked[p]) :
            c # Genesis /\ Parent[c] = p /\ c \in processed \ linked /\ p \notin r.linked
    <3> TAKE p \in Blocks
    <3>1. CASE p = q
      BY <2>6, <3>1 DEF Range
    <3>2. CASE p # q
      BY <2>2, <2>6, <3>2 DEF LinkGood
    <3> QED  BY <3>1, <3>2
  <2>12. /\ \A c \in Blocks \ r.linked : r.seq[c] <= 0
         /\ \A c \in linked : r.seq[c] = seqId[c]
         /\ \A c \in r.linked \ linked : r.seq[c] >= 0
    <3>1. /\ \A c \in Blocks \ s.linked : s.seq[c] <= 0
          /\ \A c \in linked : s.seq[c] = seqId[c]
          /\ \A c \in s.linked \ linked : s.seq[c] >= 0
      BY DEF LinkGood
    <3>2. linked \subseteq Blocks /\ s.linked \subseteq Blocks
      BY <2>0 DEF BaseInv
    <3> QED  BY <2>0, <2>2, <2>5, <2>7, <3>1, <3>2
  <2>13. candidates \subseteq r.cands /\ r.cands \subseteq candidates \cup (r.linked \ linked)
    <3>1. candidates \subseteq s.cands /\ s.cands \subseteq candidates \cup (s.linked \ linked)
      BY DEF LinkGood
    <3> QED  BY <2>2, <2>5, <3>1
  <2>14. \A c \in r.linked \ linked : c \in r.cands \/ WorseWith(r.seq, c, tip)
    <3> TAKE c \in r.linked \ linked
    <3>1. CASE c = q
      BY <2>2, <3>1
    <3>2. CASE c # q
      <4>1. c \in s.linked \ linked /\ c \in Blocks /\ tip \in Blocks /\ tip # q
        BY <2>0, <2>2, <2>5, <3>2 DEF BaseInv
      <4>2. c \in s.cands \/ WorseWith(s.seq, c, tip)
        BY <4>1 DEF LinkGood
      <4>3. r.seq[c] = s.seq[c] /\ r.seq[tip] = s.seq[tip]
        BY <2>7, <3>2, <4>1
      <4> QED  BY <2>2, <4>2, <4>3 DEF WorseWith
    <3> QED  BY <3>1, <3>2
  <2>15. \A c \in Blocks : WaitsIn(unlinked, c) =>
            c \in r.linked \/ WaitsIn(r.unlinked, c) \/ c \in Range(r.queue)
    <3> SUFFICES ASSUME NEW c \in Blocks, WaitsIn(unlinked, c)
                 PROVE  c \in r.linked \/ WaitsIn(r.unlinked, c) \/ c \in Range(r.queue)
      OBVIOUS
    <3>1. c \in s.linked \/ WaitsIn(s.unlinked, c) \/ c \in Range(s.queue)
      BY DEF LinkGood
    <3>2. c # Genesis /\ Parent[c] \in Blocks
      BY ChainFacts DEF WaitsIn
    <3>3. CASE c \in s.linked \/ c \in Range(s.queue)
      BY <2>1, <2>2, <2>4, <3>3
    <3>4. CASE WaitsIn(s.unlinked, c) /\ Parent[c] = q
      BY <2>4, <3>4 DEF WaitsIn
    <3>5. CASE WaitsIn(s.unlinked, c) /\ Parent[c] # q
      BY <2>6, <3>2, <3>5 DEF WaitsIn
    <3> QED  BY <3>1, <3>3, <3>4, <3>5
  <2>16. b \in r.linked \cup Range(r.queue)
    <3>1. b \in s.linked \cup Range(s.queue)
      BY DEF LinkGood
    <3> QED  BY <2>1, <2>2, <2>4, <3>1
  <2>17. \A c \in Blocks : r.seq[c] < r.next
    <3>1. \A c \in Blocks : s.seq[c] < s.next /\ s.seq[c] \in Int
      BY <2>0 DEF LinkGood
    <3> QED  BY <2>0, <2>2, <2>7, <3>1
  <2>18. \A c \in r.cands \ candidates : ChainWork[tip] < ChainWork[c]
    <3>1. \A c \in s.cands \ candidates : ChainWork[tip] < ChainWork[c]
      BY DEF LinkGood
    <3>2. ASSUME ~WorseWith(r.seq, q, tip) PROVE ChainWork[tip] < ChainWork[q]
      <4>1. tip \in Blocks /\ tip # q /\ s.seq[tip] < s.next
        BY <2>5 DEF BaseInv, LinkGood
      <4>2. r.seq[tip] < r.seq[q] /\ r.seq[tip] \in Int /\ r.seq[q] \in Int
        BY <2>0, <2>1, <2>7, <4>1
      <4>3. ChainWork[tip] \in Nat /\ ChainWork[q] \in Nat
        BY <2>1, <4>1, WorkFacts
      <4> QED  BY <3>2, <4>2, <4>3 DEF WorseWith
    <3> QED  BY <2>2, <3>1, <3>2
  <2>19. r \in LinkGood(b)
    BY <2>8, <2>9, <2>10, <2>11, <2>12, <2>13, <2>14, <2>15, <2>16, <2>17, <2>18 DEF LinkGood
  <2> QED  BY <2>19 DEF r
<1> QED  BY <1>1, <1>2

\* The entries of mapBlocksUnlinked are finitely many, and taking out those under
\* a block takes out as many as wait for it.
LEMMA EntriesFacts ==
    ASSUME NEW u \in [Blocks -> Seq(Blocks)], NEW q \in Blocks
    PROVE  /\ Cardinality(Entries(u)) \in Nat
           /\ Cardinality(Entries([u EXCEPT ![q] = <<>>])) = Cardinality(Entries(u)) - Len(u[q])
<1> DEFINE Under(p) == {p} \X DOMAIN u[p]
           v == [u EXCEPT ![q] = <<>>]
<1>1. \A p \in Blocks : /\ DOMAIN u[p] = 1 .. Len(u[p]) /\ Len(u[p]) \in Nat
  OBVIOUS
<1>2. \A p \in Blocks : IsFiniteSet(Under(p)) /\ Cardinality(Under(p)) = Len(u[p])
  <2> TAKE p \in Blocks
  <2> DEFINE n == Len(u[p])
             I == 1 .. n
             J == {p}
  <2>0. n \in Nat /\ Under(p) = J \X I
    BY <1>1
  <2> HIDE DEF n
  <2>1. IsFiniteSet(I) /\ Cardinality(I) = n
    <3>1. 1 \in Int /\ n \in Int
      BY <2>0
    <3>2. IsFiniteSet(1 .. n) /\ Cardinality(1 .. n) = (IF 1 > n THEN 0 ELSE n - 1 + 1)
      BY <3>1, FS_Interval
    <3> QED  BY <2>0, <3>2
  <2>2. IsFiniteSet(J) /\ Cardinality(J) = 1
    BY FS_Singleton
  <2> HIDE DEF I, J
  <2>3. IsFiniteSet(J \X I) /\ Cardinality(J \X I) = Cardinality(J) * Cardinality(I)
    BY <2>1, <2>2, FS_Product
  <2>4. Cardinality(J) * Cardinality(I) = n
    BY <2>0, <2>1, <2>2
  <2> HIDE DEF Under
  <2> QED  BY <2>0, <2>3, <2>4 DEF n
<1>3. IsFiniteSet(Entries(u))
  <2> DEFINE All == {Under(p) : p \in Blocks}
  <2>1. IsFiniteSet(All)
    <3> DEFINE f == [p \in Blocks |-> Under(p)]
    <3> HIDE DEF Under
    <3>1. f \in Surjection(Blocks, All)
      BY DEF Surjection
    <3> HIDE DEF f, All
    <3> QED  BY <3>1, TreeAssumption, FS_Surjection
  <2>2. \A X \in All : IsFiniteSet(X)
    BY <1>2
  <2>3. Entries(u) = UNION All
    BY DEF Entries
  <2> HIDE DEF All
  <2> QED  BY <2>1, <2>2, <2>3, FS_UNION
<1>4. Entries(u) = Entries(v) \cup Under(q) /\ Entries(v) \cap Under(q) = {}
  <2>1. v[q] = <<>> /\ \A p \in Blocks \ {q} : v[p] = u[p]
    OBVIOUS
  <2>2. DOMAIN v[q] = {}
    BY <2>1
  <2> HIDE DEF v
  <2>3. \A e : e \in Entries(u) <=> \E p \in Blocks : e \in {p} \X DOMAIN u[p]
    BY DEF Entries
  <2>4. \A e : e \in Entries(v) <=> \E p \in Blocks : e \in {p} \X DOMAIN v[p]
    BY DEF Entries
  <2>5. \A e : e \in Entries(v) <=> \E p \in Blocks \ {q} : e \in {p} \X DOMAIN u[p]
    BY <2>1, <2>2, <2>4
  <2> QED  BY <2>3, <2>5
<1> HIDE DEF Under, v
<1>5. IsFiniteSet(Entries(v)) /\ Cardinality(Entries(v)) \in Nat /\ Cardinality(Entries(u)) \in Nat
  BY <1>3, <1>4, FS_Subset, FS_CardinalityType
<1>6. Cardinality(Entries(u)) = Cardinality(Entries(v)) + Len(u[q])
  <2>1. Cardinality(Entries(v) \cap Under(q)) = 0
    BY <1>4, FS_EmptySet
  <2>2. Cardinality(Entries(v) \cup Under(q))
           = Cardinality(Entries(v)) + Cardinality(Under(q)) - Cardinality(Entries(v) \cap Under(q))
    BY <1>2, <1>5, FS_Union
  <2> QED  BY <1>1, <1>2, <1>4, <1>5, <2>1, <2>2
<1> QED  BY <1>1, <1>5, <1>6 DEF v

\* What is left to do in ReceivedBlockTransactions.
LinkMeasure(s) == Len(s.queue) + Cardinality(Entries(s.unlinked))

\* Every round does one of the things left to do.
LEMMA MeasureDrops ==
    ASSUME NEW b, NEW s \in LinkGood(b), s.queue # <<>>
    PROVE  LinkMeasure(s) \in Nat /\ LinkMeasure(LinkFirst(s)) = LinkMeasure(s) - 1
<1> DEFINE q == Head(s.queue)
           u == s.unlinked
<1>1. s.queue \in Seq(Blocks) /\ u \in [Blocks -> Seq(Blocks)]
  BY DEF LinkGood
<1>2. /\ q \in Blocks /\ Tail(s.queue) \in Seq(Blocks)
      /\ Len(s.queue) \in Nat /\ Len(Tail(s.queue)) = Len(s.queue) - 1
  BY <1>1, RangeFacts
<1>3. /\ LinkFirst(s).queue = Tail(s.queue) \o u[q]
      /\ LinkFirst(s).unlinked = [u EXCEPT ![q] = <<>>]
  BY DEF LinkFirst
<1> HIDE DEF q, u
<1>4. u[q] \in Seq(Blocks) /\ Len(u[q]) \in Nat
  BY <1>1, <1>2
<1>5. Len(LinkFirst(s).queue) = Len(s.queue) - 1 + Len(u[q])
  <2> DEFINE x == Tail(s.queue)
             y == u[q]
  <2>1. x \in Seq(Blocks) /\ y \in Seq(Blocks)
    BY <1>2, <1>4
  <2> HIDE DEF x, y
  <2>2. Len(x \o y) = Len(x) + Len(y)
    BY <2>1, RangeFacts
  <2> QED  BY <1>2, <1>3, <2>2 DEF x, y
<1>6. /\ Cardinality(Entries(u)) \in Nat
      /\ Cardinality(Entries(LinkFirst(s).unlinked)) = Cardinality(Entries(u)) - Len(u[q])
  BY <1>1, <1>2, <1>3, EntriesFacts
<1>7. /\ LinkMeasure(s) = Len(s.queue) + Cardinality(Entries(u))
      /\ LinkMeasure(LinkFirst(s))
            = Len(LinkFirst(s).queue) + Cardinality(Entries(LinkFirst(s).unlinked))
  BY DEF LinkMeasure, u
<1> DEFINE m == Len(s.queue)
           n == Len(u[q])
           e == Cardinality(Entries(u))
<1>8. m \in Nat /\ n \in Nat /\ e \in Nat
  BY <1>2, <1>4, <1>6
<1>9. LinkMeasure(s) = m + e /\ LinkMeasure(LinkFirst(s)) = (m - 1 + n) + (e - n)
  BY <1>5, <1>6, <1>7
<1> HIDE DEF m, n, e
<1> QED  BY <1>8, <1>9

\* When the parent of a new block is linked, the queue runs until it is empty.
LEMMA ReceivedLinked ==
    ASSUME BaseInv, NEW b \in Blocks \ processed, Parent[b] \in linked
    PROVE  Received(b) \in LinkGood(b) /\ Received(b).queue = <<>>
<1> DEFINE start == [queue |-> <<b>>, unlinked |-> unlinked,
                     linked |-> linked \ {b}, seq |-> seqId,
                     next |-> nextSeq, cands |-> candidates]
           last == Cardinality(Entries(unlinked)) + 1
           rounds[n \in 0 .. last] == IF n = 0 THEN start ELSE LinkFirst(rounds[n - 1])
           Good == LinkGood(b)
<1>1. Received(b) = rounds[last]
  BY DEF Received
<1>2. b # Genesis /\ linked \ {b} = linked
  BY DEF BaseInv
<1>3. start \in Good
  <2>1. /\ <<b>> \in Seq(Blocks) /\ Range(<<b>>) = {b}
    BY DEF Range
  <2>2. start = [queue |-> <<b>>, unlinked |-> unlinked, linked |-> linked, seq |-> seqId,
                 next |-> nextSeq, cands |-> candidates]
    BY <1>2
  <2>3. \A p \in Blocks : \A c \in Range(unlinked[p]) :
           c # Genesis /\ Parent[c] = p /\ c \in processed \ linked /\ p \notin linked
    <3> TAKE p \in Blocks
    <3> TAKE c \in Range(unlinked[p])
    <3>1. c # Genesis /\ Parent[c] = p /\ c \in processed /\ p \notin linked /\ c \in Blocks
      BY DEF BaseInv
    <3>2. p \in Chain[c]
      BY <3>1, ChainFacts
    <3> QED  BY <3>1, <3>2 DEF BaseInv
  <2> HIDE DEF start
  <2>4. start \in [queue : Seq(Blocks), unlinked : [Blocks -> Seq(Blocks)],
                   linked : SUBSET (processed \cup {b}), seq : [Blocks -> Int],
                   next : Nat, cands : SUBSET Blocks]
    BY <2>1, <2>2 DEF BaseInv
  <2>5. /\ start.queue = <<b>> /\ start.unlinked = unlinked /\ start.linked = linked
        /\ start.seq = seqId /\ start.cands = candidates /\ start.next = nextSeq
    BY <2>2
  <2>6. b \notin linked /\ \A c \in linked : Chain[c] \subseteq linked
    BY DEF BaseInv
  <2>7. \A c \in Blocks : seqId[c] < nextSeq /\ (c \notin linked => seqId[c] <= 0)
    BY DEF BaseInv
  <2> QED  BY <1>2, <2>1, <2>3, <2>4, <2>5, <2>6, <2>7 DEF LinkGood
<1>4. \A s \in Good : LinkFirst(s) \in Good
  BY LinkFirstKeeps
<1>5. last \in Nat /\ LinkMeasure(start) = last
  <2>1. Cardinality(Entries(unlinked)) \in Nat
    BY EntriesFacts DEF BaseInv
  <2>2. start.queue = <<b>> /\ start.unlinked = unlinked /\ Len(<<b>>) = 1
    OBVIOUS
  <2>3. LinkMeasure(start) = 1 + Cardinality(Entries(unlinked))
    BY <2>2 DEF LinkMeasure
  <2> QED  BY <2>1, <2>3
<1> HIDE DEF start, last, Good
<1>6. rounds = [n \in 0 .. last |-> IF n = 0 THEN start ELSE LinkFirst(rounds[n - 1])]
  <2> DEFINE F == [s \in Good |-> LinkFirst(s)]
  <2>1. F \in [Good -> Good]
    BY <1>4
  <2> HIDE DEF F
  <2>2. PICK g \in [0 .. last -> Good] : RunOf(g, F, start, last)
    BY <1>3, <1>5, <2>1, Iterates
  <2>3. \A n \in 0 .. last : g[n] = IF n = 0 THEN start ELSE LinkFirst(g[n - 1])
    <3> TAKE n \in 0 .. last
    <3>1. CASE n = 0
      BY <2>2, <3>1 DEF RunOf
    <3>2. CASE n # 0
      <4>1. n \in 1 .. last /\ n - 1 \in 0 .. last
        BY <1>5, <3>2
      <4>2. g[n] = F[g[n - 1]] /\ g[n - 1] \in Good
        BY <2>2, <4>1 DEF RunOf
      <4> QED  BY <3>2, <4>2 DEF F
    <3> QED  BY <3>1, <3>2
  <2>4. g = [n \in 0 .. last |-> IF n = 0 THEN start ELSE LinkFirst(g[n - 1])]
    BY <2>2, <2>3
  <2> QED  BY <2>4 DEF rounds
<1> HIDE DEF rounds
<1>7. /\ rounds[0] = start
      /\ \A n \in 1 .. last : rounds[n] = LinkFirst(rounds[n - 1])
  BY <1>5, <1>6
<1> DEFINE Bad == {n \in 0 .. last :
                      ~ (/\ rounds[n] \in Good
                         /\ rounds[n].queue = <<>> \/ LinkMeasure(rounds[n]) = last - n)}
<1>8. Bad = {}
  <2> SUFFICES ASSUME Bad # {} PROVE FALSE
    OBVIOUS
  <2>1. Bad \in SUBSET Nat
    BY <1>5
  <2> HIDE DEF Bad
  <2>2. PICK n \in Bad : \A m \in Bad : n <= m
    BY <2>1, LeastNumber
  <2> USE DEF Bad
  <2>3. n # 0
    BY <1>3, <1>5, <1>7, <2>2
  <2>4. n \in 1 .. last /\ n - 1 \in 0 .. last /\ n - 1 \notin Bad
    <3>1. n \in 0 .. last
      BY <2>2
    <3> HIDE DEF Bad
    <3> QED  BY <1>5, <2>1, <2>2, <2>3, <3>1
  <2> DEFINE s == rounds[n - 1]
  <2>5. s \in Good /\ (s.queue = <<>> \/ LinkMeasure(s) = last - (n - 1))
    BY <2>4
  <2>6. rounds[n] = LinkFirst(s)
    BY <1>7, <2>4
  <2> HIDE DEF s
  <2>7. rounds[n] \in Good
    BY <1>4, <2>5, <2>6
  <2>8. CASE s.queue = <<>>
    <3>1. rounds[n].queue = <<>>
      BY <2>6, <2>8 DEF LinkFirst
    <3> QED  BY <2>2, <2>7, <3>1
  <2>9. CASE s.queue # <<>>
    <3>1. LinkMeasure(rounds[n]) = last - (n - 1) - 1
      BY <2>5, <2>6, <2>9, MeasureDrops DEF Good
    <3>2. LinkMeasure(rounds[n]) = last - n
      BY <1>5, <2>4, <3>1
    <3> QED  BY <2>2, <2>7, <3>2
  <2> QED  BY <2>8, <2>9
<1>9. last \in 0 .. last
  BY <1>5
<1>10. /\ rounds[last] \in Good
       /\ rounds[last].queue = <<>> \/ LinkMeasure(rounds[last]) = last - last
  BY <1>8, <1>9
<1>11. rounds[last].queue = <<>>
  <2> SUFFICES ASSUME rounds[last].queue # <<>> PROVE FALSE
    OBVIOUS
  <2> DEFINE s == rounds[last]
  <2>1. s \in LinkGood(b) /\ s.queue \in Seq(Blocks) /\ s.queue # <<>>
    BY <1>10 DEF Good, LinkGood
  <2>2. LinkMeasure(s) = 0
    BY <1>5, <1>10
  <2>3. s.unlinked \in [Blocks -> Seq(Blocks)]
    BY <2>1 DEF LinkGood
  <2> HIDE DEF s
  <2>4. Len(s.queue) \in Nat \ {0}
    BY <2>1
  <2>5. Cardinality(Entries(s.unlinked)) \in Nat
    BY <2>3, EntriesFacts
  <2> QED  BY <2>2, <2>4, <2>5 DEF LinkMeasure
<1> QED  BY <1>1, <1>10, <1>11 DEF Good

\* What storing a block that was not there does.  The blocks that are linked by it
\* have new numbers, the numbers of the others stay; each of them is a candidate or
\* sorts below the tip; and whoever waited is linked or still waits.
LEMMA StoreFacts ==
    ASSUME BaseInv, NEW b \in Blocks \ processed, StoreBlock(b)
    PROVE  /\ processed' = processed \cup {b} /\ haveData' = processed'
           /\ linked \subseteq linked' /\ linked' \subseteq processed'
           /\ \A c \in linked' : Chain[c] \subseteq linked'
           /\ seqId' \in [Blocks -> Int] /\ nextSeq' \in Nat
           /\ \A c \in Blocks \ linked' : seqId'[c] <= 0
           /\ \A c \in linked : seqId'[c] = seqId[c]
           /\ \A c \in linked' \ linked : seqId'[c] >= 0
           /\ \A c \in Blocks : seqId'[c] < nextSeq'
           /\ \A c \in candidates' \ candidates : ChainWork[tip] < ChainWork[c]
           /\ candidates \subseteq candidates'
           /\ candidates' \subseteq candidates \cup (linked' \ linked)
           /\ \A c \in linked' \ linked : c \in candidates' \/ WorseWith(seqId', c, tip)
           /\ unlinked' \in [Blocks -> Seq(Blocks)]
           /\ \A p \in Blocks : \A c \in Range(unlinked'[p]) :
                 c # Genesis /\ Parent[c] = p /\ c \in processed' /\ p \notin linked'
           /\ \A c \in Blocks : WaitsIn(unlinked, c) => c \in linked' \/ WaitsIn(unlinked', c)
           /\ \/ b \in linked' \/ WaitsIn(unlinked', b)
              \/ linked' = linked /\ Parent[b] \in Failed \ linked
<1> DEFINE r == Received(b)
<1>0. /\ b # Genesis /\ Parent[b] \in Blocks /\ b \notin linked
  BY ChainFacts DEF BaseInv
<1>1. /\ haveData' = haveData \cup {b} /\ processed' = processed \cup {b} /\ linked' = r.linked
      /\ unlinked' = r.unlinked /\ candidates' = r.cands /\ seqId' = r.seq /\ nextSeq' = r.next
  BY DEF StoreBlock
<1>2. haveData = processed
  BY DEF BaseInv
<1>3. CASE Parent[b] \in linked
  <2>1. r \in LinkGood(b) /\ r.queue = <<>> /\ Range(r.queue) = {}
    <3>1. r \in LinkGood(b) /\ r.queue = <<>>
      BY <1>3, ReceivedLinked
    <3> QED  BY <3>1 DEF Range
  <2> HIDE DEF r
  <2>2. /\ r.linked \in SUBSET (processed \cup {b}) /\ r.unlinked \in [Blocks -> Seq(Blocks)]
        /\ r.seq \in [Blocks -> Int] /\ r.next \in Nat
    BY <2>1 DEF LinkGood
  <2>3. /\ linked \subseteq r.linked
        /\ \A c \in r.linked : Chain[c] \subseteq r.linked
        /\ \A p \in Blocks : \A c \in Range(r.unlinked[p]) :
              c # Genesis /\ Parent[c] = p /\ c \in processed \ linked /\ p \notin r.linked
        /\ \A c \in Blocks \ r.linked : r.seq[c] <= 0
        /\ \A c \in linked : r.seq[c] = seqId[c]
        /\ \A c \in r.linked \ linked : r.seq[c] >= 0
        /\ \A c \in Blocks : r.seq[c] < r.next
        /\ \A c \in r.cands \ candidates : ChainWork[tip] < ChainWork[c]
    BY <2>1 DEF LinkGood
  <2>4. /\ candidates \subseteq r.cands /\ r.cands \subseteq candidates \cup (r.linked \ linked)
        /\ \A c \in r.linked \ linked : c \in r.cands \/ WorseWith(r.seq, c, tip)
        /\ \A c \in Blocks : WaitsIn(unlinked, c) => c \in r.linked \/ WaitsIn(r.unlinked, c)
        /\ b \in r.linked
    BY <2>1 DEF LinkGood
  <2> QED  BY <1>1, <1>2, <2>2, <2>3, <2>4
<1>4. CASE Parent[b] \notin linked
  <2> DEFINE start == [queue |-> <<b>>, unlinked |-> unlinked,
                       linked |-> linked \ {b}, seq |-> seqId,
                       next |-> nextSeq, cands |-> candidates]
             p == Parent[b]
  <2>1. r = IF p \in Failed THEN start ELSE [start EXCEPT !.unlinked[p] = Append(@, b)]
    BY <1>0, <1>4 DEF Received
  <2>2. linked \ {b} = linked
    BY <1>0
  <2>3. /\ r.linked = linked /\ r.seq = seqId /\ r.next = nextSeq /\ r.cands = candidates
        /\ r.unlinked = IF p \in Failed THEN unlinked ELSE [unlinked EXCEPT ![p] = Append(@, b)]
    <3>1. CASE p \in Failed
      BY <2>1, <2>2, <3>1
    <3>2. CASE p \notin Failed
      BY <2>1, <2>2, <3>2
    <3> QED  BY <3>1, <3>2
  <2> HIDE DEF r, start
  <2>4. /\ processed' = processed \cup {b} /\ haveData' = processed'
        /\ linked' = linked /\ seqId' = seqId /\ nextSeq' = nextSeq /\ candidates' = candidates
    BY <1>1, <1>2, <2>3
  <2>5. /\ unlinked' \in [Blocks -> Seq(Blocks)]
        /\ \A x \in Blocks : \A c \in Range(unlinked'[x]) :
              c # Genesis /\ Parent[c] = x /\ c \in processed' /\ x \notin linked'
        /\ \A c \in Blocks : WaitsIn(unlinked, c) => WaitsIn(unlinked', c)
        /\ p \notin Failed => WaitsIn(unlinked', b)
    <3>0. /\ unlinked \in [Blocks -> Seq(Blocks)]
          /\ \A x \in Blocks : \A c \in Range(unlinked[x]) :
                c # Genesis /\ Parent[c] = x /\ c \in processed /\ x \notin linked
      BY DEF BaseInv
    <3>1. CASE p \in Failed
      <4>1. unlinked' = unlinked
        BY <1>1, <2>3, <3>1
      <4> QED  BY <2>4, <3>0, <3>1, <4>1
    <3>2. CASE p \notin Failed
      <4>1. /\ unlinked' = [unlinked EXCEPT ![p] = Append(@, b)]
            /\ p \in Blocks /\ unlinked[p] \in Seq(Blocks) /\ b \in Blocks
        BY <1>0, <1>1, <2>3, <3>0, <3>2
      <4>2. /\ Append(unlinked[p], b) \in Seq(Blocks)
            /\ Range(Append(unlinked[p], b)) = Range(unlinked[p]) \cup {b}
        <5> DEFINE u == unlinked[p]
                   v == <<b>>
        <5>1. u \in Seq(Blocks) /\ v \in Seq(Blocks)
          BY <4>1
        <5>2. Range(v) = {b}
          BY DEF Range
        <5> HIDE DEF u
        <5>4. Append(u, b) = u \o v
          BY <5>1
        <5> HIDE DEF v
        <5>3. u \o v \in Seq(Blocks) /\ Range(u \o v) = Range(u) \cup Range(v)
          BY <5>1, RangeFacts
        <5>5. Append(u, b) \in Seq(Blocks) /\ Range(Append(u, b)) = Range(u) \cup {b}
          BY <5>2, <5>3, <5>4
        <5> QED  BY <5>5 DEF u
      <4>3. /\ unlinked' \in [Blocks -> Seq(Blocks)] /\ unlinked'[p] = Append(unlinked[p], b)
            /\ \A x \in Blocks \ {p} : unlinked'[x] = unlinked[x]
        BY <3>0, <4>1, <4>2
      <4>4. \A x \in Blocks : \A c \in Range(unlinked'[x]) :
               c \in Range(unlinked[x]) \/ (x = p /\ c = b)
        BY <4>2, <4>3
      <4>5. \A x \in Blocks : Range(unlinked[x]) \subseteq Range(unlinked'[x])
        BY <4>2, <4>3
      <4>6. b \in Range(unlinked'[p])
        BY <4>2, <4>3
      <4>7. \A c \in Blocks \ {Genesis} : Parent[c] \in Blocks
        BY ChainFacts
      <4> HIDE DEF p
      <4>8. \A x \in Blocks : \A c \in Range(unlinked'[x]) :
              c # Genesis /\ Parent[c] = x /\ c \in processed' /\ x \notin linked'
        BY <1>0, <1>4, <2>4, <3>0, <4>4 DEF p
      <4>9. \A c \in Blocks : WaitsIn(unlinked, c) => WaitsIn(unlinked', c)
        BY <4>5, <4>7 DEF WaitsIn
      <4>10. WaitsIn(unlinked', b)
        BY <1>0, <4>6 DEF WaitsIn, p
      <4> QED  BY <4>3, <4>8, <4>9, <4>10
    <3> QED  BY <3>1, <3>2
  <2>6. /\ linked \subseteq processed
        /\ \A c \in linked : Chain[c] \subseteq linked
        /\ seqId \in [Blocks -> Int] /\ nextSeq \in Nat
        /\ \A c \in Blocks : seqId[c] < nextSeq /\ (c \notin linked => seqId[c] <= 0)
    BY DEF BaseInv
  <2> QED  BY <1>4, <2>4, <2>5, <2>6
<1> QED  BY <1>3, <1>4

\* An ancestor of b lies below every ancestor of b that is higher.
LEMMA HigherAbove ==
    ASSUME NEW b \in Blocks, NEW c \in Chain[b], NEW d \in Chain[b]
    PROVE  /\ Height(d) < Height(c) => d \in Chain[c] /\ c \notin Chain[d]
           /\ Height(d) = Height(c) => c = d
           /\ d \in Chain[c] => Height(d) <= Height(c)
<1>1. c \in Blocks /\ d \in Blocks /\ (c \in Chain[d] \/ d \in Chain[c])
  BY ChainFacts, ChainLinear
<1>2. Height(c) \in Nat /\ Height(d) \in Nat
  BY <1>1, HeightFacts
<1>3. /\ c # d /\ c \in Chain[d] => Height(c) < Height(d)
      /\ c # d /\ d \in Chain[c] => Height(d) < Height(c)
  BY <1>1, HeightFacts
<1>4. ASSUME Height(d) < Height(c) PROVE d \in Chain[c] /\ c \notin Chain[d]
  BY <1>1, <1>2, <1>3, <1>4
<1>5. ASSUME Height(d) = Height(c) PROVE c = d
  BY <1>1, <1>2, <1>3, <1>5
<1>6. ASSUME d \in Chain[c] PROVE Height(d) <= Height(c)
  BY <1>2, <1>3, <1>6
<1> QED  BY <1>4, <1>5, <1>6

-----------------------------------------------------------------------------
(* FindMostWorkChain.                                                      *)

\* What the loop of FindMostWorkChain keeps true: the blocks it marks lie above one
\* that has failed and outside the active chain, and so do the candidates it drops.
FindGood ==
    {s \in [cands : SUBSET candidates, failed : SUBSET linked, unlinked : {unlinked}] :
        /\ failedChild \subseteq s.failed
        /\ \A b \in s.failed \ failedChild : b \notin Chain[tip] /\ Chain[b] \cap Failed # {}
        /\ \A c \in candidates \ s.cands : Chain[c] \cap Failed # {}}

\* The loop ends with s: there is no candidate, or the branch of the best one holds
\* no block that has failed.
Settled(s) ==
    s.cands = {} \/ Branch(Best(s.cands)) \cap (failedValid \cup s.failed) = {}

\* A round of the loop keeps it so, and ends the loop or drops a candidate.
LEMMA DropUnusableKeeps ==
    ASSUME BaseInv, NEW s \in FindGood
    PROVE  /\ DropUnusable(s) \in FindGood
           /\ Settled(s) => DropUnusable(s) = s
           /\ ~Settled(s) => \E c \in s.cands : DropUnusable(s).cands \subseteq s.cands \ {c}
<1> DEFINE best == Best(s.cands)
           unusable == {b \in Branch(best) :
                          b \in failedValid \cup s.failed \/ b \notin haveData}
           stop == Highest(unusable)
           above == {b \in Branch(best) : Height(b) > Height(stop)}
<1>1. /\ s.cands \in SUBSET candidates /\ s.failed \in SUBSET linked /\ s.unlinked = unlinked
      /\ failedChild \subseteq s.failed
      /\ \A b \in s.failed \ failedChild : b \notin Chain[tip] /\ Chain[b] \cap Failed # {}
      /\ \A c \in candidates \ s.cands : Chain[c] \cap Failed # {}
  BY DEF FindGood
<1>2. /\ candidates \subseteq linked /\ linked \subseteq Blocks /\ linked \subseteq haveData
      /\ \A b \in linked : Chain[b] \subseteq linked
      /\ seqId \in [Blocks -> Int]
  BY DEF BaseInv
<1>3. CASE s.cands = {}
  BY <1>3 DEF DropUnusable, Settled
<1>4. CASE s.cands # {}
  <2>1. best \in s.cands /\ best \in linked /\ best \in Blocks
    BY <1>1, <1>2, <1>4, BestFacts
  <2>2. Branch(best) \subseteq linked /\ Branch(best) \subseteq Chain[best] /\ best \in Chain[best]
    BY <1>2, <2>1, ChainFacts DEF Branch
  <2>3. unusable = Branch(best) \cap (failedValid \cup s.failed)
    BY <1>2, <2>2
  <2>4. CASE unusable = {}
    <3>1. DropUnusable(s) = s
      BY <1>4, <2>4 DEF DropUnusable
    <3>2. Settled(s)
      BY <2>3, <2>4 DEF Settled
    <3> QED  BY <3>1, <3>2
  <2>5. CASE unusable # {}
    <3>1. /\ stop \in unusable /\ \A c \in unusable : Height(c) <= Height(stop)
      <4>1. unusable \in SUBSET Blocks
        BY <1>2, <2>2
      <4> HIDE DEF unusable
      <4> QED  BY <2>5, <4>1, LowestHighest
    <3>2. stop \in failedValid \cup s.failed /\ stop \in Branch(best) /\ stop \in Chain[best]
      BY <2>2, <2>3, <3>1
    <3>3. DropUnusable(s) = [cands |-> s.cands \ (above \cup {stop}),
                             failed |-> s.failed \cup above, unlinked |-> s.unlinked]
      BY <1>4, <2>5, <3>2 DEF DropUnusable
    <3>4. Chain[stop] \cap Failed # {}
      <4>1. stop \in Chain[stop]
        BY <1>2, <2>2, <3>2, ChainFacts
      <4> QED  BY <1>1, <3>2, <4>1 DEF Failed
    <3> HIDE DEF unusable, stop, best
    <3>5. \A b \in above : Chain[b] \cap Failed # {}
      <4> TAKE b \in above
      <4>1. b \in Chain[best] /\ Height(stop) < Height(b)
        BY <2>1, <2>2, <3>2, HeightFacts, ChainFacts
      <4>2. stop \in Chain[b] /\ b \in Blocks
        BY <2>1, <3>2, <4>1, HigherAbove, ChainFacts
      <4> QED  BY <3>4, <4>2, ChainFacts
    <3>6. best \in above \cup {stop}
      <4>1. CASE best = stop
        BY <4>1
      <4>2. CASE best # stop
        <5>1. Height(stop) < Height(best)
          BY <2>1, <3>2, <4>2, HeightFacts
        <5>2. best \in Branch(best)
          BY <2>1, <2>2, <3>2, ChainFacts DEF Branch, BaseInv
        <5>3. Height(best) > Height(stop)
          BY <2>1, <5>1, <3>2, HeightFacts, ChainFacts
        <5> QED  BY <5>2, <5>3
      <4> QED  BY <4>1, <4>2
    <3>7. \A b \in above : b \notin Chain[tip] /\ b \in linked
      BY <2>2 DEF Branch
    <3> HIDE DEF above
    <3>8. DropUnusable(s) \in FindGood
      <4>1. \A c \in candidates \ (s.cands \ (above \cup {stop})) : Chain[c] \cap Failed # {}
        BY <1>1, <3>4, <3>5
      <4>2. \A b \in (s.failed \cup above) \ failedChild :
               b \notin Chain[tip] /\ Chain[b] \cap Failed # {}
        BY <1>1, <3>5, <3>7
      <4> DEFINE r == DropUnusable(s)
      <4>3. /\ r.cands = s.cands \ (above \cup {stop}) /\ r.failed = s.failed \cup above
            /\ r \in [cands : SUBSET candidates, failed : SUBSET linked, unlinked : {unlinked}]
        BY <1>1, <3>3, <3>7
      <4> HIDE DEF r
      <4>4. r \in FindGood
        BY <1>1, <4>1, <4>2, <4>3 DEF FindGood
      <4> QED  BY <4>4 DEF r
    <3>9. DropUnusable(s).cands \subseteq s.cands \ {best}
      BY <3>3, <3>6
    <3>10. ~Settled(s)
      BY <1>4, <2>3, <2>5 DEF Settled, best
    <3> QED  BY <2>1, <3>8, <3>9, <3>10
  <2> QED  BY <2>4, <2>5
<1> QED  BY <1>3, <1>4

\* FindMostWorkChain runs until its loop ends.
LEMMA FindFacts ==
    ASSUME BaseInv
    PROVE  FindMostWorkChain \in FindGood /\ Settled(FindMostWorkChain)
<1> DEFINE start == [cands |-> candidates, failed |-> failedChild, unlinked |-> unlinked]
           last == Cardinality(candidates)
           rounds[n \in 0 .. last] == IF n = 0 THEN start ELSE DropUnusable(rounds[n - 1])
           Good == FindGood
<1>1. FindMostWorkChain = rounds[last]
  BY DEF FindMostWorkChain
<1>2. start \in Good /\ start.cands = candidates
  BY DEF FindGood, BaseInv
<1>3. \A s \in Good : DropUnusable(s) \in Good
  BY DropUnusableKeeps
<1>4. last \in Nat /\ IsFiniteSet(candidates)
  BY TreeAssumption, FS_Subset, FS_CardinalityType DEF BaseInv
<1> HIDE DEF start, last, Good
<1>5. rounds = [n \in 0 .. last |-> IF n = 0 THEN start ELSE DropUnusable(rounds[n - 1])]
  <2> DEFINE F == [s \in Good |-> DropUnusable(s)]
  <2>1. F \in [Good -> Good]
    BY <1>3
  <2> HIDE DEF F
  <2>2. PICK g \in [0 .. last -> Good] : RunOf(g, F, start, last)
    BY <1>2, <1>4, <2>1, Iterates
  <2>3. \A n \in 0 .. last : g[n] = IF n = 0 THEN start ELSE DropUnusable(g[n - 1])
    <3> TAKE n \in 0 .. last
    <3>1. CASE n = 0
      BY <2>2, <3>1 DEF RunOf
    <3>2. CASE n # 0
      <4>1. n \in 1 .. last /\ n - 1 \in 0 .. last
        BY <1>4, <3>2
      <4>2. g[n] = F[g[n - 1]] /\ g[n - 1] \in Good
        BY <2>2, <4>1 DEF RunOf
      <4> QED  BY <3>2, <4>2 DEF F
    <3> QED  BY <3>1, <3>2
  <2>4. g = [n \in 0 .. last |-> IF n = 0 THEN start ELSE DropUnusable(g[n - 1])]
    BY <2>2, <2>3
  <2> QED  BY <2>4 DEF rounds
<1> HIDE DEF rounds
<1>6. /\ rounds[0] = start
      /\ \A n \in 1 .. last : rounds[n] = DropUnusable(rounds[n - 1])
  BY <1>4, <1>5
<1>7. \A s \in Good : /\ IsFiniteSet(s.cands) /\ Cardinality(s.cands) \in Nat
                      /\ s.cands \in SUBSET candidates
  <2> TAKE s \in Good
  <2>1. s.cands \in SUBSET candidates
    BY DEF Good, FindGood
  <2> QED  BY <1>4, <2>1, FS_Subset, FS_CardinalityType
<1>8. \A s \in Good : ~Settled(s) => Cardinality(DropUnusable(s).cands) <= Cardinality(s.cands) - 1
  <2> SUFFICES ASSUME NEW s \in Good, ~Settled(s)
               PROVE  Cardinality(DropUnusable(s).cands) <= Cardinality(s.cands) - 1
    OBVIOUS
  <2>1. PICK c \in s.cands : DropUnusable(s).cands \subseteq s.cands \ {c}
    BY DropUnusableKeeps DEF Good
  <2> DEFINE S == s.cands
             R == DropUnusable(s).cands
  <2>2. IsFiniteSet(S) /\ Cardinality(S) \in Nat /\ R \subseteq S \ {c} /\ c \in S
    BY <1>7, <2>1
  <2> HIDE DEF S, R
  <2>3. IsFiniteSet(S \ {c}) /\ Cardinality(S \ {c}) = Cardinality(S) - 1
    BY <2>2, FS_RemoveElement
  <2>4. Cardinality(R) <= Cardinality(S \ {c})
    BY <2>2, <2>3, FS_Subset
  <2>5. Cardinality(R) <= Cardinality(S) - 1
    BY <2>3, <2>4
  <2> QED  BY <2>5 DEF S, R
<1> DEFINE Bad == {n \in 0 .. last :
                      ~ (/\ rounds[n] \in Good
                         /\ Settled(rounds[n]) \/ Cardinality(rounds[n].cands) <= last - n)}
<1>9. Bad = {}
  <2> SUFFICES ASSUME Bad # {} PROVE FALSE
    OBVIOUS
  <2>1. Bad \in SUBSET Nat
    BY <1>4
  <2> HIDE DEF Bad
  <2>2. PICK n \in Bad : \A m \in Bad : n <= m
    BY <2>1, LeastNumber
  <2> USE DEF Bad
  <2>3. n # 0
    BY <1>2, <1>4, <1>6, <2>2 DEF last
  <2>4. n \in 1 .. last /\ n - 1 \in 0 .. last /\ n - 1 \notin Bad
    <3>1. n \in 0 .. last
      BY <2>2
    <3> HIDE DEF Bad
    <3> QED  BY <1>4, <2>1, <2>2, <2>3, <3>1
  <2> DEFINE s == rounds[n - 1]
  <2>5. s \in Good /\ (Settled(s) \/ Cardinality(s.cands) <= last - (n - 1))
    BY <2>4
  <2>6. rounds[n] = DropUnusable(s)
    BY <1>6, <2>4
  <2> HIDE DEF s
  <2>7. rounds[n] \in Good
    BY <1>3, <2>5, <2>6
  <2>8. CASE Settled(s)
    <3>1. rounds[n] = s
      BY <2>5, <2>6, <2>8, DropUnusableKeeps DEF Good
    <3> QED  BY <2>2, <2>7, <2>8, <3>1
  <2>9. CASE ~Settled(s)
    <3>1. Cardinality(rounds[n].cands) <= Cardinality(s.cands) - 1
      BY <1>8, <2>5, <2>6, <2>9
    <3>2. Cardinality(s.cands) \in Nat /\ Cardinality(rounds[n].cands) \in Nat
      BY <1>7, <2>5, <2>7
    <3>3. Cardinality(rounds[n].cands) <= last - n
      BY <1>4, <2>4, <2>5, <2>9, <3>1, <3>2
    <3> QED  BY <2>2, <2>7, <3>3
  <2> QED  BY <2>8, <2>9
<1>10. last \in 0 .. last
  BY <1>4
<1>11. /\ rounds[last] \in Good
       /\ Settled(rounds[last]) \/ Cardinality(rounds[last].cands) <= last - last
  BY <1>9, <1>10
<1>12. Settled(rounds[last])
  <2> SUFFICES ASSUME Cardinality(rounds[last].cands) <= last - last PROVE Settled(rounds[last])
    BY <1>11
  <2> DEFINE R == rounds[last].cands
  <2>1. IsFiniteSet(R) /\ Cardinality(R) \in Nat
    BY <1>7, <1>11
  <2>2. Cardinality(R) = 0
    BY <1>4, <2>1
  <2> HIDE DEF R
  <2>3. R = {}
    BY <2>1, <2>2, FS_EmptySet
  <2> QED  BY <2>3 DEF R, Settled
<1> QED  BY <1>1, <1>11, <1>12 DEF Good

-----------------------------------------------------------------------------
(* ActivateBestChain.                                                      *)

\* The thread t is to go to the block target: it goes on to the target it has, or
\* FindMostWorkChain, which leaves f, has found the target.
Picked(t, f, target) ==
    IF mostWork[t] = NoBlock
    THEN f.cands # {} /\ target = Best(f.cands) /\ Settled(f)
    ELSE /\ target = mostWork[t]
         /\ f = [cands |-> candidates, failed |-> failedChild, unlinked |-> unlinked]

\* The loop of ActivateBestChain ends, there being nothing to do for it.
Ends(t, f) ==
    /\ candidates' = f.cands
    /\ phase' = [phase EXCEPT ![t] = "idle"]
    /\ mostWork' = [mostWork EXCEPT ![t] = NoBlock]
    /\ UNCHANGED <<scripts, failedValid, tip>>
    /\ (mostWork[t] = NoBlock /\ f.cands = {}) \/ Picked(t, f, tip)

\* The candidates that are left of S for the new tip: those that sort below it are
\* dropped, except when blocks were only disconnected.
Left(S) ==
    \/ candidates' = NotWorse(S, seqId, tip')
    \/ candidates' = S /\ tip' \in Chain[tip]

\* A block on the way to the target has failed, and its parent is the tip.  It is
\* marked, unless its data may be corrupt.
StepFails(t, target, f) ==
    \E x \in Chain[target] \ Chain[tip], D \in SUBSET BadConnect :
        /\ x # Genesis /\ tip' = Parent[x] /\ D \subseteq {x}
        /\ failedValid' = failedValid \cup D
        /\ Left(f.cands \ D)
        /\ phase' = [phase EXCEPT ![t] = "notify"]
        /\ mostWork' = [mostWork EXCEPT ![t] = NoBlock]

\* The target or a block on the way to it is the tip.
StepMoves(t, target, f) ==
    /\ failedValid' = failedValid
    /\ Left(f.cands)
    /\ \/ /\ tip' = target
          /\ phase' = [phase EXCEPT ![t] = "last"]
          /\ mostWork' = [mostWork EXCEPT ![t] = NoBlock]
       \/ /\ tip' # target
          /\ phase' = [phase EXCEPT ![t] = "notify"]
          /\ mostWork' = [mostWork EXCEPT ![t] = target]

\* A step goes towards its target, and no block fails that it leaves connected.
LEMMA StepFacts ==
    ASSUME BaseInv, NEW t \in Threads, NEW target \in linked, NEW f \in FindGood,
           NEW damaged, ActivateBestChainStep(t, target, f, damaged)
    PROVE  /\ tip' \in Chain[target] /\ tip' \in linked
           /\ (Chain[tip'] \ Chain[tip]) \cap BadConnect = {}
           /\ scripts' = scripts \cup ((Chain[tip'] \ Chain[tip]) \ (failedValid \cup f.failed))
           /\ StepFails(t, target, f) \/ StepMoves(t, target, f)
<1> DEFINE stops == {b \in Branch(target) : \/ b \in BadConnect \cup damaged
                                            \/ ChainWork[b] > ChainWork[tip]
                                            \/ b = target}
           stop == StopAt(target, damaged)
           invalidFound == Branch(target) # {} /\ stop \in BadConnect \cup damaged
           fork == Highest(Chain[target] \cap Chain[tip])
           newTip == IF Branch(target) = {} THEN target
                     ELSE IF invalidFound THEN Parent[stop] ELSE stop
           found == IF invalidFound THEN InvalidBlockFound(f.cands, stop, damaged)
                    ELSE [failed |-> failedValid, cands |-> f.cands]
           done == newTip = target /\ ~invalidFound
<1>1. /\ tip' = newTip
      /\ scripts' = scripts \cup ((Chain[newTip] \ Chain[tip]) \ (failedValid \cup f.failed))
      /\ failedValid' = found.failed
      /\ candidates' = IF newTip = fork THEN found.cands ELSE NotWorse(found.cands, seqId, newTip)
  BY DEF ActivateBestChainStep
<1>2. /\ (done \/ invalidFound) => mostWork' = [mostWork EXCEPT ![t] = NoBlock]
      /\ ~(done \/ invalidFound) => mostWork' = [mostWork EXCEPT ![t] = target]
      /\ done => phase' = [phase EXCEPT ![t] = "last"]
      /\ ~done => phase' = [phase EXCEPT ![t] = "notify"]
  BY DEF ActivateBestChainStep, LoopDone
<1>3. /\ target \in Blocks /\ tip \in Blocks /\ Chain[target] \subseteq linked
      /\ linked \subseteq Blocks /\ Chain[target] \subseteq Blocks
  BY DEF BaseInv
<1>4. fork \in Chain[target] /\ fork \in Chain[tip]
  <2> DEFINE S == Chain[target] \cap Chain[tip]
  <2>1. S \in SUBSET Blocks /\ S # {}
    BY <1>3, ChainFacts
  <2> HIDE DEF S
  <2>2. Highest(S) \in S
    BY <2>1, LowestHighest
  <2> QED  BY <2>2 DEF S
<1> HIDE DEF fork
<1>5. CASE Branch(target) = {}
  <2>1. newTip = target /\ ~invalidFound /\ done
    BY <1>5
  <2>2. found.failed = failedValid /\ found.cands = f.cands
    BY <2>1
  <2> HIDE DEF newTip, invalidFound, found, done
  <2>3. tip' = target /\ target \in Chain[target] /\ Chain[target] \subseteq Chain[tip]
    BY <1>1, <1>3, <1>5, <2>1, ChainFacts DEF Branch
  <2>4. Left(f.cands)
    BY <1>1, <2>1, <2>2, <2>3 DEF Left
  <2>5. StepMoves(t, target, f)
    BY <1>1, <1>2, <2>1, <2>2, <2>3, <2>4 DEF StepMoves
  <2> QED  BY <1>1, <2>1, <2>3, <2>5
<1>6. CASE Branch(target) # {}
  <2>1. stop \in stops /\ \A c \in stops : Height(stop) <= Height(c)
    <3>1. target \in Branch(target)
      <4>1. PICK b \in Branch(target) : TRUE
        BY <1>6
      <4>2. b \in Chain[target] /\ b \notin Chain[tip]
        BY <4>1 DEF Branch
      <4> QED  BY <1>3, <4>2, ChainFacts DEF Branch
    <3>2. stops \in SUBSET Blocks /\ stops # {} /\ stop = Lowest(stops)
      BY <1>3, <3>1 DEF Branch, StopAt
    <3> HIDE DEF stops, stop
    <3> QED  BY <3>2, LowestHighest
  <2>2. /\ stop \in Chain[target] /\ stop \notin Chain[tip] /\ stop \in Blocks
        /\ stop # Genesis /\ Parent[stop] \in Blocks /\ Chain[stop] = {stop} \cup Chain[Parent[stop]]
        /\ stop \notin Chain[Parent[stop]] /\ Parent[stop] \in Chain[stop]
    <3>1. stop \in Chain[target] /\ stop \notin Chain[tip] /\ stop \in Blocks
      BY <1>3, <2>1 DEF Branch
    <3> HIDE DEF stop
    <3> QED  BY <1>3, <3>1, ChainFacts, WorkFacts
  <2>3. Chain[stop] \subseteq Chain[target]
    BY <1>3, <2>2, ChainFacts
  <2>4. \A c \in Chain[Parent[stop]] \ Chain[tip] : c \notin BadConnect /\ c # target
    <3> TAKE c \in Chain[Parent[stop]] \ Chain[tip]
    <3>1. c \in Chain[stop] /\ c # stop /\ c \in Chain[target]
      BY <2>2, <2>3
    <3>2. Height(c) < Height(stop) /\ Height(stop) \in Nat /\ Height(c) \in Nat
      BY <1>3, <2>2, <3>1, HeightFacts
    <3>3. ~ (Height(stop) <= Height(c))
      BY <3>2
    <3>4. c \in Branch(target) /\ c \notin stops
      BY <2>1, <3>1, <3>3 DEF Branch
    <3> QED  BY <3>4
  <2>5. CASE stop \in BadConnect \cup damaged
    <3>1. invalidFound /\ newTip = Parent[stop] /\ ~done
      BY <1>6, <2>5
    <3>2. PICK D \in SUBSET BadConnect :
             D \subseteq {stop} /\ found.failed = failedValid \cup D /\ found.cands = f.cands \ D
      <4>1. CASE stop \in damaged
        <5>1. found.failed = failedValid \cup {} /\ found.cands = f.cands \ {}
          BY <3>1, <4>1 DEF InvalidBlockFound
        <5> QED  BY <5>1, Zenon
      <4>2. CASE stop \notin damaged
        BY <2>5, <3>1, <4>2 DEF InvalidBlockFound
      <4> QED  BY <4>1, <4>2
    <3> HIDE DEF newTip, invalidFound, found, done, stop
    <3>3. tip' = Parent[stop] /\ tip' \in Chain[target]
      BY <1>1, <2>2, <2>3, <3>1
    <3>4. Left(f.cands \ D)
      BY <1>1, <1>4, <3>1, <3>2, <3>3 DEF Left
    <3>5. StepFails(t, target, f)
      BY <1>1, <1>2, <2>2, <3>1, <3>2, <3>3, <3>4 DEF StepFails
    <3> QED  BY <1>1, <1>3, <2>4, <3>1, <3>3, <3>5
  <2>6. CASE stop \notin BadConnect \cup damaged
    <3>1. ~invalidFound /\ newTip = stop
      BY <1>6, <2>6
    <3>2. found.failed = failedValid /\ found.cands = f.cands /\ (done <=> stop = target)
      BY <3>1
    <3> HIDE DEF newTip, invalidFound, found, done, stop
    <3>3. tip' = stop
      BY <1>1, <3>1
    <3>4. Left(f.cands)
      BY <1>1, <1>4, <2>2, <3>1, <3>2, <3>3 DEF Left
    <3>5. StepMoves(t, target, f)
      BY <1>1, <1>2, <3>1, <3>2, <3>3, <3>4 DEF StepMoves
    <3>6. (Chain[stop] \ Chain[tip]) \cap BadConnect = {}
      BY <2>2, <2>4, <2>6
    <3> QED  BY <1>1, <1>3, <2>2, <3>1, <3>3, <3>5, <3>6
  <2> QED  BY <2>5, <2>6
<1> QED  BY <1>5, <1>6

\* What Activate does: no block is missing, so it ends or it takes a step.
LEMMA ActivateFacts ==
    ASSUME BaseInv, NEW t \in Threads, Activate(t)
    PROVE  \E f \in FindGood :
              /\ UNCHANGED <<known, haveData, processed, linked, havePruned, halted, unlinked,
                             seqId, nextSeq, reverseSeq, preciousWork>>
              /\ failedChild' = f.failed
              /\ \/ Ends(t, f)
                 \/ \E target \in linked, damaged \in SUBSET Damaged :
                       /\ Picked(t, f, target) /\ target # tip
                       /\ ActivateBestChainStep(t, target, f, damaged)
<1> DEFINE keep == [cands |-> candidates, failed |-> failedChild, unlinked |-> unlinked]
           f == IF mostWork[t] = NoBlock THEN FindMostWorkChain ELSE keep
           target == IF mostWork[t] # NoBlock THEN mostWork[t]
                     ELSE IF f.cands = {} THEN NoBlock ELSE Best(f.cands)
<1>1. /\ failedChild' = f.failed /\ unlinked' = f.unlinked
      /\ UNCHANGED <<known, haveData, processed, linked, havePruned, order>>
      /\ \/ /\ target \in {NoBlock, tip}
            /\ candidates' = f.cands
            /\ phase' = [phase EXCEPT ![t] = "idle"]
            /\ mostWork' = [mostWork EXCEPT ![t] = NoBlock]
            /\ UNCHANGED <<scripts, failedValid, tip, halted>>
         \/ \E damaged \in SUBSET Damaged :
            /\ target \notin {NoBlock, tip}
            /\ ActivateBestChainStep(t, target, f, damaged)
            /\ UNCHANGED halted
         \/ \E damaged \in SUBSET Damaged :
            /\ target \notin {NoBlock, tip}
            /\ StepReadsMissing(target, damaged)
  BY DEF Activate
<1>2. f \in FindGood /\ (mostWork[t] = NoBlock => Settled(f))
  <2>1. keep \in FindGood
    BY DEF FindGood, BaseInv
  <2> QED  BY <2>1, FindFacts
<1>3. f.unlinked = unlinked /\ f.cands \in SUBSET candidates
  BY <1>2 DEF FindGood
<1>4. UNCHANGED <<seqId, nextSeq, reverseSeq, preciousWork>>
  BY <1>1 DEF order
<1>5. /\ candidates \subseteq linked /\ linked \subseteq Blocks /\ seqId \in [Blocks -> Int]
      /\ NoBlock \notin Blocks /\ mostWork[t] \in linked \cup {NoBlock} /\ tip \in linked
      /\ linked \subseteq haveData /\ \A b \in linked : Chain[b] \subseteq linked
  BY TreeAssumption DEF BaseInv
<1>6. f = keep \/ mostWork[t] = NoBlock
  OBVIOUS
<1>7. target \notin {NoBlock} => target \in linked /\ Picked(t, f, target)
  <2>1. CASE mostWork[t] # NoBlock
    BY <1>5, <2>1 DEF Picked
  <2>2. CASE mostWork[t] = NoBlock /\ f.cands # {}
    <3> HIDE DEF f
    <3>1. target = Best(f.cands) /\ Best(f.cands) \in f.cands
      BY <1>3, <1>5, <2>2, BestFacts
    <3> QED  BY <1>2, <1>3, <1>5, <2>2, <3>1 DEF Picked
  <2>3. CASE mostWork[t] = NoBlock /\ f.cands = {}
    BY <2>3
  <2> QED  BY <2>1, <2>2, <2>3
<1>8. target = NoBlock => mostWork[t] = NoBlock /\ f.cands = {}
  <2> SUFFICES ASSUME target = NoBlock, ~ (mostWork[t] = NoBlock /\ f.cands = {}) PROVE FALSE
    OBVIOUS
  <2>1. mostWork[t] = NoBlock /\ f.cands # {}
    OBVIOUS
  <2> HIDE DEF f
  <2>2. target = Best(f.cands) /\ Best(f.cands) \in f.cands
    BY <1>3, <1>5, <2>1, BestFacts
  <2> QED  BY <1>3, <1>5, <2>2
<1> HIDE DEF f, target, keep
<1>9. ASSUME target \in linked, NEW damaged \in SUBSET Damaged
      PROVE  ~StepReadsMissing(target, damaged)
  <2>1. Chain[tip] \ Chain[target] \in SUBSET haveData
    BY <1>5
  <2>2. ASSUME Branch(target) # {}
        PROVE  Chain[StopAt(target, damaged)] \ Chain[tip] \in SUBSET haveData
    <3> DEFINE stops == {b \in Branch(target) : \/ b \in BadConnect \cup damaged
                                                \/ ChainWork[b] > ChainWork[tip]
                                                \/ b = target}
    <3>1. target \in Branch(target)
      <4>1. PICK b \in Branch(target) : b \in Chain[target] /\ b \notin Chain[tip]
        BY <2>2 DEF Branch
      <4> QED  BY <1>5, <1>9, <4>1, ChainFacts DEF Branch
    <3>2. stops \in SUBSET Blocks /\ stops # {} /\ StopAt(target, damaged) = Lowest(stops)
      BY <1>5, <1>9, <3>1 DEF Branch, StopAt
    <3>3. stops \subseteq linked
      BY <1>5, <1>9 DEF Branch
    <3> HIDE DEF stops
    <3>4. StopAt(target, damaged) \in linked
      BY <3>2, <3>3, LowestHighest
    <3> QED  BY <1>5, <3>4
  <2> QED  BY <2>1, <2>2 DEF StepReadsMissing
<1>10. CASE target \in {NoBlock, tip}
  <2>1. Ends(t, f) /\ UNCHANGED halted
    <3>1. (mostWork[t] = NoBlock /\ f.cands = {}) \/ Picked(t, f, tip)
      BY <1>5, <1>7, <1>8, <1>10
    <3> QED  BY <1>1, <1>10, <3>1 DEF Ends
  <2> QED  BY <1>1, <1>2, <1>3, <1>4, <2>1
<1>11. CASE target \notin {NoBlock, tip}
  <2>1. target \in linked /\ Picked(t, f, target) /\ target # tip
    BY <1>7, <1>11
  <2>2. \E damaged \in SUBSET Damaged :
           ActivateBestChainStep(t, target, f, damaged) /\ UNCHANGED halted
    BY <1>1, <1>9, <1>11, <2>1
  <2> QED  BY <1>1, <1>2, <1>3, <1>4, <2>1, <2>2
<1> QED  BY <1>10, <1>11
=============================================================================
