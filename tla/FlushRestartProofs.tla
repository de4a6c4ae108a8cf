------------------------- MODULE FlushRestartProofs -------------------------
(***************************************************************************)
(* Proof that the chain state on disk holds together and that a restart    *)
(* after a crash of the process succeeds (FlushRestart), for every tree of *)
(* blocks, any number and size of the files and any number of crashes.     *)
(***************************************************************************)
EXTENDS FlushRestart, FiniteSetTheorems, WellFoundedInduction, TLAPS

-----------------------------------------------------------------------------
(* The inductive invariant.                                                *)

Entries == [data : Slots \cup {NoSlot}, undo : Slots \cup {NoSlot}]
Infos == [used : Nat, undoUsed : Nat, top : Int]

\* The blocks whose data, or undo data, is in the file f.
DataIn(e, f) == {b \in DOMAIN e : e[b].data # NoSlot /\ e[b].data[1] = f}
UndoIn(e, f) == {b \in DOMAIN e : e[b].undo # NoSlot /\ e[b].undo[1] = f}

\* An index and the file infos that go with it: slots are given out in order, and
\* undo data is in the file of the block.
IndexFits(e, info) ==
    /\ DOMAIN e \subseteq DiskBlocks /\ e \in [DOMAIN e -> Entries]
    /\ info \in [Files -> Infos]
    /\ \A b \in DOMAIN e : e[b].data # NoSlot => e[b].data[2] < info[e[b].data[1]].used
    /\ \A b \in DOMAIN e : e[b].undo # NoSlot =>
          /\ e[b].data # NoSlot /\ e[b].undo[1] = e[b].data[1]
          /\ e[b].undo[2] < info[e[b].undo[1]].undoUsed
    /\ \A f \in Files : /\ info[f].used = Cardinality(DataIn(e, f))
                        /\ info[f].undoUsed = Cardinality(UndoIn(e, f))

\* The slots that an index refers to hold its blocks, in files that exist.
DataThere(e) ==
    \A b \in DOMAIN e : e[b].data # NoSlot =>
        blk[e[b].data] = b /\ e[b].data[1] \in blkFiles
UndoThere(e) == \A b \in DOMAIN e : e[b].undo # NoSlot => rev[e[b].undo] = b
Synced(e) == \A b \in DOMAIN e : e[b].data # NoSlot => <<"blk", e[b].data>> \in synced

Up == flush.at # "down"

DiskTypes ==
    /\ flush \in [at : FlushSteps, full : BOOLEAN, prune : SUBSET Files]
    /\ flush.at = "idle" => flush = FlushIdle
    /\ flush.prune # {} => flush.full
    /\ flush.at = "coins" => flush.full
    /\ blk = [s \in Slots |-> blk[s]] /\ rev = [s \in Slots |-> rev[s]]
    /\ lastFile \in Files /\ dbLast \in Files
    /\ dbPruned \in {"no", "written", "yes"}
    /\ ~ Up => entry = << >> /\ dirty = {} /\ dirtyFiles = {}
    /\ Up => chainTip \in DiskBlocks /\ DiskChain[chainTip] \subseteq Known

\* What is not dirty is in the database, and nothing else is missing in it; a
\* counter of a file that may still be written is never behind the database.
MemoryAhead ==
    /\ DOMAIN dbEntry \subseteq Known /\ dirty \subseteq Known /\ dirtyFiles \subseteq Files
    /\ \A b \in Known \ dirty : b \in DOMAIN dbEntry /\ dbEntry[b] = entry[b]
    /\ \A f \in Files \ dirtyFiles : dbInfo[f] = fileInfo[f]
    /\ \A f \in Files : f >= lastFile \/ fileInfo[f].used > 0 =>
          /\ dbInfo[f].used <= fileInfo[f].used
          /\ dbInfo[f].undoUsed <= fileInfo[f].undoUsed

\* What each step of FlushStateToDisk has done.
FlushInv ==
    /\ \A b \in Known : entry[b].data # NoSlot =>
          \/ <<"blk", entry[b].data>> \in synced
          \/ flush.at = "idle" /\ entry[b].data[1] = lastFile
    /\ flush.at \in {"index", "unlink"} =>
          \A b \in Known : entry[b].data # NoSlot => entry[b].data[1] \notin flush.prune
    /\ flush.at \in {"unlink", "coins"} =>
          dirty = {} /\ dirtyFiles = {} /\ dbPruned # "written"

\* Every block that the coins in the database may be at, also after a power loss,
\* is in the index with its branch and its undo data, unless files were pruned.
CoinsInv ==
    \A c \in oldCoins \cup {dbCoins} :
        /\ c \in DiskBlocks /\ DiskChain[c] \subseteq DOMAIN dbEntry
        /\ dbPruned # "yes" => \A b \in DiskChain[c] \ {DiskGenesis} : dbEntry[b].undo # NoSlot

\* While no file was pruned, undo data is never forgotten.
UndoKept ==
    dbPruned = "no" =>
        /\ \A b \in DiskChain[chainTip] \ {DiskGenesis} : entry[b].undo # NoSlot
        /\ \A b \in DOMAIN dbEntry : dbEntry[b].undo # NoSlot => entry[b].undo # NoSlot

\* The blocks of the branch of c, those without data excepted, can be undone.
Undoable(e, c) ==
    \A b \in DiskChain[c] \ {DiskGenesis} : e[b].data # NoSlot => e[b].undo # NoSlot

\* Without a fault: what VerifyDB relies on, and why no block that the coins rest
\* on is stored again.  Pruning ends with the coins at the tip, or with a crash.
FaultFree ==
    /\ UndoThere(dbEntry) /\ UndoThere(entry)
    /\ Undoable(dbEntry, dbCoins)
    /\ Up => /\ Undoable(entry, dbCoins) /\ Undoable(entry, chainTip)
             /\ ~ flush.full => \A b \in DiskChain[dbCoins] \ DiskChain[chainTip] :
                                    entry[b].data # NoSlot

\* What is on disk, and what is in memory.
DatabaseGood ==
    IndexFits(dbEntry, dbInfo) /\ DataThere(dbEntry) /\ Synced(dbEntry) /\ CoinsInv
MemoryGood ==
    IndexFits(entry, fileInfo) /\ DataThere(entry) /\ MemoryAhead /\ FlushInv /\ UndoKept

DiskGood ==
    /\ DiskTypes
    /\ DatabaseGood
    /\ Up => MemoryGood
    /\ harm \subseteq {"corrupt"} => harm = {} /\ FaultFree

\* Nothing is claimed once a batch of the index was lost: the dirty sets are empty
\* then, and what was in them is never written.
DiskInv == "index write" \notin harm => DiskGood

-----------------------------------------------------------------------------
(* The tree of blocks, slots, and the file that FindBlockPos takes.        *)

\* The function DiskChain is what its definition says: the branch of a block is
\* the least set that contains it and with each block its parent.
LEMMA ChainEquation ==
    DiskChain = [b \in DiskBlocks |->
                    {b} \cup (IF b = DiskGenesis THEN {} ELSE DiskChain[DiskParent[b]])]
<1> DEFINE Closed(S) == \A c \in S \ {DiskGenesis} : DiskParent[c] \in S
           g == [b \in DiskBlocks |-> {x \in DiskBlocks : \A S \in SUBSET DiskBlocks :
                                          b \in S /\ Closed(S) => x \in S}]
<1>1. \A b \in DiskBlocks : g[b] \in SUBSET DiskBlocks /\ Closed(g[b]) /\ b \in g[b]
  BY DiskAssumption
<1>2. \A b \in DiskBlocks \ {DiskGenesis} : g[b] = {b} \cup g[DiskParent[b]]
  <2> TAKE b \in DiskBlocks \ {DiskGenesis}
  <2> DEFINE p == DiskParent[b]
  <2>0. p \in DiskBlocks
    BY DiskAssumption
  <2>1. ASSUME NEW x \in g[p] PROVE x \in g[b]
    BY <2>0, <2>1
  <2>2. Closed({b} \cup g[p]) /\ {b} \cup g[p] \in SUBSET DiskBlocks
    BY <1>1, <2>0
  <2>3. ASSUME NEW x \in g[b] PROVE x \in {b} \cup g[p]
    BY <2>2, <2>3
  <2>4. b \in g[b]
    BY <1>1
  <2> HIDE DEF g
  <2> QED  BY <2>1, <2>3, <2>4
<1>3. g[DiskGenesis] = {DiskGenesis}
  <2>1. Closed({DiskGenesis})
    OBVIOUS
  <2>2. ASSUME NEW x \in g[DiskGenesis] PROVE x = DiskGenesis
    <3>1. {DiskGenesis} \in SUBSET DiskBlocks
      BY DiskAssumption
    <3>2. x \in {DiskGenesis}
      BY <2>1, <2>2, <3>1, DiskAssumption
    <3> QED  BY <3>2
  <2>3. DiskGenesis \in g[DiskGenesis]
    BY <1>1, DiskAssumption
  <2> HIDE DEF g
  <2> QED  BY <2>2, <2>3
<1>4. g = [b \in DiskBlocks |-> {b} \cup (IF b = DiskGenesis THEN {} ELSE g[DiskParent[b]])]
  BY <1>2, <1>3
<1> QED  BY <1>4 DEF DiskChain

\* The branch of every block reaches down to the first block.
LEMMA ChainFacts ==
    /\ DiskChain[DiskGenesis] = {DiskGenesis}
    /\ \A b \in DiskBlocks : /\ b \in DiskChain[b] /\ DiskGenesis \in DiskChain[b]
                            /\ DiskChain[b] \subseteq DiskBlocks
    /\ \A b \in DiskBlocks \ {DiskGenesis} :
          DiskParent[b] \in DiskBlocks /\ DiskChain[b] = {b} \cup DiskChain[DiskParent[b]]
<1>1. DiskChain[DiskGenesis] = {DiskGenesis}
  BY ChainEquation, DiskAssumption
<1>2. \A b \in DiskBlocks \ {DiskGenesis} :
         DiskParent[b] \in DiskBlocks /\ DiskChain[b] = {b} \cup DiskChain[DiskParent[b]]
  BY ChainEquation, DiskAssumption
<1> DEFINE S == {b \in DiskBlocks : DiskGenesis \in DiskChain[b] /\ DiskChain[b] \subseteq DiskBlocks}
<1>3. S = DiskBlocks
  <2>1. S \in SUBSET DiskBlocks /\ DiskGenesis \in S
    BY <1>1, DiskAssumption
  <2>2. \A b \in DiskBlocks \ {DiskGenesis} : DiskParent[b] \in S => b \in S
    BY <1>2
  <2> HIDE DEF S
  <2> QED  BY <2>1, <2>2, DiskTreeAssumption
<1>4. \A b \in DiskBlocks : b \in DiskChain[b]
  BY <1>1, <1>2
<1> QED  BY <1>1, <1>2, <1>3, <1>4

\* A number is at most itself.
LEMMA NotBehindItself == \A m, n \in Nat : m = n => m <= n
OBVIOUS

\* A height is a number.
LEMMA HeightType == \A b \in DiskBlocks : DiskHeight(b) \in Int
<1> TAKE b \in DiskBlocks
<1>1. Cardinality(DiskChain[b]) \in Nat
  BY ChainFacts, FS_Subset, FS_CardinalityType, DiskAssumption
<1> QED  BY <1>1 DEF DiskHeight

\* A slot is a pair, and NoSlot is none.
LEMMA SlotFacts ==
    /\ NoSlot \notin Slots
    /\ Cardinality(DiskBlocks) \in Nat
    /\ \A s \in Slots : s = <<s[1], s[2]>> /\ s[1] \in Files /\ s[2] \in Nat
    /\ \A f \in Files, n \in Nat : n < Cardinality(DiskBlocks) => <<f, n>> \in Slots
    /\ \A f \in Files : f \in Nat
<1>1. Cardinality(DiskBlocks) \in Nat
  BY FS_CardinalityType, DiskAssumption
<1> QED  BY <1>1, DiskAssumption DEF Slots, NoSlot, Files

\* A set of natural numbers that is not empty has a least element.
LEMMA LeastNumber ==
    ASSUME NEW T \in SUBSET Nat, T # {}
    PROVE  \E n \in T : \A m \in T : n <= m
<1> DEFINE R == {ss \in Nat \X Nat : ss[1] < ss[2]}
<1>1. IsWellFoundedOn(R, Nat)
  BY NatLessThanWellFounded DEF OpToRel
<1>2. \A x, y \in Nat : y < x => <<y, x>> \in R
  OBVIOUS
<1> HIDE DEF R
<1>3. PICK x \in T : \A y \in T : ~ (<<y, x>> \in R)
  BY <1>1, WFMin
<1>4. \A y \in T : ~ (y < x)
  BY <1>2, <1>3
<1>5. \A y \in T : x <= y
  BY <1>4
<1> QED  BY <1>5

\* When a file has room, FindBlockPos takes one that has, not below the last one.
LEMMA FindBlockFileFacts ==
    ASSUME lastFile \in Files, fileInfo \in [Files -> Infos],
           \E f \in lastFile .. LastFileNumber : fileInfo[f].used < BlocksPerFile
    PROVE  /\ FindBlockFile \in Files /\ FindBlockFile >= lastFile
           /\ fileInfo[FindBlockFile].used < BlocksPerFile
<1> DEFINE T == {f \in lastFile .. LastFileNumber : fileInfo[f].used < BlocksPerFile}
<1>1. T \in SUBSET Nat /\ T # {}
  BY DiskAssumption DEF Files
<1>2. PICK n \in T : \A m \in T : n <= m
  BY <1>1, LeastNumber
<1>3. n \in lastFile .. LastFileNumber /\ fileInfo[n].used < BlocksPerFile
  OBVIOUS
<1>4. \A g \in lastFile .. n - 1 : fileInfo[g].used >= BlocksPerFile
  <2> TAKE g \in lastFile .. n - 1
  <2>1. g \in lastFile .. LastFileNumber /\ g \in Files /\ g < n
    BY <1>3, DiskAssumption DEF Files
  <2>2. g \notin T
    BY <1>2, <2>1, DiskAssumption DEF Files
  <2> QED  BY <2>1, <2>2, DiskAssumption DEF Infos
<1>5. /\ FindBlockFile \in lastFile .. LastFileNumber
      /\ fileInfo[FindBlockFile].used < BlocksPerFile
  BY <1>3, <1>4 DEF FindBlockFile
<1> QED  BY <1>5, DiskAssumption DEF Files

\* The blocks of a file are finitely many.
LEMMA InFileFinite ==
    ASSUME NEW e, NEW info, IndexFits(e, info), NEW f
    PROVE  IsFiniteSet(DataIn(e, f)) /\ IsFiniteSet(UndoIn(e, f))
<1>1. DataIn(e, f) \subseteq DiskBlocks /\ UndoIn(e, f) \subseteq DiskBlocks
  BY DEF IndexFits, DataIn, UndoIn
<1> QED  BY <1>1, FS_Subset, DiskAssumption

-----------------------------------------------------------------------------
(* Each operation keeps the invariant.                                     *)

\* AcceptBlock: neither the index in memory nor the one in the database refers
\* to the slot that is given out.
LEMMA AcceptKeeps ==
    ASSUME DiskGood, NEW b \in DiskBlocks, AcceptBlockData(b)
    PROVE  DiskGood'
<1> USE DEF Known
<1> DEFINE f == FindBlockFile
           slot == <<f, fileInfo[f].used>>
           old == IF b \in Known THEN entry[b] ELSE NewEntry
<1>1. flush = FlushIdle /\ Up /\ MemoryGood
  BY DEF DiskGood, DiskTypes, AcceptBlockData, Up
<1>2. f \in Files /\ f >= lastFile /\ f \in Nat /\ lastFile \in Nat
  BY <1>1, FindBlockFileFacts, SlotFacts
     DEF AcceptBlockData, DiskGood, DiskTypes, MemoryGood, IndexFits
<1>3. /\ b \notin DiskChain[chainTip]
      /\ b \in Known => entry[b].data = NoSlot
      /\ blk' = [blk EXCEPT ![slot] = b]
      /\ blkFiles' = blkFiles \cup {f}
      /\ synced' = SyncedWhenLeaving(f) \ {<<"blk", slot>>}
      /\ lastFile' = f
      /\ fileInfo' = [fileInfo EXCEPT ![f].used = @ + 1,
                         ![f].top = IF DiskHeight(b) > @ THEN DiskHeight(b) ELSE @]
      /\ dirtyFiles' = dirtyFiles \cup {f}
      /\ entry' = [c \in Known \cup {b} |-> IF c = b THEN [old EXCEPT !.data = slot] ELSE entry[c]]
      /\ dirty' = dirty \cup {b}
      /\ UNCHANGED <<chainTip, flush, rev, dbEntry, dbInfo, dbLast, dbPruned, dbCoins, oldCoins, harm>>
  BY DEF AcceptBlockData, database
<1> HIDE DEF f
<1>4. slot \in Slots /\ fileInfo[f].used \in Nat
  <2>1. DataIn(entry, f) \subseteq DiskBlocks \ {b}
    BY <1>1, <1>3 DEF MemoryGood, IndexFits, DataIn
  <2>2. /\ IsFiniteSet(DiskBlocks \ {b})
        /\ Cardinality(DiskBlocks \ {b}) = Cardinality(DiskBlocks) - 1
    BY FS_RemoveElement, DiskAssumption
  <2>3. Cardinality(DataIn(entry, f)) <= Cardinality(DiskBlocks) - 1
    BY <2>1, <2>2, FS_Subset
  <2>4. fileInfo[f].used = Cardinality(DataIn(entry, f)) /\ fileInfo[f].used \in Nat
    BY <1>1, <1>2 DEF MemoryGood, IndexFits, Infos
  <2> QED  BY <1>2, <2>3, <2>4, SlotFacts
<1>5. /\ DOMAIN entry' = Known \cup {b}
      /\ \A c \in Known \ {b} : entry'[c] = entry[c]
      /\ entry'[b] = [data |-> slot, undo |-> NoSlot]
  <2>1. b \in Known => entry[b] \in Entries /\ entry[b].undo = NoSlot
    BY <1>1, <1>3 DEF MemoryGood, IndexFits
  <2>2. old = [data |-> NoSlot, undo |-> NoSlot]
    BY <1>3, <2>1 DEF NewEntry, Entries
  <2> QED  BY <1>3, <2>2
<1>6. IndexFits(entry, fileInfo)'
  <2>1. DOMAIN entry' \subseteq DiskBlocks /\ entry' \in [DOMAIN entry' -> Entries]
    <3>1. /\ DOMAIN entry \subseteq DiskBlocks /\ \A c \in DOMAIN entry : entry[c] \in Entries
          /\ entry' = [c \in DOMAIN entry' |-> entry'[c]]
      BY <1>1, <1>3 DEF MemoryGood, IndexFits
    <3>2. entry'[b] \in Entries
      BY <1>4, <1>5 DEF Entries
    <3> QED  BY <1>5, <3>1, <3>2
  <2>2. /\ fileInfo' \in [Files -> Infos]
        /\ fileInfo'[f].used = fileInfo[f].used + 1 /\ fileInfo'[f].undoUsed = fileInfo[f].undoUsed
        /\ \A g \in Files \ {f} : fileInfo'[g] = fileInfo[g]
    <3>1. DiskHeight(b) \in Int
      BY HeightType
    <3>2. fileInfo \in [Files -> Infos]
      BY <1>1 DEF MemoryGood, IndexFits
    <3>3. \A g \in Files \ {f} : fileInfo'[g] = fileInfo[g]
      BY <1>3, <3>2
    <3>4. /\ fileInfo'[f].used = fileInfo[f].used + 1 /\ fileInfo'[f].undoUsed = fileInfo[f].undoUsed
          /\ fileInfo'[f] \in Infos
      <4> DEFINE h == DiskHeight(b)
                 i == fileInfo[f]
                 t == IF h > i.top THEN h ELSE i.top
      <4>1. i \in Infos /\ h \in Int
        BY <1>2, <3>1, <3>2
      <4>2. fileInfo'[f] = [[i EXCEPT !.used = @ + 1] EXCEPT !.top = t]
        BY <1>2, <1>3, <3>2, <4>1 DEF Infos
      <4>3. t \in Int
        BY <4>1 DEF Infos
      <4> HIDE DEF h, i, t
      <4>4. fileInfo'[f] = [used |-> i.used + 1, undoUsed |-> i.undoUsed, top |-> t]
        BY <4>1, <4>2 DEF Infos
      <4>5. fileInfo'[f] \in Infos
        BY <4>1, <4>3, <4>4 DEF Infos
      <4>6. fileInfo'[f].used = i.used + 1 /\ fileInfo'[f].undoUsed = i.undoUsed
        BY <4>4
      <4> QED  BY <4>5, <4>6 DEF i
    <3> QED  BY <1>2, <1>3, <3>2, <3>3, <3>4
  <2>3. \A c \in DOMAIN entry' : entry'[c].data # NoSlot =>
           entry'[c].data[2] < fileInfo'[entry'[c].data[1]].used
    <3> TAKE c \in DOMAIN entry'
    <3>1. CASE c = b
      BY <1>2, <1>4, <1>5, <2>2, <3>1
    <3>2. CASE c # b
      <4>1. c \in DOMAIN entry /\ entry'[c] = entry[c] /\ entry[c] \in Entries
        BY <1>1, <1>5, <3>2 DEF MemoryGood, IndexFits
      <4>2. entry[c].data # NoSlot => /\ entry[c].data[1] \in Files /\ entry[c].data[2] \in Nat
                                      /\ entry[c].data[2] < fileInfo[entry[c].data[1]].used
        BY <1>1, <4>1, SlotFacts DEF MemoryGood, IndexFits, Entries
      <4> QED  BY <1>4, <2>2, <4>1, <4>2
    <3> QED  BY <3>1, <3>2
  <2>4. \A c \in DOMAIN entry' : entry'[c].undo # NoSlot =>
           /\ entry'[c].data # NoSlot /\ entry'[c].undo[1] = entry'[c].data[1]
           /\ entry'[c].undo[2] < fileInfo'[entry'[c].undo[1]].undoUsed
    <3> TAKE c \in DOMAIN entry'
    <3>1. CASE c = b
      BY <1>5, <3>1
    <3>2. CASE c # b
      <4>1. c \in DOMAIN entry /\ entry'[c] = entry[c] /\ entry[c] \in Entries
        BY <1>1, <1>5, <3>2 DEF MemoryGood, IndexFits
      <4>2. entry[c].undo # NoSlot => entry[c].undo[1] \in Files
        BY <4>1, SlotFacts DEF Entries
      <4> QED  BY <1>1, <2>2, <4>1, <4>2 DEF MemoryGood, IndexFits
    <3> QED  BY <3>1, <3>2
  <2>5. ASSUME NEW g \in Files
        PROVE  /\ fileInfo'[g].used = Cardinality(DataIn(entry', g))
               /\ fileInfo'[g].undoUsed = Cardinality(UndoIn(entry', g))
    <3>1. UndoIn(entry', g) = UndoIn(entry, g)
      BY <1>1, <1>3, <1>5 DEF UndoIn, MemoryGood, IndexFits
    <3>2. fileInfo'[g].undoUsed = fileInfo[g].undoUsed
      BY <2>2
    <3>3. CASE g = f
      <4>1. DataIn(entry', g) = DataIn(entry, g) \cup {b} /\ b \notin DataIn(entry, g)
        BY <1>3, <1>4, <1>5, <3>3, SlotFacts DEF DataIn
      <4>2. Cardinality(DataIn(entry', g)) = Cardinality(DataIn(entry, g)) + 1
        BY <1>1, <4>1, InFileFinite, FS_AddElement DEF MemoryGood
      <4> QED  BY <1>1, <2>2, <3>1, <3>3, <4>2 DEF MemoryGood, IndexFits
    <3>4. CASE g # f
      <4>1. DataIn(entry', g) = DataIn(entry, g)
        BY <1>3, <1>5, <3>4 DEF DataIn
      <4> QED  BY <1>1, <2>2, <3>1, <3>4, <4>1 DEF MemoryGood, IndexFits
    <3> QED  BY <3>3, <3>4
  <2> QED  BY <2>1, <2>2, <2>3, <2>4, <2>5 DEF IndexFits
<1>7. /\ \A c \in DOMAIN entry : entry[c].data # slot
      /\ \A c \in DOMAIN dbEntry : dbEntry[c].data # slot
  <2>1. fileInfo[f].used \in Nat /\ dbInfo[f].used \in Nat /\ dbInfo[f].used <= fileInfo[f].used
    BY <1>1, <1>2 DEF DiskGood, DatabaseGood, MemoryGood, MemoryAhead, IndexFits, Infos
  <2>2. slot # NoSlot /\ slot[1] = f /\ slot[2] = fileInfo[f].used
    BY <1>4, SlotFacts
  <2> HIDE DEF slot
  <2>3. \A c \in DOMAIN entry : entry[c].data # slot
    BY <1>1, <2>1, <2>2 DEF MemoryGood, IndexFits
  <2>4. \A c \in DOMAIN dbEntry : dbEntry[c].data # slot
    BY <2>1, <2>2 DEF DiskGood, DatabaseGood, IndexFits
  <2> QED  BY <2>3, <2>4
<1>8. slot \in Slots /\ slot # NoSlot /\ slot[1] = f
  BY <1>4, SlotFacts
<1> HIDE DEF slot, old
<1>9. DataThere(entry)' /\ DataThere(dbEntry)' /\ Synced(dbEntry)'
  <2>1. blk'[slot] = b /\ \A s \in Slots \ {slot} : blk'[s] = blk[s]
    BY <1>3, <1>8 DEF DiskGood, DiskTypes
  <2>2. /\ \A c \in DOMAIN entry : entry[c].data # NoSlot => entry[c].data \in Slots
        /\ \A c \in DOMAIN dbEntry : dbEntry[c].data # NoSlot => dbEntry[c].data \in Slots
    BY <1>1 DEF DiskGood, DatabaseGood, MemoryGood, IndexFits, Entries
  <2>3. DataThere(entry)'
    BY <1>1, <1>3, <1>5, <1>7, <1>8, <2>1, <2>2 DEF DataThere, MemoryGood
  <2>4. DataThere(dbEntry)'
    BY <1>3, <1>7, <2>1, <2>2 DEF DataThere, DiskGood, DatabaseGood
  <2>5. Synced(dbEntry)'
    BY <1>3, <1>7 DEF Synced, DiskGood, DatabaseGood, SyncedWhenLeaving, FlushBlockFile
  <2> QED  BY <2>3, <2>4, <2>5
<1>10. MemoryAhead'
  <2>1. /\ fileInfo'[f].used = fileInfo[f].used + 1 /\ fileInfo'[f].undoUsed = fileInfo[f].undoUsed
        /\ \A g \in Files \ {f} : fileInfo'[g] = fileInfo[g]
    BY <1>1, <1>2, <1>3 DEF MemoryGood, IndexFits, Infos
  <2>2. \A g \in Files : g >= lastFile' \/ fileInfo'[g].used > 0 =>
          dbInfo[g].used <= fileInfo'[g].used /\ dbInfo[g].undoUsed <= fileInfo'[g].undoUsed
    <3> TAKE g \in Files
    <3>1. /\ fileInfo[g].used \in Nat /\ dbInfo[g].used \in Nat /\ g \in Nat
          /\ g >= lastFile \/ fileInfo[g].used > 0 =>
               dbInfo[g].used <= fileInfo[g].used /\ dbInfo[g].undoUsed <= fileInfo[g].undoUsed
      BY <1>1, SlotFacts
         DEF DiskGood, DatabaseGood, MemoryGood, MemoryAhead, IndexFits, Infos
    <3>2. CASE g = f
      BY <1>2, <2>1, <3>1, <3>2
    <3>3. CASE g # f
      <4>1. fileInfo'[g] = fileInfo[g] /\ lastFile' = f
        BY <1>3, <2>1, <3>3
      <4>2. g >= lastFile' => g >= lastFile
        BY <1>2, <3>1, <4>1
      <4> QED  BY <3>1, <4>1, <4>2
    <3> QED  BY <3>2, <3>3
  <2> QED  BY <1>1, <1>2, <1>3, <1>5, <2>1, <2>2 DEF MemoryGood, MemoryAhead
<1>11. FlushInv'
  <2>1. ASSUME NEW c \in DOMAIN entry', entry'[c].data # NoSlot, entry'[c].data[1] # lastFile'
        PROVE  <<"blk", entry'[c].data>> \in synced'
    <3>1. c # b /\ entry'[c] = entry[c] /\ c \in DOMAIN entry
      BY <1>3, <1>5, <1>8, <2>1
    <3>2. entry[c].data \in Slots
      BY <1>1, <2>1, <3>1 DEF MemoryGood, IndexFits, Entries
    <3>3. <<"blk", entry[c].data>> \in SyncedWhenLeaving(f)
      BY <1>1, <1>3, <2>1, <3>1, <3>2
         DEF MemoryGood, FlushInv, FlushIdle, SyncedWhenLeaving, FlushBlockFile
    <3> QED  BY <1>3, <1>7, <3>1, <3>3
  <2> QED  BY <1>1, <1>3, <2>1 DEF FlushInv, FlushIdle
<1>12. UndoKept' /\ CoinsInv'
  <2>1. CoinsInv'
    BY <1>3 DEF CoinsInv, DiskGood, DatabaseGood
  <2>2. b \in DOMAIN dbEntry => b \in DOMAIN entry /\ entry[b].undo = NoSlot
    BY <1>1, <1>3 DEF MemoryGood, MemoryAhead, IndexFits
  <2> QED  BY <1>1, <1>3, <1>5, <2>1, <2>2 DEF MemoryGood, MemoryAhead, UndoKept,
                                          DiskGood, DiskTypes
<1>13. ASSUME harm' \subseteq {"corrupt"} PROVE harm' = {} /\ FaultFree'
  <2>1. harm' = {} /\ FaultFree
    BY <1>3, <1>13 DEF DiskGood
  <2>2. DiskChain[dbCoins] \subseteq DOMAIN entry /\ DiskChain[chainTip] \subseteq DOMAIN entry
    BY <1>1 DEF DiskGood, DiskTypes, DatabaseGood, CoinsInv, MemoryGood, MemoryAhead
  <2>3. b \notin DiskChain[dbCoins]
    BY <1>1, <1>3, <2>1, <2>2 DEF FaultFree, FlushIdle
  <2>4. UndoThere(dbEntry)' /\ UndoThere(entry)'
    BY <1>3, <1>5, <2>1 DEF FaultFree, UndoThere
  <2>5. Undoable(dbEntry, dbCoins)' /\ Undoable(entry, dbCoins)' /\ Undoable(entry, chainTip)'
    BY <1>1, <1>3, <1>5, <2>1, <2>2, <2>3 DEF FaultFree, Undoable
  <2> QED  BY <1>1, <1>3, <1>5, <2>1, <2>2, <2>3, <2>4, <2>5 DEF FaultFree, FlushIdle
<1>14. DiskTypes'
  BY <1>1, <1>2, <1>3, <1>5, <1>8 DEF DiskGood, DiskTypes, Up
<1> QED  BY <1>3, <1>6, <1>9, <1>10, <1>11, <1>12, <1>13, <1>14
         DEF DiskGood, DatabaseGood, MemoryGood, IndexFits

\* ConnectTip of a block that was connected before: only the tip changes.
LEMMA ReconnectKeeps ==
    ASSUME DiskGood, NEW b \in DiskBlocks, ConnectTip(b), entry[b].undo # NoSlot
    PROVE  DiskGood'
<1> USE DEF Known
<1>1. flush = FlushIdle /\ Up /\ MemoryGood
  BY DEF DiskGood, DiskTypes, ConnectTip, Up
<1>2. /\ b \in DOMAIN entry
      /\ DiskChain[b] = {b} \cup DiskChain[chainTip]
      /\ chainTip' = b
      /\ UNCHANGED <<entry, dirty, fileInfo, dirtyFiles, lastFile, flush, blk, rev, synced, blkFiles,
                     dbEntry, dbInfo, dbLast, dbPruned, dbCoins, oldCoins, harm>>
  BY ChainFacts DEF ConnectTip, HasData, database
<1>3. DiskTypes'
  BY <1>1, <1>2 DEF DiskGood, DiskTypes, Up
<1>4. DatabaseGood'
  BY <1>2 DEF DiskGood, DatabaseGood, IndexFits, DataThere, Synced, CoinsInv
<1>5. MemoryGood'
  BY <1>1, <1>2 DEF MemoryGood, IndexFits, DataThere, MemoryAhead, FlushInv, UndoKept
<1>6. ASSUME harm' \subseteq {"corrupt"} PROVE harm' = {} /\ FaultFree'
  BY <1>1, <1>2, <1>6 DEF DiskGood, FaultFree, UndoThere, Undoable, FlushIdle
<1> QED  BY <1>3, <1>4, <1>5, <1>6 DEF DiskGood

\* ConnectTip that writes undo data: the slot is not one of an index.
LEMMA ConnectKeeps ==
    ASSUME DiskGood, NEW b \in DiskBlocks, ConnectTip(b), entry[b].undo = NoSlot
    PROVE  DiskGood'
<1> USE DEF Known
<1> DEFINE f == entry[b].data[1]
           slot == <<f, fileInfo[f].undoUsed>>
<1>1. flush = FlushIdle /\ Up /\ MemoryGood
  BY DEF DiskGood, DiskTypes, ConnectTip, Up
<1>2. /\ b \in DOMAIN entry /\ entry[b].data # NoSlot
      /\ DiskChain[b] = {b} \cup DiskChain[chainTip]
      /\ chainTip' = b
      /\ rev' = [rev EXCEPT ![slot] = b]
      /\ synced' = synced \ {<<"rev", slot>>}
      /\ fileInfo' = [fileInfo EXCEPT ![f].undoUsed = @ + 1]
      /\ dirtyFiles' = dirtyFiles \cup {f}
      /\ entry' = [entry EXCEPT ![b].undo = slot]
      /\ dirty' = dirty \cup {b}
      /\ UNCHANGED <<lastFile, flush, blk, blkFiles, dbEntry, dbInfo, dbLast, dbPruned, dbCoins,
                     oldCoins, harm>>
  BY ChainFacts DEF ConnectTip, HasData, database, UndoDirty
<1>3. /\ entry[b] \in Entries /\ entry[b].data \in Slots
      /\ f \in Files /\ fileInfo[f] \in Infos /\ fileInfo[f].used > 0
  <2>1. entry[b] \in Entries /\ entry[b].data \in Slots /\ fileInfo \in [Files -> Infos]
    BY <1>1, <1>2 DEF MemoryGood, IndexFits, Entries
  <2>2. f \in Files /\ entry[b].data[2] \in Nat /\ entry[b].data[2] < fileInfo[f].used
    BY <1>1, <1>2, <2>1, SlotFacts DEF MemoryGood, IndexFits
  <2>3. fileInfo[f] \in Infos
    BY <2>1, <2>2
  <2> QED  BY <2>1, <2>2, <2>3 DEF Infos
<1> HIDE DEF f
<1>4. slot \in Slots /\ slot # NoSlot /\ slot[1] = f /\ slot[2] = fileInfo[f].undoUsed
  <2>1. UndoIn(entry, f) \subseteq DiskBlocks \ {b}
    BY <1>1, <1>2 DEF MemoryGood, IndexFits, UndoIn
  <2>2. /\ IsFiniteSet(DiskBlocks \ {b})
        /\ Cardinality(DiskBlocks \ {b}) = Cardinality(DiskBlocks) - 1
    BY FS_RemoveElement, DiskAssumption
  <2>3. Cardinality(UndoIn(entry, f)) <= Cardinality(DiskBlocks) - 1
    BY <2>1, <2>2, FS_Subset
  <2>4. fileInfo[f].undoUsed = Cardinality(UndoIn(entry, f)) /\ fileInfo[f].undoUsed \in Nat
    BY <1>1, <1>3 DEF MemoryGood, IndexFits, Infos
  <2> QED  BY <1>3, <2>3, <2>4, SlotFacts
<1> HIDE DEF slot
<1>5. /\ DOMAIN entry' = DOMAIN entry /\ entry' = [c \in DOMAIN entry |-> entry'[c]]
      /\ \A c \in DOMAIN entry \ {b} : entry'[c] = entry[c]
      /\ entry'[b].data = entry[b].data /\ entry'[b].undo = slot /\ entry'[b] \in Entries
  BY <1>1, <1>2, <1>3, <1>4 DEF Entries, MemoryGood, IndexFits
<1>6. /\ fileInfo' \in [Files -> Infos]
      /\ fileInfo'[f].undoUsed = fileInfo[f].undoUsed + 1 /\ fileInfo'[f].used = fileInfo[f].used
      /\ \A g \in Files \ {f} : fileInfo'[g] = fileInfo[g]
  BY <1>1, <1>2, <1>3 DEF Infos, MemoryGood, IndexFits
<1>7. /\ \A c \in DOMAIN entry : entry[c].undo # slot
      /\ \A c \in DOMAIN dbEntry : dbEntry[c].undo # slot
  <2>1. /\ fileInfo[f].undoUsed \in Nat /\ dbInfo[f].undoUsed \in Nat
        /\ dbInfo[f].undoUsed <= fileInfo[f].undoUsed
    BY <1>1, <1>3 DEF DiskGood, DatabaseGood, MemoryGood, MemoryAhead, IndexFits, Infos
  <2>2. \A c \in DOMAIN entry : entry[c].undo # slot
    BY <1>1, <1>4, <2>1 DEF MemoryGood, IndexFits
  <2>3. \A c \in DOMAIN dbEntry : dbEntry[c].undo # slot
    BY <1>4, <2>1 DEF DiskGood, DatabaseGood, IndexFits
  <2> QED  BY <2>2, <2>3
<1>8. IndexFits(entry, fileInfo)'
  <2>1. DOMAIN entry' \subseteq DiskBlocks /\ entry' \in [DOMAIN entry' -> Entries]
    BY <1>1, <1>5 DEF MemoryGood, IndexFits
  <2>2. \A c \in DOMAIN entry' : entry'[c].data # NoSlot =>
           entry'[c].data[2] < fileInfo'[entry'[c].data[1]].used
    <3> TAKE c \in DOMAIN entry'
    <3>1. entry'[c].data = entry[c].data /\ c \in DOMAIN entry /\ entry[c] \in Entries
      BY <1>1, <1>5 DEF MemoryGood, IndexFits
    <3>2. entry[c].data # NoSlot => entry[c].data[1] \in Files
      BY <3>1, SlotFacts DEF Entries
    <3>3. \A g \in Files : fileInfo'[g].used = fileInfo[g].used
      BY <1>6
    <3> QED  BY <1>1, <3>1, <3>2, <3>3 DEF MemoryGood, IndexFits
  <2>3. \A c \in DOMAIN entry' : entry'[c].undo # NoSlot =>
           /\ entry'[c].data # NoSlot /\ entry'[c].undo[1] = entry'[c].data[1]
           /\ entry'[c].undo[2] < fileInfo'[entry'[c].undo[1]].undoUsed
    <3> TAKE c \in DOMAIN entry'
    <3>1. CASE c = b
      <4>1. entry[b].data[1] = f
        BY DEF f
      <4> QED  BY <1>2, <1>3, <1>4, <1>5, <1>6, <3>1, <4>1 DEF Infos
    <3>2. CASE c # b
      <4>1. c \in DOMAIN entry /\ entry'[c] = entry[c] /\ entry[c] \in Entries
        BY <1>1, <1>5, <3>2 DEF MemoryGood, IndexFits
      <4>2. entry[c].undo # NoSlot => entry[c].undo[1] \in Files /\ entry[c].undo[2] \in Nat
        BY <4>1, SlotFacts DEF Entries
      <4>3. entry[c].undo # NoSlot => entry[c].undo[2] < fileInfo'[entry[c].undo[1]].undoUsed
        BY <1>1, <1>3, <1>6, <4>1, <4>2 DEF MemoryGood, IndexFits, Infos
      <4> QED  BY <1>1, <4>1, <4>3 DEF MemoryGood, IndexFits
    <3> QED  BY <3>1, <3>2
  <2>4. ASSUME NEW g \in Files
        PROVE  /\ fileInfo'[g].used = Cardinality(DataIn(entry', g))
               /\ fileInfo'[g].undoUsed = Cardinality(UndoIn(entry', g))
    <3>1. DataIn(entry', g) = DataIn(entry, g)
      BY <1>5 DEF DataIn
    <3>2. fileInfo'[g].used = fileInfo[g].used
      BY <1>6
    <3>3. CASE g = f
      <4>1. UndoIn(entry', g) = UndoIn(entry, g) \cup {b} /\ b \notin UndoIn(entry, g)
        BY <1>2, <1>4, <1>5, <3>3 DEF UndoIn
      <4>2. Cardinality(UndoIn(entry', g)) = Cardinality(UndoIn(entry, g)) + 1
        BY <1>1, <4>1, InFileFinite, FS_AddElement DEF MemoryGood
      <4> QED  BY <1>1, <1>6, <3>1, <3>2, <3>3, <4>2 DEF MemoryGood, IndexFits
    <3>4. CASE g # f
      <4>1. UndoIn(entry', g) = UndoIn(entry, g)
        BY <1>2, <1>4, <1>5, <3>4 DEF UndoIn
      <4> QED  BY <1>1, <1>6, <3>1, <3>4, <4>1 DEF MemoryGood, IndexFits
    <3> QED  BY <3>3, <3>4
  <2> QED  BY <1>6, <2>1, <2>2, <2>3, <2>4 DEF IndexFits
<1>9. DataThere(entry)' /\ FlushInv'
  BY <1>1, <1>2, <1>5 DEF MemoryGood, DataThere, FlushInv, FlushIdle
<1>10. DatabaseGood'
  BY <1>2 DEF DiskGood, DatabaseGood, IndexFits, DataThere, Synced, CoinsInv
<1>11. MemoryAhead'
  <2>1. \A g \in Files : g >= lastFile' \/ fileInfo'[g].used > 0 =>
          dbInfo[g].used <= fileInfo'[g].used /\ dbInfo[g].undoUsed <= fileInfo'[g].undoUsed
    <3> TAKE g \in Files
    <3>1. /\ fileInfo[g].undoUsed \in Nat /\ dbInfo[g].undoUsed \in Nat
          /\ g >= lastFile \/ fileInfo[g].used > 0 =>
               dbInfo[g].used <= fileInfo[g].used /\ dbInfo[g].undoUsed <= fileInfo[g].undoUsed
      BY <1>1 DEF DiskGood, DatabaseGood, MemoryGood, MemoryAhead, IndexFits, Infos
    <3>2. lastFile' = lastFile /\ fileInfo'[g].used = fileInfo[g].used
          /\ fileInfo'[g].undoUsed \in {fileInfo[g].undoUsed, fileInfo[g].undoUsed + 1}
      BY <1>2, <1>6
    <3> QED  BY <3>1, <3>2
  <2> QED  BY <1>1, <1>2, <1>3, <1>5, <1>6, <2>1 DEF MemoryGood, MemoryAhead
<1>12. UndoKept'
  BY <1>1, <1>2, <1>4, <1>5 DEF MemoryGood, MemoryAhead, UndoKept, DiskGood, DiskTypes
<1>13. ASSUME harm' \subseteq {"corrupt"} PROVE harm' = {} /\ FaultFree'
  <2>1. harm' = {} /\ FaultFree
    BY <1>2, <1>13 DEF DiskGood
  <2>2. rev'[slot] = b /\ \A s \in Slots \ {slot} : rev'[s] = rev[s]
    BY <1>2, <1>4 DEF DiskGood, DiskTypes
  <2>3. /\ \A c \in DOMAIN entry : entry[c].undo # NoSlot => entry[c].undo \in Slots
        /\ \A c \in DOMAIN dbEntry : dbEntry[c].undo # NoSlot => dbEntry[c].undo \in Slots
    BY <1>1 DEF DiskGood, DatabaseGood, MemoryGood, IndexFits, Entries
  <2>4. UndoThere(dbEntry)' /\ UndoThere(entry)'
    BY <1>2, <1>5, <1>7, <2>1, <2>2, <2>3 DEF FaultFree, UndoThere
  <2>5. DiskChain[dbCoins] \subseteq DOMAIN entry /\ DiskChain[chainTip] \subseteq DOMAIN entry
    BY <1>1 DEF DiskGood, DiskTypes, DatabaseGood, CoinsInv, MemoryGood, MemoryAhead
  <2>6. Undoable(dbEntry, dbCoins)' /\ Undoable(entry, dbCoins)' /\ Undoable(entry, chainTip)'
    BY <1>1, <1>2, <1>4, <1>5, <2>1, <2>5 DEF FaultFree, Undoable
  <2> QED  BY <1>1, <1>2, <1>5, <2>1, <2>4, <2>5, <2>6 DEF FaultFree, FlushIdle
<1>14. DiskTypes'
  BY <1>1, <1>2, <1>4, <1>5 DEF DiskGood, DiskTypes, Up
<1> QED  BY <1>8, <1>9, <1>10, <1>11, <1>12, <1>13, <1>14 DEF DiskGood, MemoryGood

\* DisconnectTip: the first block stays, and the block that is left has data.
LEMMA DisconnectKeeps ==
    ASSUME DiskGood, DisconnectTip
    PROVE  DiskGood'
<1> USE DEF Known
<1>1. flush = FlushIdle /\ Up /\ MemoryGood /\ chainTip \in DiskBlocks
  BY DEF DiskGood, DiskTypes, DisconnectTip, Up
<1>2. chainTip # DiskGenesis
  <2>1. PICK b \in DOMAIN entry : chainTip \notin DiskChain[b]
    BY DEF DisconnectTip
  <2>2. b \in DiskBlocks
    BY <1>1, <2>1 DEF MemoryGood, IndexFits
  <2> QED  BY <2>1, <2>2, ChainFacts
<1>3. /\ chainTip' \in DiskBlocks /\ DiskChain[chainTip] = {chainTip} \cup DiskChain[chainTip']
      /\ entry[chainTip].data # NoSlot
      /\ UNCHANGED <<entry, dirty, fileInfo, dirtyFiles, lastFile, flush, blk, rev, synced, blkFiles,
                     dbEntry, dbInfo, dbLast, dbPruned, dbCoins, oldCoins, harm>>
  BY <1>1, <1>2, ChainFacts DEF DisconnectTip, database, files
<1>4. DiskTypes'
  BY <1>1, <1>3 DEF DiskGood, DiskTypes, Up
<1>5. DatabaseGood'
  BY <1>3 DEF DiskGood, DatabaseGood, IndexFits, DataThere, Synced, CoinsInv
<1>6. MemoryGood'
  BY <1>1, <1>3 DEF MemoryGood, IndexFits, DataThere, MemoryAhead, FlushInv, UndoKept
<1>7. ASSUME harm' \subseteq {"corrupt"} PROVE harm' = {} /\ FaultFree'
  BY <1>1, <1>3, <1>7 DEF DiskGood, FaultFree, UndoThere, Undoable, FlushIdle
<1> QED  BY <1>4, <1>5, <1>6, <1>7 DEF DiskGood

\* The head of FlushStateToDisk: what is pruned is below the file in use.
LEMMA StartKeeps ==
    ASSUME DiskGood, NEW P \in PruneChoices \cup {{}}, NEW full \in BOOLEAN, StartFlush(P, full)
    PROVE  DiskGood'
<1> USE DEF Known
<1> DEFINE inP(b) == entry[b].data # NoSlot /\ entry[b].data[1] \in P
<1>1. flush = FlushIdle /\ Up /\ MemoryGood
  BY DEF DiskGood, DiskTypes, StartFlush, Up
<1>2. P \subseteq Files /\ \A f \in P : f < lastFile
  <2>1. P \subseteq PrunableFiles
    BY DEF PruneChoices
  <2>2. lastFile \in 0 .. LastFileNumber
    BY DEF DiskGood, DiskTypes, Files
  <2>3. PrunableFiles \subseteq 0 .. lastFile - 1
    BY DEF PrunableFiles
  <2> QED  BY <2>1, <2>2, <2>3, DiskAssumption DEF Files
<1>3. /\ DOMAIN entry' = DOMAIN entry
      /\ entry' = [b \in DOMAIN entry |-> entry'[b]]
      /\ \A b \in DOMAIN entry : inP(b) => entry'[b] = [data |-> NoSlot, undo |-> NoSlot]
      /\ \A b \in DOMAIN entry : ~ inP(b) => entry'[b] = entry[b]
      /\ dirty' = dirty \cup {b \in DOMAIN entry : inP(b)}
      /\ fileInfo' = [f \in Files |-> IF f \in P THEN NullInfo ELSE fileInfo[f]]
      /\ dirtyFiles' = dirtyFiles \cup P
  <2>1. \A b \in DOMAIN entry : entry[b] \in Entries
    BY <1>1 DEF MemoryGood, IndexFits
  <2> QED  BY <2>1 DEF StartFlush, PruneFiles, Entries
<1> HIDE DEF inP
<1>14. \A b \in DOMAIN entry : entry'[b].data # NoSlot \/ entry'[b].undo # NoSlot => entry'[b] = entry[b]
  BY <1>3
<1>15. P = {} => \A b \in DOMAIN entry : entry'[b] = entry[b]
  BY <1>3 DEF inP
<1>4. /\ P # {} => full
      /\ \/ /\ synced' = FlushBlockFile
            /\ flush' = [at |-> "index", full |-> full, prune |-> P]
            /\ harm' = harm
         \/ /\ harm' = harm \cup {"disk space"}
            /\ synced' = synced /\ flush' = flush
      /\ dbPruned' = IF P # {} /\ dbPruned = "no" THEN "written" ELSE dbPruned
      /\ UNCHANGED <<lastFile, chainTip, blk, rev, blkFiles, dbEntry, dbInfo, dbLast, dbCoins, oldCoins>>
  BY DEF StartFlush
<1>5. IndexFits(entry, fileInfo)'
  <2>1. DOMAIN entry' \subseteq DiskBlocks /\ entry' \in [DOMAIN entry' -> Entries]
    BY <1>1, <1>3 DEF MemoryGood, IndexFits, Entries
  <2>2. fileInfo' \in [Files -> Infos]
    BY <1>1, <1>3 DEF MemoryGood, IndexFits, NullInfo, Infos
  <2>3. ASSUME NEW b \in DOMAIN entry'
        PROVE  /\ entry'[b].data # NoSlot =>
                     entry'[b].data[2] < fileInfo'[entry'[b].data[1]].used
               /\ entry'[b].undo # NoSlot =>
                     /\ entry'[b].data # NoSlot /\ entry'[b].undo[1] = entry'[b].data[1]
                     /\ entry'[b].undo[2] < fileInfo'[entry'[b].undo[1]].undoUsed
    <3>1. CASE inP(b)
      BY <1>3, <3>1
    <3>2. CASE ~ inP(b)
      <4>1. b \in DOMAIN entry /\ entry'[b] = entry[b] /\ entry[b] \in Entries
        BY <1>1, <1>3, <3>2 DEF MemoryGood, IndexFits
      <4>2. entry[b].data # NoSlot =>
              entry[b].data[1] \in Files /\ fileInfo'[entry[b].data[1]] = fileInfo[entry[b].data[1]]
        BY <1>3, <3>2, <4>1, SlotFacts DEF Entries, inP
      <4> QED  BY <1>1, <4>1, <4>2 DEF MemoryGood, IndexFits
    <3> QED  BY <3>1, <3>2
  <2>4. ASSUME NEW g \in Files
        PROVE  /\ fileInfo'[g].used = Cardinality(DataIn(entry', g))
               /\ fileInfo'[g].undoUsed = Cardinality(UndoIn(entry', g))
    <3>1. CASE g \in P
      <4>1. DataIn(entry', g) = {} /\ UndoIn(entry', g) = {}
        BY <1>1, <1>3, <3>1 DEF DataIn, UndoIn, MemoryGood, IndexFits, inP
      <4>2. fileInfo'[g] = NullInfo
        BY <1>3, <3>1
      <4> QED  BY <4>1, <4>2, FS_EmptySet DEF NullInfo
    <3>2. CASE g \notin P
      <4>1. DataIn(entry', g) = DataIn(entry, g) /\ UndoIn(entry', g) = UndoIn(entry, g)
        BY <1>1, <1>3, <3>2 DEF DataIn, UndoIn, MemoryGood, IndexFits, inP
      <4> QED  BY <1>1, <1>3, <3>2, <4>1 DEF MemoryGood, IndexFits
    <3> QED  BY <3>1, <3>2
  <2> QED  BY <2>1, <2>2, <2>3, <2>4 DEF IndexFits
<1>6. MemoryAhead'
  <2>1. \A g \in Files : g >= lastFile' \/ fileInfo'[g].used > 0 => fileInfo'[g] = fileInfo[g]
    <3> TAKE g \in Files
    <3>1. CASE g \in P
      <4>1. fileInfo'[g].used = 0 /\ g < lastFile /\ lastFile' = lastFile
        BY <1>2, <1>3, <1>4, <3>1 DEF NullInfo
      <4>2. g \in Nat /\ lastFile \in Nat
        BY SlotFacts DEF DiskGood, DiskTypes
      <4> QED  BY <4>1, <4>2
    <3>2. CASE g \notin P
      BY <1>3, <3>2
    <3> QED  BY <3>1, <3>2
  <2>2. \A g \in Files \ dirtyFiles' : dbInfo[g] = fileInfo'[g]
    BY <1>1, <1>3 DEF MemoryGood, MemoryAhead
  <2>3. \A g \in Files : g >= lastFile' \/ fileInfo'[g].used > 0 =>
          dbInfo[g].used <= fileInfo'[g].used /\ dbInfo[g].undoUsed <= fileInfo'[g].undoUsed
    BY <1>1, <1>4, <2>1 DEF MemoryGood, MemoryAhead
  <2> QED  BY <1>1, <1>2, <1>3, <1>4, <2>2, <2>3 DEF MemoryGood, MemoryAhead
<1>7. FlushInv'
  <2>1. ASSUME NEW b \in DOMAIN entry', entry'[b].data # NoSlot
        PROVE  /\ entry'[b].data = entry[b].data /\ entry[b].data[1] \notin P
               /\ \/ <<"blk", entry[b].data>> \in synced
                  \/ entry[b].data \in Slots /\ entry[b].data[1] = lastFile
    BY <1>1, <1>3, <2>1 DEF MemoryGood, FlushInv, IndexFits, Entries, inP
  <2>2. CASE flush' = [at |-> "index", full |-> full, prune |-> P] /\ synced' = FlushBlockFile
    BY <2>1, <2>2 DEF FlushInv, FlushBlockFile
  <2>3. CASE flush' = flush /\ synced' = synced
    BY <1>1, <1>4, <2>1, <2>3 DEF FlushInv, FlushIdle
  <2> QED  BY <1>4, <2>2, <2>3
<1>8. DataThere(entry)' /\ DataThere(dbEntry)' /\ Synced(dbEntry)'
  <2>1. DataThere(entry)'
    BY <1>1, <1>3, <1>4, <1>14 DEF MemoryGood, DataThere
  <2> QED  BY <1>4, <2>1 DEF DiskGood, DatabaseGood, DataThere, Synced, FlushBlockFile
<1>9. UndoKept' /\ CoinsInv'
  <2>1. CoinsInv'
    BY <1>4 DEF DiskGood, DatabaseGood, CoinsInv
  <2>2. dbPruned' = "no" => dbPruned = "no" /\ \A b \in DOMAIN entry : entry'[b] = entry[b]
    BY <1>4, <1>15 DEF DiskGood, DiskTypes
  <2>3. DiskChain[chainTip] \subseteq DOMAIN entry /\ DOMAIN dbEntry \subseteq DOMAIN entry
    BY <1>1 DEF DiskGood, DiskTypes, MemoryGood, MemoryAhead
  <2> QED  BY <1>1, <1>4, <2>1, <2>2, <2>3 DEF MemoryGood, UndoKept
<1>10. ASSUME harm' \subseteq {"corrupt"} PROVE harm' = {} /\ FaultFree'
  <2>1. flush' = [at |-> "index", full |-> full, prune |-> P] /\ harm' = harm
    BY <1>4, <1>10
  <2>2. harm' = {} /\ FaultFree
    BY <1>10, <2>1 DEF DiskGood
  <2>3. UndoThere(dbEntry)' /\ UndoThere(entry)'
    BY <1>3, <1>4, <1>14, <2>2 DEF FaultFree, UndoThere
  <2>4. DiskChain[dbCoins] \subseteq DOMAIN entry /\ DiskChain[chainTip] \subseteq DOMAIN entry
    BY <1>1 DEF DiskGood, DiskTypes, DatabaseGood, CoinsInv, MemoryGood, MemoryAhead
  <2>5. Undoable(dbEntry, dbCoins)' /\ Undoable(entry, dbCoins)' /\ Undoable(entry, chainTip)'
    BY <1>1, <1>3, <1>4, <1>14, <2>2, <2>4 DEF FaultFree, Undoable
  <2>6. flush'.full = full
    BY <2>1
  <2>7. ~ flush'.full => \A b \in DiskChain[dbCoins] \ DiskChain[chainTip] : entry'[b].data # NoSlot
    BY <1>1, <1>4, <1>15, <2>2, <2>4, <2>6 DEF FaultFree, FlushIdle
  <2> QED  BY <1>4, <2>2, <2>3, <2>5, <2>7 DEF FaultFree
<1>11. DiskTypes' /\ Up'
  <2>1. flush' \in [at : FlushSteps, full : BOOLEAN, prune : SUBSET Files]
    <3>1. CASE flush' = [at |-> "index", full |-> full, prune |-> P]
      BY <1>2, <3>1 DEF FlushSteps
    <3>2. CASE flush' = flush
      BY <3>2 DEF DiskGood, DiskTypes
    <3> QED  BY <1>4, <3>1, <3>2
  <2>2. /\ flush'.at = "idle" => flush' = FlushIdle
        /\ flush'.prune # {} => flush'.full
        /\ flush'.at \notin {"coins", "down"}
    <3>1. CASE flush' = [at |-> "index", full |-> full, prune |-> P]
      BY <1>4, <3>1
    <3>2. CASE flush' = flush
      BY <1>1, <3>2 DEF FlushIdle
    <3> QED  BY <1>4, <3>1, <3>2
  <2> QED  BY <1>1, <1>3, <1>4, <2>1, <2>2 DEF DiskGood, DiskTypes, Up
<1>12. IndexFits(dbEntry, dbInfo)'
  BY <1>4 DEF DiskGood, DatabaseGood, IndexFits
<1> QED  BY <1>5, <1>6, <1>7, <1>8, <1>9, <1>10, <1>11, <1>12 DEF DiskGood, DatabaseGood, MemoryGood

\* While no entry and no file is dirty the database is what is in memory.
LEMMA BatchFacts ==
    ASSUME DiskGood, Up
    PROVE  /\ [b \in DOMAIN dbEntry \cup dirty |-> IF b \in dirty THEN entry[b] ELSE dbEntry[b]] = entry
           /\ [f \in Files |-> IF f \in dirtyFiles THEN fileInfo[f] ELSE dbInfo[f]] = fileInfo
<1>1. MemoryAhead /\ IndexFits(entry, fileInfo)
  BY DEF DiskGood, MemoryGood
<1>2. DOMAIN dbEntry \cup dirty = DOMAIN entry
  BY <1>1 DEF MemoryAhead, Known
<1>3. \A b \in DOMAIN entry : (IF b \in dirty THEN entry[b] ELSE dbEntry[b]) = entry[b]
  BY <1>1 DEF MemoryAhead, Known
<1>4. \A f \in Files : (IF f \in dirtyFiles THEN fileInfo[f] ELSE dbInfo[f]) = fileInfo[f]
  BY <1>1 DEF MemoryAhead
<1>5. entry = [b \in DOMAIN entry |-> entry[b]] /\ fileInfo = [f \in Files |-> fileInfo[f]]
  BY <1>1 DEF IndexFits
<1> QED  BY <1>2, <1>3, <1>4, <1>5

\* The batch of the index: all of its data is synced, and the undo data of the
\* blocks the coins may be at is in it.
LEMMA IndexKeeps ==
    ASSUME DiskGood, WriteIndex, "index write" \notin harm'
    PROVE  DiskGood'
<1> USE DEF Known
<1>1. Up /\ MemoryGood /\ flush.at = "index"
  BY DEF DiskGood, WriteIndex, Up
<1>2. /\ dirty' = {} /\ dirtyFiles' = {}
      /\ dbEntry' = entry /\ dbInfo' = fileInfo /\ dbLast' = lastFile
      /\ dbPruned' = IF dbPruned = "written" THEN "yes" ELSE dbPruned
      /\ flush' = [flush EXCEPT !.at = "unlink"]
      /\ UNCHANGED <<entry, fileInfo, lastFile, chainTip, blk, rev, synced, blkFiles, dbCoins,
                     oldCoins, harm>>
  BY <1>1, BatchFacts DEF WriteIndex, IndexBatch, files
<1>3. flush'.at = "unlink" /\ flush'.full = flush.full /\ flush'.prune = flush.prune
  BY <1>2 DEF DiskGood, DiskTypes
<1>4. DiskTypes' /\ Up'
  <2>1. flush' \in [at : FlushSteps, full : BOOLEAN, prune : SUBSET Files]
    BY <1>2 DEF DiskGood, DiskTypes, FlushSteps
  <2> QED  BY <1>1, <1>2, <1>3, <2>1 DEF DiskGood, DiskTypes, Up
<1>5. IndexFits(entry, fileInfo)' /\ IndexFits(dbEntry, dbInfo)'
  BY <1>1, <1>2 DEF MemoryGood, IndexFits
<1>6. DataThere(entry)' /\ DataThere(dbEntry)' /\ Synced(dbEntry)'
  BY <1>1, <1>2 DEF MemoryGood, DataThere, Synced, FlushInv
<1>7. \A c \in oldCoins \cup {dbCoins} : DiskChain[c] \subseteq DOMAIN entry
  BY <1>1 DEF DiskGood, DatabaseGood, CoinsInv, MemoryGood, MemoryAhead
<1>8. CoinsInv'
  <2>1. dbPruned' # "yes" => dbPruned = "no"
    BY <1>2 DEF DiskGood, DiskTypes
  <2> QED  BY <1>1, <1>2, <1>7, <2>1 DEF DiskGood, DatabaseGood, CoinsInv, MemoryGood, UndoKept
<1>9. MemoryAhead' /\ UndoKept'
  <2>1. \A f \in Files : fileInfo[f].used <= fileInfo[f].used /\ fileInfo[f].undoUsed <= fileInfo[f].undoUsed
    <3>1. \A f \in Files : fileInfo[f] \in Infos
      BY <1>1 DEF MemoryGood, IndexFits
    <3>2. \A f \in Files : fileInfo[f].used \in Nat /\ fileInfo[f].undoUsed \in Nat
      BY <3>1 DEF Infos
    <3> QED  BY <3>2, NotBehindItself, Zenon
  <2> QED  BY <1>1, <1>2, <2>1 DEF MemoryGood, MemoryAhead, UndoKept
<1>10. FlushInv'
  BY <1>1, <1>2, <1>3 DEF MemoryGood, FlushInv, DiskGood, DiskTypes
<1>11. ASSUME harm' \subseteq {"corrupt"} PROVE harm' = {} /\ FaultFree'
  BY <1>1, <1>2, <1>3, <1>11 DEF DiskGood, FaultFree, UndoThere, Undoable
<1> QED  BY <1>4, <1>5, <1>6, <1>8, <1>9, <1>10, <1>11 DEF DiskGood, DatabaseGood, MemoryGood

\* UnlinkPrunedFiles: nothing refers to what is removed.
LEMMA UnlinkKeeps ==
    ASSUME DiskGood, Unlink
    PROVE  DiskGood'
<1> USE DEF Known
<1>1. Up /\ MemoryGood /\ flush.at = "unlink" /\ dbEntry = entry
  <2>1. Up /\ MemoryGood /\ flush.at = "unlink" /\ dirty = {}
    BY DEF DiskGood, Unlink, Up, MemoryGood, FlushInv
  <2>2. dbEntry = [b \in DOMAIN dbEntry |-> dbEntry[b]]
    BY DEF DiskGood, DatabaseGood, IndexFits
  <2>3. [b \in DOMAIN dbEntry \cup dirty |-> IF b \in dirty THEN entry[b] ELSE dbEntry[b]] = entry
    BY <2>1, BatchFacts
  <2> QED  BY <2>1, <2>2, <2>3
<1>2. /\ blk' = [s \in Slots |-> IF s[1] \in flush.prune THEN EmptySlot ELSE blk[s]]
      /\ rev' = [s \in Slots |-> IF s[1] \in flush.prune THEN EmptySlot ELSE rev[s]]
      /\ blkFiles' = blkFiles \ flush.prune
      /\ flush' = IF flush.full THEN [flush EXCEPT !.at = "coins", !.prune = {}] ELSE FlushIdle
      /\ UNCHANGED <<entry, dirty, fileInfo, dirtyFiles, lastFile, chainTip, synced,
                     dbEntry, dbInfo, dbLast, dbPruned, dbCoins, oldCoins, harm>>
  BY DEF Unlink, memory, database
<1>3. \/ flush.full /\ flush' = [at |-> "coins", full |-> TRUE, prune |-> {}]
      \/ ~ flush.full /\ flush' = FlushIdle
  BY <1>2 DEF DiskGood, DiskTypes
<1>4. \A b \in DOMAIN entry :
         /\ entry[b].data # NoSlot => /\ entry[b].data \in Slots /\ entry[b].data[1] \notin flush.prune
         /\ entry[b].undo # NoSlot => /\ entry[b].undo \in Slots /\ entry[b].undo[1] \notin flush.prune
  BY <1>1 DEF MemoryGood, FlushInv, IndexFits, Entries
<1>5. DataThere(entry)' /\ DataThere(dbEntry)'
  BY <1>1, <1>2, <1>4 DEF MemoryGood, DataThere
<1>6. Synced(dbEntry)' /\ CoinsInv' /\ UndoKept' /\ IndexFits(dbEntry, dbInfo)'
      /\ IndexFits(entry, fileInfo)' /\ MemoryAhead'
  BY <1>1, <1>2 DEF DiskGood, DatabaseGood, MemoryGood, Synced, CoinsInv, UndoKept, IndexFits, MemoryAhead
<1>7. FlushInv'
  BY <1>1, <1>2, <1>3 DEF MemoryGood, FlushInv, FlushIdle
<1>8. ASSUME harm' \subseteq {"corrupt"} PROVE harm' = {} /\ FaultFree'
  <2>1. harm' = {} /\ FaultFree
    BY <1>2, <1>8 DEF DiskGood
  <2>2. UndoThere(dbEntry)' /\ UndoThere(entry)'
    BY <1>1, <1>2, <1>4, <2>1 DEF FaultFree, UndoThere
  <2> QED  BY <1>1, <1>2, <1>3, <2>1, <2>2 DEF FaultFree, Undoable
<1>9. DiskTypes' /\ Up'
  <2>1. /\ flush' \in [at : FlushSteps, full : BOOLEAN, prune : SUBSET Files]
        /\ flush'.at = "idle" => flush' = FlushIdle
        /\ flush'.prune # {} => flush'.full
        /\ flush'.at = "coins" => flush'.full
        /\ flush'.at # "down"
    <3>1. CASE flush' = [at |-> "coins", full |-> TRUE, prune |-> {}]
      BY <3>1 DEF FlushSteps
    <3>2. CASE flush' = FlushIdle
      BY <3>2 DEF FlushSteps, FlushIdle
    <3> QED  BY <1>3, <3>1, <3>2
  <2> QED  BY <1>1, <1>2, <2>1 DEF DiskGood, DiskTypes, Up
<1> QED  BY <1>5, <1>6, <1>7, <1>8, <1>9 DEF DiskGood, DatabaseGood, MemoryGood

\* The coins are written when the index is: the branch of the tip is in it.
LEMMA CoinsKeeps ==
    ASSUME DiskGood, WriteCoins
    PROVE  DiskGood'
<1> USE DEF Known
<1>1. /\ Up /\ MemoryGood /\ flush.at = "coins" /\ flush.full /\ dbEntry = entry
      /\ dbPruned # "written"
  <2>1. Up /\ MemoryGood /\ flush.at = "coins" /\ flush.full /\ dirty = {} /\ dbPruned # "written"
    BY DEF DiskGood, DiskTypes, WriteCoins, Up, MemoryGood, FlushInv
  <2>2. dbEntry = [b \in DOMAIN dbEntry |-> dbEntry[b]]
    BY DEF DiskGood, DatabaseGood, IndexFits
  <2>3. [b \in DOMAIN dbEntry \cup dirty |-> IF b \in dirty THEN entry[b] ELSE dbEntry[b]] = entry
    BY <2>1, BatchFacts
  <2> QED  BY <2>1, <2>2, <2>3
<1>2. /\ \/ /\ oldCoins' \subseteq oldCoins \cup {dbCoins} /\ dbCoins' = chainTip /\ harm' = harm
         \/ /\ harm' = harm \cup {"disk space"} /\ UNCHANGED <<oldCoins, dbCoins>>
      /\ flush' = FlushIdle
      /\ UNCHANGED <<entry, dirty, fileInfo, dirtyFiles, lastFile, chainTip, blk, rev, synced, blkFiles,
                     dbEntry, dbInfo, dbLast, dbPruned>>
  BY DEF WriteCoins, memory, files
<1>3. DiskTypes' /\ Up'
  BY <1>1, <1>2 DEF DiskGood, DiskTypes, Up, FlushIdle, FlushSteps
<1>4. /\ IndexFits(dbEntry, dbInfo)' /\ IndexFits(entry, fileInfo)' /\ DataThere(entry)'
      /\ DataThere(dbEntry)' /\ Synced(dbEntry)' /\ MemoryAhead' /\ UndoKept'
  BY <1>1, <1>2 DEF DiskGood, DatabaseGood, MemoryGood, Synced, DataThere, UndoKept, IndexFits, MemoryAhead
<1>5. FlushInv'
  BY <1>1, <1>2 DEF MemoryGood, FlushInv, FlushIdle
<1>6. CoinsInv'
  <2>1. /\ chainTip \in DiskBlocks /\ DiskChain[chainTip] \subseteq DOMAIN dbEntry
        /\ dbPruned # "yes" => \A b \in DiskChain[chainTip] \ {DiskGenesis} : dbEntry[b].undo # NoSlot
    BY <1>1 DEF DiskGood, DiskTypes, MemoryGood, UndoKept
  <2>2. oldCoins' \cup {dbCoins'} \subseteq oldCoins \cup {dbCoins, chainTip}
    BY <1>2
  <2> QED  BY <1>2, <2>1, <2>2 DEF DiskGood, DatabaseGood, CoinsInv
<1>7. ASSUME harm' \subseteq {"corrupt"} PROVE harm' = {} /\ FaultFree'
  <2>1. "disk space" \notin harm'
    BY <1>7
  <2>2. harm' = harm /\ dbCoins' = chainTip
    BY <1>2, <2>1
  <2>3. harm' = {} /\ FaultFree
    BY <1>7, <2>2 DEF DiskGood
  <2> QED  BY <1>1, <1>2, <2>2, <2>3 DEF FaultFree, UndoThere, Undoable
<1> QED  BY <1>3, <1>4, <1>5, <1>6, <1>7 DEF DiskGood, DatabaseGood, MemoryGood

\* A crash of the process, at any instant, leaves what was written.
LEMMA CrashKeeps ==
    ASSUME DiskGood, NodeCrash
    PROVE  DiskGood'
<1>1. /\ entry' = << >> /\ dirty' = {} /\ dirtyFiles' = {}
      /\ flush' = [at |-> "down", full |-> FALSE, prune |-> {}]
      /\ UNCHANGED <<lastFile, blk, rev, synced, blkFiles, dbEntry, dbInfo, dbLast, dbPruned, dbCoins,
                     oldCoins, harm>>
  BY DEF NodeCrash, Lost
<1>2. DiskTypes' /\ ~ Up'
  BY <1>1 DEF DiskGood, DiskTypes, Up, FlushSteps
<1>3. DatabaseGood'
  BY <1>1 DEF DiskGood, DatabaseGood, IndexFits, DataThere, Synced, CoinsInv
<1>4. ASSUME harm' \subseteq {"corrupt"} PROVE harm' = {} /\ FaultFree'
  <2>1. harm' = {} /\ FaultFree
    BY <1>1, <1>4 DEF DiskGood
  <2>2. DOMAIN entry' = {}
    BY <1>1
  <2>3. UndoThere(dbEntry)' /\ UndoThere(entry)'
    BY <1>1, <2>1, <2>2 DEF FaultFree, UndoThere
  <2> QED  BY <1>1, <1>2, <2>1, <2>3 DEF FaultFree, Undoable
<1> QED  BY <1>2, <1>3, <1>4 DEF DiskGood

\* A power loss takes away nothing that the index or the coins rest on.
LEMMA PowerKeeps ==
    ASSUME DiskGood, PowerLoss
    PROVE  DiskGood'
<1>1. /\ entry' = << >> /\ dirty' = {} /\ dirtyFiles' = {}
      /\ flush' = [at |-> "down", full |-> FALSE, prune |-> {}]
      /\ dbPruned' = dbPruned \/ (dbPruned = "written" /\ dbPruned' = "no")
      /\ dbCoins' \in oldCoins \cup {dbCoins}
      /\ harm' = harm \cup {"power"}
      /\ UNCHANGED <<lastFile, synced, blkFiles, dbEntry, dbInfo, dbLast, oldCoins>>
  <2>1. dbPruned' = dbPruned \/ (dbPruned = "written" /\ dbPruned' = "no")
    <3>1. dbPruned' \in IF dbPruned = "written" THEN {"written", "no"} ELSE {dbPruned}
      BY DEF PowerLoss
    <3> QED  BY <3>1
  <2> QED  BY <2>1 DEF PowerLoss, Lost
<1>2. /\ blk' = [s \in Slots |-> blk'[s]] /\ rev' = [s \in Slots |-> rev'[s]]
      /\ \A s \in Slots : <<"blk", s>> \in synced => blk'[s] = blk[s]
  BY DEF PowerLoss
<1>3. DiskTypes' /\ ~ Up'
  BY <1>1, <1>2 DEF DiskGood, DiskTypes, Up, FlushSteps
<1>4. DatabaseGood'
  <2>1. \A b \in DOMAIN dbEntry : dbEntry[b].data # NoSlot => dbEntry[b].data \in Slots
    BY DEF DiskGood, DatabaseGood, IndexFits, Entries
  <2>2. DataThere(dbEntry)'
    BY <1>1, <1>2, <2>1 DEF DiskGood, DatabaseGood, DataThere, Synced
  <2>3. CoinsInv'
    BY <1>1 DEF DiskGood, DatabaseGood, CoinsInv
  <2> QED  BY <1>1, <2>2, <2>3 DEF DiskGood, DatabaseGood, IndexFits, Synced
<1>5. ~ (harm' \subseteq {"corrupt"})
  BY <1>1
<1> QED  BY <1>3, <1>4, <1>5 DEF DiskGood

\* Without a fault LoadBlockIndexDB and VerifyDB succeed.
LEMMA LoadWorks ==
    ASSUME DiskGood, harm \subseteq {"corrupt"}
    PROVE  LoadSucceeds
<1>1. FaultFree /\ DatabaseGood
  BY DEF DiskGood
<1>2. DiskChain[dbCoins] \subseteq DOMAIN dbEntry /\ dbCoins \in DiskChain[dbCoins]
  BY <1>1, ChainFacts DEF DatabaseGood, CoinsInv
<1>3. \A b \in DiskChain[dbCoins] \ {DiskGenesis} : dbEntry[b].data # NoSlot =>
         /\ blk[dbEntry[b].data] = b
         /\ dbEntry[b].undo # NoSlot /\ rev[dbEntry[b].undo] = b
  BY <1>1, <1>2 DEF DatabaseGood, DataThere, FaultFree, Undoable, UndoThere
<1>4. VerifyDB(dbEntry, dbCoins)
  <2> DEFINE window == {b \in DiskChain[dbCoins] \ {DiskGenesis} :
                           DiskHeight(b) >= DiskHeight(dbCoins) - CheckBlocks}
             unpruned == {b \in window : \A c \in window :
                            DiskHeight(c) >= DiskHeight(b) => dbEntry[c].data # NoSlot}
  <2>1. ASSUME NEW b \in unpruned PROVE dbEntry[b].data # NoSlot
    <3>1. b \in DiskBlocks
      BY <1>1, <1>2, <2>1 DEF DatabaseGood, IndexFits
    <3>2. \A x, y \in Int : x = y => x >= y
      OBVIOUS
    <3>3. DiskHeight(b) >= DiskHeight(b)
      BY <3>1, <3>2, HeightType, Zenon
    <3> QED  BY <2>1, <3>3
  <2>2. \A b \in unpruned : /\ blk[dbEntry[b].data] = b
                            /\ dbEntry[b].undo # NoSlot /\ rev[dbEntry[b].undo] = b
    BY <1>3, <2>1
  <2> QED  BY <2>2 DEF VerifyDB
<1> QED  BY <1>1, <1>2, <1>4 DEF LoadSucceeds, DatabaseGood, DataThere

\* Restart: the index that is loaded is in step with the database, and the tip is
\* the block the coins are at.
LEMMA RestartKeeps ==
    ASSUME DiskGood, Restart
    PROVE  DiskGood'
<1> USE DEF Known
<1>1. ~ Up /\ UNCHANGED <<dirty, dirtyFiles, blk, rev, synced, blkFiles, dbEntry, dbInfo, dbLast, dbPruned,
                          dbCoins, oldCoins>>
      /\ dirty = {} /\ dirtyFiles = {}
  BY DEF Restart, files, database, Up, DiskGood, DiskTypes
<1>2. DatabaseGood'
  BY <1>1 DEF DiskGood, DatabaseGood, IndexFits, DataThere, Synced, CoinsInv
<1>3. CASE ~ LoadSucceeds
  <2>1. /\ harm' = harm \cup {"corrupt"}
        /\ UNCHANGED <<entry, fileInfo, lastFile, chainTip, flush>>
    BY <1>3 DEF Restart
  <2>2. ~ (harm' \subseteq {"corrupt"})
    BY <1>3, <2>1, LoadWorks
  <2>3. DiskTypes' /\ ~ Up'
    BY <1>1, <2>1 DEF DiskGood, DiskTypes, Up
  <2> QED  BY <1>2, <2>2, <2>3 DEF DiskGood
<1>4. CASE LoadSucceeds
  <2>1. /\ entry' = dbEntry /\ fileInfo' = dbInfo /\ lastFile' = dbLast /\ chainTip' = dbCoins
        /\ flush' = FlushIdle /\ harm' = harm
    BY <1>4 DEF Restart, LoadBlockIndexGuts
  <2>2. /\ dbCoins \in DiskBlocks /\ DiskChain[dbCoins] \subseteq DOMAIN dbEntry
        /\ dbPruned # "yes" => \A b \in DiskChain[dbCoins] \ {DiskGenesis} : dbEntry[b].undo # NoSlot
    BY DEF DiskGood, DatabaseGood, CoinsInv
  <2>3. DiskTypes' /\ Up'
    BY <1>1, <2>1, <2>2 DEF DiskGood, DiskTypes, Up, FlushIdle, FlushSteps
  <2>4. IndexFits(entry, fileInfo)' /\ DataThere(entry)'
    BY <1>1, <2>1 DEF DiskGood, DatabaseGood, IndexFits, DataThere
  <2>5. MemoryAhead'
    <3>1. \A f \in Files : dbInfo[f].used <= dbInfo[f].used /\ dbInfo[f].undoUsed <= dbInfo[f].undoUsed
      <4>1. \A f \in Files : dbInfo[f].used \in Nat /\ dbInfo[f].undoUsed \in Nat
        BY DEF DiskGood, DatabaseGood, IndexFits, Infos
      <4> QED  BY <4>1, NotBehindItself, Zenon
    <3> QED  BY <1>1, <2>1, <3>1 DEF MemoryAhead
  <2>6. FlushInv' /\ UndoKept'
    BY <1>1, <2>1, <2>2 DEF FlushInv, FlushIdle, UndoKept, DiskGood, DatabaseGood, Synced
  <2>7. ASSUME harm' \subseteq {"corrupt"} PROVE harm' = {} /\ FaultFree'
    BY <1>1, <2>1, <2>7 DEF DiskGood, FaultFree, UndoThere, Undoable
  <2> QED  BY <1>2, <2>3, <2>4, <2>5, <2>6, <2>7 DEF DiskGood, MemoryGood
<1> QED  BY <1>3, <1>4

\* The state that InitBlockIndex leaves.
LEMMA DiskInitInv == DiskInit => DiskGood
<1> SUFFICES ASSUME DiskInit PROVE DiskGood
  OBVIOUS
<1> USE DEF Known
<1> DEFINE g == [data |-> <<0, 0>>, undo |-> NoSlot]
           zero == <<0, 0>>
<1>1. zero \in Slots /\ zero # NoSlot /\ zero[1] = 0 /\ zero[2] = 0 /\ 0 \in Files
  <2>1. Cardinality(DiskBlocks) # 0
    BY FS_EmptySet, DiskAssumption
  <2>2. 0 \in Files
    BY DiskAssumption DEF Files
  <2> QED  BY <2>1, <2>2, SlotFacts
<1>2. /\ entry = [b \in {DiskGenesis} |-> g] /\ dbEntry = entry
      /\ fileInfo = dbInfo
      /\ \A f \in Files : /\ fileInfo[f] \in Infos /\ fileInfo[f].undoUsed = 0
                          /\ fileInfo[f].used = IF f = 0 THEN 1 ELSE 0
      /\ fileInfo = [f \in Files |-> fileInfo[f]]
      /\ dirty = {} /\ dirtyFiles = {} /\ lastFile = 0 /\ dbLast = 0
      /\ chainTip = DiskGenesis /\ dbCoins = DiskGenesis /\ oldCoins = {}
      /\ flush = FlushIdle
      /\ blk = [s \in Slots |-> IF s = zero THEN DiskGenesis ELSE EmptySlot]
      /\ rev = [s \in Slots |-> EmptySlot]
      /\ synced = {<<"blk", zero>>}
      /\ blkFiles = {0} /\ dbPruned = "no" /\ harm = {}
  BY DEF DiskInit, NewEntry, NullInfo, Infos
<1> HIDE DEF zero
<1>3. DOMAIN entry = {DiskGenesis} /\ entry[DiskGenesis].data = zero
      /\ entry[DiskGenesis].undo = NoSlot /\ entry[DiskGenesis] \in Entries
  BY <1>1, <1>2 DEF zero, Entries
<1>4. IndexFits(entry, fileInfo)
  <2>1. ASSUME NEW f \in Files
        PROVE  /\ fileInfo[f].used = Cardinality(DataIn(entry, f))
               /\ fileInfo[f].undoUsed = Cardinality(UndoIn(entry, f))
    <3>1. UndoIn(entry, f) = {} /\ DataIn(entry, f) = IF f = 0 THEN {DiskGenesis} ELSE {}
      BY <1>1, <1>3 DEF DataIn, UndoIn
    <3> QED  BY <1>2, <3>1, FS_EmptySet, FS_Singleton
  <2>2. entry \in [DOMAIN entry -> Entries] /\ DOMAIN entry \subseteq DiskBlocks
    BY <1>2, <1>3, DiskAssumption
  <2>3. fileInfo \in [Files -> Infos]
    BY <1>2
  <2>4. entry[DiskGenesis].data[2] < fileInfo[entry[DiskGenesis].data[1]].used
    BY <1>1, <1>2, <1>3
  <2> QED  BY <1>3, <2>1, <2>2, <2>3, <2>4 DEF IndexFits
<1>5. IndexFits(dbEntry, dbInfo)
  BY <1>2, <1>4
<1>6. DataThere(entry) /\ DataThere(dbEntry) /\ Synced(dbEntry)
  BY <1>1, <1>2, <1>3 DEF DataThere, Synced
<1>7. DiskChain[DiskGenesis] = {DiskGenesis} /\ DiskGenesis \in DiskBlocks
  BY ChainFacts, DiskAssumption
<1>8. CoinsInv /\ UndoKept /\ FlushInv
  BY <1>1, <1>2, <1>3, <1>7 DEF CoinsInv, UndoKept, FlushInv, FlushIdle
<1>9. MemoryAhead
  <2>1. \A f \in Files : dbInfo[f].used <= fileInfo[f].used /\ dbInfo[f].undoUsed <= fileInfo[f].undoUsed
    <3>1. \A f \in Files : fileInfo[f].used \in Nat /\ fileInfo[f].undoUsed \in Nat
      BY <1>2 DEF Infos
    <3> QED  BY <1>2, <3>1, NotBehindItself, Zenon
  <2> QED  BY <1>2, <1>3, <2>1 DEF MemoryAhead
<1>10. DiskTypes
  BY <1>1, <1>2, <1>3, <1>7 DEF DiskTypes, FlushIdle, FlushSteps, Up
<1>11. FaultFree
  BY <1>2, <1>3, <1>7 DEF FaultFree, UndoThere, Undoable
<1> QED  BY <1>2, <1>4, <1>5, <1>6, <1>8, <1>9, <1>10, <1>11 DEF DiskGood, DatabaseGood, MemoryGood

-----------------------------------------------------------------------------
\* A step of any kind keeps the invariant.
LEMMA DiskNextKeeps ==
    ASSUME DiskInv, DiskNext
    PROVE  DiskInv'
<1> SUFFICES ASSUME "index write" \notin harm' PROVE DiskGood'
  BY DEF DiskInv
<1>1. "index write" \notin harm
  BY DEF DiskNext, AcceptBlockData, ConnectTip, DisconnectTip, StartFlush, WriteIndex, Unlink,
         WriteCoins, NodeCrash, PowerLoss, Restart
<1>2. DiskGood
  BY <1>1 DEF DiskInv
<1>3. ASSUME NEW b \in DiskBlocks, ConnectTip(b) PROVE DiskGood'
  BY <1>2, <1>3, ConnectKeeps, ReconnectKeeps
<1>4. ASSUME NEW P \in PruneChoices \cup {{}}, NEW full \in BOOLEAN, StartFlush(P, full) PROVE DiskGood'
  BY <1>2, <1>4, StartKeeps
<1> QED  BY <1>2, <1>3, <1>4, AcceptKeeps, DisconnectKeeps, IndexKeeps, UnlinkKeeps, CoinsKeeps, CrashKeeps,
            PowerKeeps, RestartKeeps DEF DiskNext

\* As long as no batch of the index fails, what is in memory, what is on disk and
\* what a crash would leave are in step, at every instant of every flush, for any
\* number of crashes and power losses.
THEOREM DiskInvariant == DiskSpec => []DiskInv
<1>1. DiskInit => DiskInv
  BY DiskInitInv DEF DiskInv
<1>2. DiskInv /\ UNCHANGED diskVars => DiskInv'
  <2> SUFFICES ASSUME DiskInv, UNCHANGED diskVars PROVE DiskInv'
    OBVIOUS
  <2> USE DEF diskVars, memory, files, database, Known
  <2>1. DiskTypes' = DiskTypes /\ Up' = Up
    BY DEF DiskTypes, Up
  <2>2. DatabaseGood' = DatabaseGood
    BY DEF DatabaseGood, IndexFits, DataThere, Synced, CoinsInv
  <2>3. MemoryGood' = MemoryGood
    BY DEF MemoryGood, IndexFits, DataThere, MemoryAhead, FlushInv, UndoKept
  <2>4. FaultFree' = FaultFree
    BY DEF FaultFree, UndoThere, Undoable, Up
  <2> QED  BY <2>1, <2>2, <2>3, <2>4 DEF DiskInv, DiskGood
<1> QED  BY <1>1, <1>2, DiskNextKeeps, PTL DEF DiskSpec

\* What is on disk holds together at any moment (see DiskHoldsTogether).
THEOREM DiskSound == DiskSpec => []DiskHoldsTogether
<1>1. DiskInv => DiskHoldsTogether
  BY DEF DiskInv, DiskGood, DiskTypes, DatabaseGood, DataThere, Synced, CoinsInv, DiskHoldsTogether,
         IndexedDataDurable, CoinsRestOnIndex, CoinsOnIndex
<1> QED  BY <1>1, DiskInvariant, PTL

\* A restart after crashes of the process alone succeeds (see RestartSucceeds).
THEOREM RestartSound == DiskSpec => []RestartSucceeds
<1>1. DiskInv => RestartSucceeds
  BY DEF DiskInv, DiskGood, RestartSucceeds
<1> QED  BY <1>1, DiskInvariant, PTL
=============================================================================
