---------------------------- MODULE FlushRestart ----------------------------
(***************************************************************************)
(* The chain state on disk (validation.cpp, txdb.cpp, init.cpp): block and *)
(* undo files, the block index database and the coins database, written by *)
(* FlushStateToDisk one after the other, and what a restart makes of them  *)
(* after a crash between any two writes.                                   *)
(*                                                                         *)
(* A block takes one slot of a block file (blk) and, once connected, one   *)
(* of the undo file (rev) with the same number.  FlushStateToDisk holds    *)
(* cs_main and cs_LastBlockFile from beginning to end, so only a crash     *)
(* comes between its steps.  A crash of the process leaves what was        *)
(* written; a power loss also loses slots that were not synced and         *)
(* database writes that were not followed by a synced one.                 *)
(***************************************************************************)
EXTENDS Integers, FiniteSets, FiniteSetsExt

CONSTANTS
    DiskBlocks,     \* the blocks
    DiskGenesis,    \* the first of them
    DiskParent,     \* pprev of the others
    LastFileNumber, \* bound: block files
    BlocksPerFile,  \* MAX_BLOCKFILE_SIZE
    BlocksToKeep,   \* MIN_BLOCKS_TO_KEEP
    PruneAfter,     \* nPruneAfterHeight; no pruning up to this height
    CheckBlocks,    \* -checkblocks
    MaxCrashes,     \* bound: crashes
    Faults,         \* subset of {"index write", "disk space", "power"}
    EmptySlot       \* a slot that holds no block

ASSUME DiskAssumption ==
    /\ DiskGenesis \in DiskBlocks /\ IsFiniteSet(DiskBlocks)
    /\ DiskParent \in [DiskBlocks \ {DiskGenesis} -> DiskBlocks]
    /\ LastFileNumber \in Nat /\ BlocksPerFile \in Nat \ {0}
    /\ PruneAfter >= BlocksToKeep /\ BlocksToKeep > CheckBlocks

\* Every block descends from the first one: a set that holds the first block and
\* with each block its children holds all of them.
ASSUME DiskTreeAssumption ==
    \A S \in SUBSET DiskBlocks :
        /\ DiskGenesis \in S
        /\ \A b \in DiskBlocks \ {DiskGenesis} : DiskParent[b] \in S => b \in S
        => S = DiskBlocks

VARIABLES
    entry,       \* mapBlockIndex: the entries of the known blocks
    dirty,       \* setDirtyBlockIndex
    fileInfo,    \* vinfoBlockFile: slots used and nHeightLast
    dirtyFiles,  \* setDirtyFileInfo
    lastFile,    \* nLastBlockFile
    chainTip,    \* chainActive.Tip() and pcoinsTip's best block
    flush,       \* where FlushStateToDisk is: see FlushSteps
    blk, rev,    \* what the slots of the files hold
    synced,      \* the slots <<"blk" or "rev", slot>> that were synced
    blkFiles,    \* the block files that exist
    dbEntry, dbInfo, dbLast, \* the block index database
    dbPruned,    \* its flag "prunedblockfiles": "no", "written", or "yes" when synced
    dbCoins,     \* DB_BEST_BLOCK of the coins database
    oldCoins,    \* its earlier values: no write to that database is synced
    crashes,     \* number of crashes so far
    harm         \* faults so far, and "corrupt" once loading has failed

memory == <<entry, dirty, fileInfo, dirtyFiles, lastFile, chainTip>>
files == <<blk, rev, synced, blkFiles>>
database == <<dbEntry, dbInfo, dbLast, dbPruned, dbCoins, oldCoins>>
diskVars == <<memory, flush, files, database, crashes, harm>>

-----------------------------------------------------------------------------
DiskChain[b \in DiskBlocks] ==
    {b} \cup (IF b = DiskGenesis THEN {} ELSE DiskChain[DiskParent[b]])

DiskHeight(b) == Cardinality(DiskChain[b]) - 1

Files == 0 .. LastFileNumber
Slots == Files \X (0 .. Cardinality(DiskBlocks) - 1)
NoSlot == << >>

\* CDiskBlockIndex, which is also what a CBlockIndex holds here: nFile/nDataPos
\* with BLOCK_HAVE_DATA, and nUndoPos with BLOCK_HAVE_UNDO.
NewEntry == [data |-> NoSlot, undo |-> NoSlot]
NullInfo == [used |-> 0, undoUsed |-> 0, top |-> 0]

FlushIdle == [at |-> "idle", full |-> FALSE, prune |-> {}]
FlushSteps == {"idle", "index", "unlink", "coins", "down"}

Known == DOMAIN entry

-----------------------------------------------------------------------------
(* Storing and connecting blocks.                                          *)

\* FlushBlockFile: only the files numbered nLastBlockFile are committed.
FlushBlockFile ==
    synced \cup {s \in {"blk", "rev"} \X Slots : s[2][1] = lastFile}

\* Mutant: the file that is left is not committed.
SyncedWhenLeavingNot(file) == synced

\* FindBlockPos flushes the file it leaves.
SyncedWhenLeaving(file) == IF file # lastFile THEN FlushBlockFile ELSE synced

\* The file FindBlockPos chooses.
FindBlockFile ==
    CHOOSE f \in lastFile .. LastFileNumber :
        /\ fileInfo[f].used < BlocksPerFile
        /\ \A g \in lastFile .. f - 1 : fileInfo[g].used >= BlocksPerFile

\* AcceptBlock of a block whose data is missing: header, slot, data, index entry.
\* A pruned block is only asked for again on the way to a longer chain than the
\* active one (FindNextBlocksToDownload; submitblock refuses it).
AcceptBlockData(b) ==
    /\ flush.at = "idle"
    /\ b \notin DiskChain[chainTip] /\ DiskParent[b] \in Known
    /\ b \in Known =>
          /\ entry[b].data = NoSlot
          /\ \E c \in DiskBlocks : b \in DiskChain[c] /\ DiskHeight(c) > DiskHeight(chainTip)
    /\ \E f \in lastFile .. LastFileNumber : fileInfo[f].used < BlocksPerFile
    /\ LET f == FindBlockFile
           slot == <<f, fileInfo[f].used>>
           old == IF b \in Known THEN entry[b] ELSE NewEntry
       IN /\ blk' = [blk EXCEPT ![slot] = b]
          /\ blkFiles' = blkFiles \cup {f}
          /\ synced' = SyncedWhenLeaving(f) \ {<<"blk", slot>>}
          /\ lastFile' = f
          /\ fileInfo' = [fileInfo EXCEPT ![f].used = @ + 1,
                             ![f].top = IF DiskHeight(b) > @ THEN DiskHeight(b) ELSE @]
          /\ dirtyFiles' = dirtyFiles \cup {f}
          /\ entry' = [c \in Known \cup {b} |->
                         IF c = b THEN [old EXCEPT !.data = slot]
                         ELSE entry[c]]
          /\ dirty' = dirty \cup {b}
    /\ UNCHANGED <<chainTip, flush, rev, database, crashes, harm>>

\* A block that can be the next tip: the data of its branch is there.
HasData(b) == b \in Known /\ entry[b].data # NoSlot

\* Mutant: the entry is not marked dirty when the undo data is written.
UndoDirtyNot(b) == dirty

\* setDirtyBlockIndex.insert(pindex) in ConnectBlock.
UndoDirty(b) == dirty \cup {b}

\* ConnectTip of a valid block: undo data is written once, into the undo file
\* with the number of the block's own file.
ConnectTip(b) ==
    /\ flush.at = "idle"
    /\ b # DiskGenesis /\ DiskParent[b] = chainTip
    /\ HasData(b)
    /\ chainTip' = b
    /\ IF entry[b].undo # NoSlot
         THEN UNCHANGED <<entry, dirty, fileInfo, dirtyFiles, rev, synced>>
         ELSE LET f == entry[b].data[1]
                  slot == <<f, fileInfo[f].undoUsed>>
              IN /\ rev' = [rev EXCEPT ![slot] = b]
                 /\ synced' = synced \ {<<"rev", slot>>}
                 /\ fileInfo' = [fileInfo EXCEPT ![f].undoUsed = @ + 1]
                 /\ dirtyFiles' = dirtyFiles \cup {f}
                 /\ entry' = [entry EXCEPT ![b].undo = slot]
                 /\ dirty' = UndoDirty(b)
    /\ UNCHANGED <<lastFile, flush, blk, blkFiles, database, crashes, harm>>

\* DisconnectTip, on the way to a longer branch.
DisconnectTip ==
    /\ flush.at = "idle"
    /\ \E b \in Known :
          /\ chainTip \notin DiskChain[b] /\ DiskHeight(b) > DiskHeight(chainTip)
          /\ \A c \in DiskChain[b] \ DiskChain[chainTip] : HasData(c)
    /\ entry[chainTip].data # NoSlot /\ entry[chainTip].undo # NoSlot
    /\ chainTip' = DiskParent[chainTip]
    /\ UNCHANGED <<entry, dirty, fileInfo, dirtyFiles, lastFile, flush, files,
                   database, crashes, harm>>

-----------------------------------------------------------------------------
(* FlushStateToDisk.                                                       *)

\* The files that FindFilesToPrune and FindFilesToPruneManual may choose: below
\* the file in use and without a block close to the tip.
PrunableFiles ==
    {f \in 0 .. lastFile - 1 :
        /\ fileInfo[f].used > 0
        /\ DiskHeight(chainTip) > PruneAfter
        /\ fileInfo[f].top <= DiskHeight(chainTip) - BlocksToKeep}

\* The first ones of them until usage is low enough, or all up to a height.
PruneChoices ==
    {{g \in PrunableFiles : g <= f} : f \in PrunableFiles}
        \cup {{g \in PrunableFiles : fileInfo[g].top <= h} : h \in 1 .. DiskHeight(chainTip)}

\* PruneOneBlockFile for each file of P.
PruneFiles(P) ==
    LET inP(b) == entry[b].data # NoSlot /\ entry[b].data[1] \in P
    IN /\ entry' = [b \in Known |-> IF inP(b) THEN [entry[b] EXCEPT !.data = NoSlot,
                                                                     !.undo = NoSlot]
                                    ELSE entry[b]]
       /\ dirty' = dirty \cup {b \in Known : inP(b)}
       /\ fileInfo' = [f \in Files |-> IF f \in P THEN NullInfo ELSE fileInfo[f]]
       /\ dirtyFiles' = dirtyFiles \cup P

\* The head of FlushStateToDisk: the files to prune are chosen, removed from the
\* index in memory, and the flag "prunedblockfiles" is written.  Pruning makes
\* the flush a full one; otherwise the mode, the cache size and the time decide
\* whether the coins are written too.  Then "first make sure all block and undo
\* data is flushed to disk", or CheckDiskSpace calls AbortNode and the function
\* returns; what runs until the shutdown is not restricted here.
StartFlush(P, full) ==
    /\ flush.at = "idle"
    /\ P # {} => full
    /\ PruneFiles(P)
    /\ \/ /\ synced' = FlushBlockFile
          /\ flush' = [at |-> "index", full |-> full, prune |-> P]
          /\ UNCHANGED harm
       \/ /\ "disk space" \in Faults
          /\ harm' = harm \cup {"disk space"}
          /\ UNCHANGED <<synced, flush>>
    /\ dbPruned' = IF P # {} /\ dbPruned = "no" THEN "written" ELSE dbPruned
    /\ UNCHANGED <<lastFile, chainTip, blk, rev, blkFiles, dbEntry, dbInfo, dbLast, dbCoins,
                   oldCoins, crashes>>

\* Mutant: entries that lost their data are not written.
IndexBatchWithoutPruned ==
    /\ dbEntry' = [b \in DOMAIN dbEntry \cup dirty |->
                     IF b \in dirty /\ (entry[b].data # NoSlot \/ b \notin DOMAIN dbEntry)
                     THEN entry[b] ELSE dbEntry[b]]
    /\ dbInfo' = [f \in Files |-> IF f \in dirtyFiles THEN fileInfo[f] ELSE dbInfo[f]]
    /\ dbLast' = lastFile
    /\ dbPruned' = IF dbPruned = "written" THEN "yes" ELSE dbPruned

\* WriteBatchSync: one synced batch of the dirty file infos, nLastBlockFile and
\* the dirty index entries.
IndexBatch ==
    /\ dbEntry' = [b \in DOMAIN dbEntry \cup dirty |->
                     IF b \in dirty THEN entry[b] ELSE dbEntry[b]]
    /\ dbInfo' = [f \in Files |-> IF f \in dirtyFiles THEN fileInfo[f] ELSE dbInfo[f]]
    /\ dbLast' = lastFile
    /\ dbPruned' = IF dbPruned = "written" THEN "yes" ELSE dbPruned

\* The dirty sets are emptied first; then the batch is written, or the write
\* fails, AbortNode is called and the function returns.
WriteIndex ==
    /\ flush.at = "index"
    /\ dirty' = {} /\ dirtyFiles' = {}
    /\ \/ /\ IndexBatch
          /\ flush' = [flush EXCEPT !.at = "unlink"]
          /\ UNCHANGED harm
       \/ /\ "index write" \in Faults
          /\ harm' = harm \cup {"index write"}
          /\ flush' = FlushIdle
          /\ UNCHANGED <<dbEntry, dbInfo, dbLast, dbPruned>>
    /\ UNCHANGED <<entry, fileInfo, lastFile, chainTip, files, dbCoins, oldCoins,
                   crashes>>

\* UnlinkPrunedFiles; without a full flush the function ends here.
Unlink ==
    /\ flush.at = "unlink"
    /\ blk' = [s \in Slots |-> IF s[1] \in flush.prune THEN EmptySlot ELSE blk[s]]
    /\ rev' = [s \in Slots |-> IF s[1] \in flush.prune THEN EmptySlot ELSE rev[s]]
    /\ blkFiles' = blkFiles \ flush.prune
    /\ flush' = IF flush.full THEN [flush EXCEPT !.at = "coins", !.prune = {}]
                ELSE FlushIdle
    /\ UNCHANGED <<memory, synced, database, crashes, harm>>

\* pcoinsTip->Flush(): one batch, not synced; or CheckDiskSpace calls AbortNode.
WriteCoins ==
    /\ flush.at = "coins"
    /\ \/ /\ oldCoins' = IF "power" \in Faults THEN oldCoins \cup {dbCoins} ELSE {}
          /\ dbCoins' = chainTip
          /\ UNCHANGED harm
       \/ /\ "disk space" \in Faults
          /\ harm' = harm \cup {"disk space"}
          /\ UNCHANGED <<oldCoins, dbCoins>>
    /\ flush' = FlushIdle
    /\ UNCHANGED <<memory, files, dbEntry, dbInfo, dbLast, dbPruned, crashes>>

-----------------------------------------------------------------------------
(* Crash and restart.                                                      *)

\* Nothing of the memory is left: the next start begins with UnloadBlockIndex.
Lost == /\ entry' = << >> /\ dirty' = {} /\ dirtyFiles' = {}
        /\ flush' = [at |-> "down", full |-> FALSE, prune |-> {}]
        /\ UNCHANGED <<fileInfo, lastFile, chainTip, blkFiles, dbEntry, dbInfo, dbLast>>

\* The process dies, at any instant.
NodeCrash ==
    /\ flush.at # "down" /\ crashes < MaxCrashes
    /\ crashes' = crashes + 1
    /\ Lost
    /\ UNCHANGED <<blk, rev, synced, dbPruned, dbCoins, oldCoins, harm>>

\* The machine dies: of what was not synced, any part may be lost.  The pruned
\* flag is safe once a synced batch of the same database followed it.
PowerLoss ==
    /\ "power" \in Faults
    /\ flush.at # "down" /\ crashes < MaxCrashes
    /\ crashes' = crashes + 1
    /\ Lost
    /\ \E keepBlk, keepRev \in BOOLEAN :
          /\ blk' = [s \in Slots |-> IF keepBlk \/ <<"blk", s>> \in synced
                                     THEN blk[s] ELSE EmptySlot]
          /\ rev' = [s \in Slots |-> IF keepRev \/ <<"rev", s>> \in synced
                                     THEN rev[s] ELSE EmptySlot]
    /\ dbPruned' \in IF dbPruned = "written" THEN {"written", "no"} ELSE {dbPruned}
    /\ dbCoins' \in oldCoins \cup {dbCoins}
    /\ harm' = harm \cup {"power"}
    /\ UNCHANGED <<synced, oldCoins>>

\* VerifyDB at the default level 3 on the loaded chain: data and undo data of the
\* last CheckBlocks blocks can be read, as far down as there is data.
VerifyDB(loaded, tip) ==
    LET window == {b \in DiskChain[tip] \ {DiskGenesis} :
                     DiskHeight(b) >= DiskHeight(tip) - CheckBlocks}
        unpruned == {b \in window : \A c \in window :
                       DiskHeight(c) >= DiskHeight(b) => loaded[c].data # NoSlot}
    IN \A b \in unpruned : /\ blk[loaded[b].data] = b
                           /\ loaded[b].undo # NoSlot /\ rev[loaded[b].undo] = b

\* LoadBlockIndexDB finds the files of the blocks that have data, and the block
\* the coins are at; then VerifyDB passes.
LoadSucceeds ==
    /\ \A b \in DOMAIN dbEntry :
          dbEntry[b].data # NoSlot => dbEntry[b].data[1] \in blkFiles
    /\ dbCoins \in DOMAIN dbEntry
    /\ DiskChain[dbCoins] \subseteq DOMAIN dbEntry
    /\ VerifyDB(dbEntry, dbCoins)

\* The entries come back as they were written last.
LoadBlockIndexGuts == dbEntry

\* AppInitMain, step 7: the index is loaded as the database has it.
Restart ==
    /\ flush.at = "down" /\ "corrupt" \notin harm
    /\ IF LoadSucceeds
         THEN /\ entry' = LoadBlockIndexGuts /\ fileInfo' = dbInfo /\ lastFile' = dbLast
              /\ chainTip' = dbCoins
              /\ flush' = FlushIdle
              /\ UNCHANGED harm
         ELSE /\ harm' = harm \cup {"corrupt"}
              /\ UNCHANGED <<entry, fileInfo, lastFile, chainTip, flush>>
    /\ UNCHANGED <<dirty, dirtyFiles, files, database, crashes>>

-----------------------------------------------------------------------------
\* After InitBlockIndex on an empty directory: the genesis block is stored and
\* everything was flushed.
DiskInit ==
    LET genesisEntry == [NewEntry EXCEPT !.data = <<0, 0>>]
        info == [f \in Files |-> IF f = 0 THEN [NullInfo EXCEPT !.used = 1] ELSE NullInfo]
    IN /\ entry = [b \in {DiskGenesis} |-> genesisEntry] /\ dbEntry = entry
       /\ fileInfo = info /\ dbInfo = info
       /\ dirty = {} /\ dirtyFiles = {} /\ lastFile = 0 /\ dbLast = 0
       /\ chainTip = DiskGenesis /\ dbCoins = DiskGenesis /\ oldCoins = {}
       /\ flush = FlushIdle
       /\ blk = [s \in Slots |-> IF s = <<0, 0>> THEN DiskGenesis ELSE EmptySlot]
       /\ rev = [s \in Slots |-> EmptySlot]
       /\ synced = {<<"blk", <<0, 0>>>>}
       /\ blkFiles = {0} /\ dbPruned = "no"
       /\ crashes = 0 /\ harm = {}

DiskNext ==
    \/ \E b \in DiskBlocks : AcceptBlockData(b) \/ ConnectTip(b)
    \/ DisconnectTip
    \/ \E P \in PruneChoices \cup {{}}, full \in BOOLEAN : StartFlush(P, full)
    \/ WriteIndex \/ Unlink \/ WriteCoins
    \/ NodeCrash \/ PowerLoss \/ Restart

DiskSpec == DiskInit /\ [][DiskNext]_diskVars

-----------------------------------------------------------------------------
\* A crash of the process never makes the databases unusable: at whatever
\* instant it comes, LoadBlockIndexDB finds every file the index refers to and
\* the block the coins are at, and VerifyDB can read and undo the last blocks.
\* Nothing is said after a fault: when files were pruned and the coins were not
\* written for lack of space, a block that the coins rest on may be stored
\* again without its undo data.
RestartSucceeds == harm \subseteq {"corrupt"} => "corrupt" \notin harm

\* What the block index database says it has is there for good: the slot holds
\* that block and was synced, although files are shared, slots are given out by
\* counters that a crash sets back, and only the last file is ever committed.
IndexedDataDurable ==
    "index write" \notin harm =>
        \A b \in DOMAIN dbEntry : dbEntry[b].data # NoSlot =>
            /\ blk[dbEntry[b].data] = b
            /\ <<"blk", dbEntry[b].data>> \in synced

\* The coins "can only be" written "if the blocks / block index write was also
\* done": every block below the one they are at is in the index database, with
\* its undo data unless files were pruned.
CoinsOnIndex ==
    /\ DiskChain[dbCoins] \subseteq DOMAIN dbEntry
    /\ \A b \in DiskChain[dbCoins] \ {DiskGenesis} :
          dbPruned = "no" => dbEntry[b].undo # NoSlot

\* So it is as long as no batch of the index fails, whatever crashes and
\* reorganisations come between the flushes.
CoinsRestOnIndex == "index write" \notin harm => CoinsOnIndex

\* What is on disk holds together at any moment: nothing refers to what a crash
\* could still take away.
DiskHoldsTogether == IndexedDataDurable /\ CoinsRestOnIndex
=============================================================================
