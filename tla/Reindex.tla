------------------------------ MODULE Reindex ------------------------------
(***************************************************************************)
(* Rebuilding the block index from the block files: ThreadImport           *)
(* (init.cpp) and LoadExternalBlockFile (validation.cpp).  Blocks lie in   *)
(* the files in the order in which they arrived, so a block may come       *)
(* before its parent, in an earlier file; the node may stop at any record  *)
(* and is started again with what the database holds by then.              *)
(*                                                                         *)
(* A step reads one record.  What the scan makes of bytes that are no      *)
(* block is Junk: it is skipped.                                           *)
(***************************************************************************)
EXTENDS Integers, Sequences, FiniteSets, SequencesExt

CONSTANTS
    FileBlocks,    \* the blocks, without the genesis block
    GenesisBlock,
    FileParent,    \* the parent of each of FileBlocks
    BadHeaders, BadBodies, Mutated,   \* blocks that fail a check, see Checked
    Layouts,       \* possible contents of the files: sequences of records
    Bootstraps,    \* possible contents of bootstrap.dat
    Junk,          \* a record that is no block
    MaxStops       \* bound: how often the node is stopped

AllBlocks == FileBlocks \cup {GenesisBlock}

ASSUME ReindexAssumption ==
    /\ GenesisBlock \notin FileBlocks /\ FileParent \in [FileBlocks -> AllBlocks]
    /\ Layouts \subseteq Seq(Seq(AllBlocks \cup {Junk}))
    /\ Bootstraps \subseteq Seq(AllBlocks \cup {Junk})
    /\ MaxStops \in Nat

VARIABLES
    importFiles, bootstrap,  \* the contents of the files
    phase,         \* of ThreadImport: "reindex", "bootstrap" or "done"
    reading,       \* the file and the record that are read next
    blockIndex,    \* mapBlockIndex: "data", "header" or "failed" of each entry
    unknown,       \* mapBlocksUnknownParent: blocks whose parent was not known
    flushed,       \* the block index in the database
    fReindexing,   \* the flag in the database
    stops

reindexVars == <<importFiles, bootstrap, phase, reading, blockIndex, unknown, flushed, fReindexing, stops>>

\* The node was started with -reindex: the databases are wiped and the flag is
\* written.
ReindexInit ==
    /\ importFiles \in Layouts /\ bootstrap \in Bootstraps
    /\ phase = "reindex" /\ reading = <<1, 1>>
    /\ blockIndex = <<>> /\ unknown = {} /\ flushed = <<>>
    /\ fReindexing = TRUE /\ stops = 0

-----------------------------------------------------------------------------
(* LoadExternalBlockFile.                                                  *)

WithEntry(idx, b, status) ==
    [x \in DOMAIN idx \cup {b} |-> IF x = b THEN status ELSE idx[x]]

ParentKnown(idx, b) == b = GenesisBlock \/ FileParent[b] \in DOMAIN idx

\* What AcceptBlock leaves of a block whose header is accepted.
Checked(b) == IF b \in BadBodies THEN "failed" ELSE IF b \in Mutated THEN "header" ELSE "data"

\* AcceptBlock: a block that failed before, or whose parent did, and one with a
\* bad header change nothing.
AcceptBlock(idx, b) ==
    IF \/ b \in DOMAIN idx /\ idx[b] # "header"
       \/ b \in BadHeaders \/ ~ ParentKnown(idx, b)
       \/ b # GenesisBlock /\ idx[FileParent[b]] = "failed"
      THEN idx ELSE WithEntry(idx, b, Checked(b))

\* Only the children of the block itself are looked for, not theirs.
NextQueueEmpty(idx, now) == {}

\* The blocks that are put in the queue: those of now that were accepted.
NextQueue(idx, now) == {b \in now : b \in DOMAIN idx /\ idx[b] = "data"}

\* The recursion over the successors of the blocks in queue that wait for them: the
\* index after it, and the blocks that still wait.
Successors(idx, wait, queue) ==
    LET turn[n \in 0..Cardinality(wait)] ==
            IF n = 0 THEN [idx |-> idx, wait |-> wait, queue |-> queue]
            ELSE LET last == turn[n - 1]
                     now == {b \in last.wait : FileParent[b] \in last.queue}
                     after == FoldLeft(AcceptBlock, last.idx, SetToSeq(now))
                 IN  [idx |-> after, wait |-> last.wait \ now, queue |-> NextQueue(after, now)]
        end == turn[Cardinality(wait)]
    IN  <<end.idx, end.wait>>

\* A block that was read: it is kept for later if its parent is not known (in a
\* file of the node's own, keep), else accepted, and then those that waited for it.
Process(b, keep) ==
    IF ~ ParentKnown(blockIndex, b)
      THEN /\ unknown' = IF keep THEN unknown \cup {b} ELSE unknown
           /\ UNCHANGED blockIndex
      ELSE \E r \in {Successors(AcceptBlock(blockIndex, b), unknown, {b})} :
              blockIndex' = r[1] /\ unknown' = r[2]

ReadRecord ==
    LET f == reading[1]
        r == reading[2]
    IN  /\ phase = "reindex" /\ f \in DOMAIN importFiles /\ r \in DOMAIN importFiles[f]
        /\ reading' = <<f, r + 1>>
        /\ IF importFiles[f][r] = Junk THEN UNCHANGED <<blockIndex, unknown>>
           ELSE Process(importFiles[f][r], TRUE)
        /\ UNCHANGED <<importFiles, bootstrap, phase, flushed, fReindexing, stops>>

-----------------------------------------------------------------------------
(* ThreadImport.                                                           *)

NextFile ==
    /\ phase = "reindex" /\ reading[1] \in DOMAIN importFiles
    /\ reading[2] \notin DOMAIN importFiles[reading[1]]
    /\ reading' = <<reading[1] + 1, 1>>
    /\ UNCHANGED <<importFiles, bootstrap, phase, blockIndex, unknown, flushed, fReindexing, stops>>

\* The flag is cleared; InitBlockIndex makes a genesis block if none was found,
\* and then writes everything.
FinishReindex ==
    /\ phase = "reindex" /\ reading[1] \notin DOMAIN importFiles
    /\ fReindexing' = FALSE
    /\ phase' = "bootstrap" /\ reading' = <<1, 1>>
    /\ IF GenesisBlock \in DOMAIN blockIndex THEN UNCHANGED <<blockIndex, flushed>>
       ELSE /\ blockIndex' = WithEntry(blockIndex, GenesisBlock, "data")
            /\ flushed' = blockIndex'
    /\ UNCHANGED <<importFiles, bootstrap, unknown, stops>>

\* bootstrap.dat, whose blocks are not kept for later; it is renamed at its end.
ImportRecord ==
    /\ phase = "bootstrap" /\ reading[2] \in DOMAIN bootstrap
    /\ reading' = <<1, reading[2] + 1>>
    /\ IF bootstrap[reading[2]] = Junk THEN UNCHANGED <<blockIndex, unknown>>
       ELSE Process(bootstrap[reading[2]], FALSE)
    /\ UNCHANGED <<importFiles, bootstrap, phase, flushed, fReindexing, stops>>

FinishImport ==
    /\ phase = "bootstrap" /\ reading[2] \notin DOMAIN bootstrap
    /\ phase' = "done" /\ bootstrap' = <<>>
    /\ UNCHANGED <<importFiles, reading, blockIndex, unknown, flushed, fReindexing, stops>>

\* FlushStateToDisk, at any time.
FlushIndex ==
    /\ flushed # blockIndex
    /\ flushed' = blockIndex
    /\ UNCHANGED <<importFiles, bootstrap, phase, reading, blockIndex, unknown, fReindexing, stops>>

\* The node stops, with or without a last flush, and starts again: the index is
\* read from the database, and the files again if the flag is set.
StopAndStart ==
    /\ stops < MaxStops
    /\ stops' = stops + 1
    /\ blockIndex' = IF fReindexing \/ flushed # <<>> THEN flushed
                     ELSE WithEntry(<<>>, GenesisBlock, "data")
    /\ unknown' = {} /\ reading' = <<1, 1>>
    /\ phase' = IF fReindexing THEN "reindex" ELSE "bootstrap"
    /\ UNCHANGED <<importFiles, bootstrap, flushed, fReindexing>>

ReindexNext ==
    \/ ReadRecord \/ NextFile \/ FinishReindex \/ ImportRecord \/ FinishImport
    \/ FlushIndex \/ StopAndStart

ReindexSpec == ReindexInit /\ [][ReindexNext]_reindexVars

-----------------------------------------------------------------------------
\* The blocks in the files of the node.
Recorded == UNION {Range(importFiles[f]) : f \in DOMAIN importFiles} \ {Junk}

\* b can be added to the index: its header is good, and all its ancestors are in S
\* and good.  (What follows a block whose file contents are damaged, Mutated, is
\* found or not, depending on the order.)
Attached(b, S) ==
    LET ok[n \in 0..Cardinality(FileBlocks), x \in AllBlocks] ==
            /\ x \in S \ BadHeaders
            /\ \/ x = GenesisBlock
               \/ n > 0 /\ FileParent[x] \notin BadBodies \cup Mutated /\ ok[n - 1, FileParent[x]]
    IN  ok[Cardinality(FileBlocks), b]

\* Once the flag is cleared for the files that the node has read, the index has
\* every block of the files whose ancestors are there and good, in whatever order
\* and files they lie, and however often the node was stopped on the way.
ReindexComplete ==
    phase = "reindex" /\ reading[1] \notin DOMAIN importFiles =>
        \A b \in Recorded : Attached(b, Recorded) =>
            b \in DOMAIN blockIndex /\ blockIndex[b] = Checked(b)
=============================================================================
