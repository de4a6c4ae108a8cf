--------------------------- MODULE MC_Structures ---------------------------
(* The node's data and the algorithms on it, each part on an instance of its *)
(* own: the layers of coins caches; files and databases over a crash; a      *)
(* reindex; Merkle trees; walks in the block index; compact blocks; the      *)
(* script interpreter; and the arenas of the locked memory pool.             *)
EXTENDS CoinsCache, FlushRestart, Reindex, Merkle, ChainWalk, CompactBlock, Script,
        LockedPool, TLC

VARIABLE part

(*   0 - 1 - 2 - 3                                                         *)
(*     \ 4                                                                 *)
MCDiskParent == [b \in DiskBlocks \ {0} |-> IF b = 4 THEN 0 ELSE b - 1]

\* A failed index write ends the exploration: the invariants say nothing of
\* what follows it.
UpToFailure == "index write" \notin harm

\* Two branches, in every order after the first block, which InitBlockIndex writes;
\* over two files, with a gap in the second.
MCFileParent == "a1" :> "g" @@ "a2" :> "a1" @@ "a3" :> "a2" @@ "b1" :> "g" @@ "b2" :> "b1"
MCFileBlocks == DOMAIN MCFileParent
MCLayouts ==
    {<<<<"g", Head(s)>>, <<"junk">> \o Tail(s)>> : s \in SetToSeqs(MCFileBlocks)}
MCBootstraps == {<<"a1", "a2">>, <<"a2">>}

\* Transactions 1 and 4 have the same short id; the others share a bucket or not.
MCShortId == 1 :> 1 @@ 2 :> 2 @@ 3 :> 3 @@ 4 :> 1
MCBuckets == {[id \in 1..3 |-> 0], [id \in 1..3 |-> id]}

\* Stacks that a CHECKMULTISIG in the output's script finds: signatures in and
\* out of the order of the keys, repeated ones, too few and too many.
MCStarts == {<<>>, <<0, 1, 2, 1, 2, 0>>, <<0, 1, 1, 2, 1, 3, 2, 3>>, <<0, 2, 1, 2, 2, 1, 1, 3>>,
             <<0, 1, 2, 2, 1, 2, 2>>, <<0, 2, 1, 1, 2, 2>>, <<0, 1, 0, 1>>}
MCValidSigs == {<<1, 1>>, <<1, 2>>, <<2, 1>>, <<2, 3>>}
MCSigOps == [push |-> {0, 2}, op |-> {"DUP"}]
MCPubKeyOps ==
    [push |-> {-1, 1, 2},
     op |-> MoveOps \cup NumericOps \cup Conditionals
            \cup {"VERIFY", "TOALTSTACK", "FROMALTSTACK", "PICK", "ROLL", "EQUAL",
                  "EQUALVERIFY", "HASH160", "CHECKSIG", "CHECKSIGVERIFY", "CHECKMULTISIG",
                  "NOP", "NOP1", "RETURN", "CODESEPARATOR", "CAT"}]
MCScriptFlags == {{"P2SH", "CLEANSTACK", "NULLDUMMY", "SIGPUSHONLY"}, {"NOPS"}}

\* Nothing to reindex, no compact block, and no script.
ReindexIdle ==
    /\ importFiles = <<>> /\ bootstrap = <<>> /\ phase = "done" /\ reading = <<1, 1>>
    /\ blockIndex = <<>> /\ unknown = {} /\ flushed = <<>> /\ fReindexing = FALSE /\ stops = 0

CompactIdle ==
    /\ block = <<>> /\ pool = <<>> /\ extraTxn = <<>> /\ wire = [type |-> "none"]
    /\ partial = <<>> /\ status = "none" /\ rebuilt = <<>>

ScriptIdle ==
    /\ stack = <<>> /\ altstack = <<>> /\ vfExec = <<>> /\ nOpCount = 0 /\ stackCopy = <<>>
    /\ running = "sig" /\ length = 0 /\ p2sh = FALSE /\ pushOnly = TRUE /\ flags = {}
    /\ serror = "ok"

StructuresInit ==
    /\ Init /\ DiskInit /\ MerkleInit /\ WalkInit /\ LockedInit
    /\ \/ part \in {"coins", "disk", "merkle", "walk", "locked"}
          /\ ReindexIdle /\ CompactIdle /\ ScriptIdle
       \/ part = "reindex" /\ ReindexInit /\ CompactIdle /\ ScriptIdle
       \/ part = "compact" /\ ReindexIdle /\ CompactInit /\ ScriptIdle
       \/ part = "script" /\ ReindexIdle /\ CompactIdle /\ ScriptInit

StructuresNext ==
    /\ UNCHANGED part
    /\ \/ /\ part = "coins" /\ Next
          /\ UNCHANGED <<diskVars, reindexVars, leaves, walkVars, cmpctVars, scriptVars, lockedVars>>
       \/ /\ part = "disk" /\ DiskNext
          /\ UNCHANGED <<vars, reindexVars, leaves, walkVars, cmpctVars, scriptVars, lockedVars>>
       \/ /\ part = "reindex" /\ ReindexNext
          /\ UNCHANGED <<vars, diskVars, leaves, walkVars, cmpctVars, scriptVars, lockedVars>>
       \/ /\ part = "merkle" /\ MerkleNext
          /\ UNCHANGED <<vars, diskVars, reindexVars, walkVars, cmpctVars, scriptVars, lockedVars>>
       \/ /\ part = "walk" /\ WalkNext
          /\ UNCHANGED <<vars, diskVars, reindexVars, leaves, cmpctVars, scriptVars, lockedVars>>
       \/ /\ part = "compact" /\ CompactNext
          /\ UNCHANGED <<vars, diskVars, reindexVars, leaves, walkVars, scriptVars, lockedVars>>
       \/ /\ part = "script" /\ ScriptNext
          /\ UNCHANGED <<vars, diskVars, reindexVars, leaves, walkVars, cmpctVars, lockedVars>>
       \/ /\ part = "locked" /\ LockedNext
          /\ UNCHANGED <<vars, diskVars, reindexVars, leaves, walkVars, cmpctVars, scriptVars>>

structuresVars ==
    <<part, vars, diskVars, reindexVars, leaves, walkVars, cmpctVars, scriptVars, lockedVars>>

StructuresSpec == StructuresInit /\ [][StructuresNext]_structuresVars
=============================================================================
