------------------------------- MODULE Mining -------------------------------
(***************************************************************************)
(* MineWorker (miner.cpp) under the RPCs generate, eth_getWork and         *)
(* eth_submitWork: a dispatcher thread makes work from the tip and submits *)
(* the block once it is solved, mining threads solve it, and a third kind  *)
(* of thread builds the ethash dataset of an epoch before mining needs it. *)
(*                                                                         *)
(* listWork holds shared pointers: works is the heap of the Work objects   *)
(* that somebody still points to.  No lock protects them, so a mining      *)
(* thread's two writes to a block and the write of done are three steps,   *)
(* and two threads may write into one block.  A solution is a pair of      *)
(* nonce and mix which is valid when both were computed together.          *)
(***************************************************************************)
EXTENDS Integers, Sequences, FiniteSets, TLC

CONSTANTS
    Miners,        \* the mining threads
    Solo,          \* no work is given out by RPC once generate was called
    Blocks,        \* nGenerate
    EpochLength,   \* ETHASH_EPOCH_LENGTH
    PrepareAfter,  \* 20000: how far into an epoch the next one is prepared
    StartHeight,   \* the height of the chain at the start
    MaxOthers,     \* bound: the blocks others find, a miner that asks by RPC included
    MaxTies,       \* bound: how often a thread solves what another one has solved
    NoWork         \* a null pointer

ASSUME MiningAssumption ==
    /\ Solo \in BOOLEAN /\ Blocks \in Nat
    /\ EpochLength \in Nat \ {0} /\ PrepareAfter \in 0..(EpochLength - 2)
    /\ StartHeight \in Nat /\ MaxOthers \in Nat /\ MaxTies \in Nat

VARIABLES
    height,       \* chainActive.Height()
    others,       \* the number of blocks others have found
    works,        \* the Work objects, by address
    listWork,     \* those in the list, in order
    dispatcher,   \* dispatchSingleWork: pc, left (nBlocks) and work (pwork), the hash
                  \* added last to vHashes, and the block of this work that was accepted
    miner,        \* pc and work of each mining thread
    ties,         \* how often a thread has solved what another one had solved
    dag,          \* the epochs in mapEpochFull
    building,     \* the epoch the dataset thread has begun to build
    rpc           \* pc and work of a thread in SubmitWork

chainVars == <<height, others>>
workVars == <<works, listWork>>
dagVars == <<dag, building>>
miningVars == <<chainVars, workVars, dispatcher, miner, ties, dagVars, rpc>>

Epoch(h) == h \div EpochLength

MiningInit ==
    /\ height = StartHeight /\ others = 0
    /\ works = <<>> /\ listWork = <<>>
    /\ dispatcher = [pc |-> "out", left |-> Blocks, work |-> NoWork,
                     hash |-> NoWork, block |-> NoWork]
    /\ miner = [m \in Miners |-> [pc |-> "out", work |-> NoWork]]
    /\ ties = 0 /\ dag = {} /\ building = {}
    /\ rpc = [pc |-> "idle", work |-> NoWork]

fGenerate == dispatcher.pc \notin {"out", "returned", "terminated"}

-----------------------------------------------------------------------------
\* GenNewWork and the new object of AddWork.
NewWork == [height |-> height + 1, done |-> FALSE, nonce |-> NoWork, mix |-> NoWork]

\* The objects that are still in use when the list is l, and one more at a free
\* address.
Fresh == CHOOSE w \in 1..(1 + Cardinality(DOMAIN works)) : w \notin DOMAIN works

WithNewWork(l) ==
    LET used == {l[i] : i \in DOMAIN l} \cup {rpc.work} \cup {miner[m].work : m \in Miners}
    IN  (Fresh :> NewWork) @@ [w \in DOMAIN works \cap used |-> works[w]]

Hash(w) == <<works[w].nonce, works[w].mix>>
Solved(w) == works[w].nonce = works[w].mix /\ works[w].nonce # NoWork

\* The first test of ProcessBlockFound, after which cs_main is released.
Stale(w) == works[w].height # height + 1

\* ProcessNewBlock: a block with a valid proof of work is stored, also when
\* the chain has grown since, and is connected when it is the next one.
ProcessNewBlock(w) ==
    height' = IF Solved(w) /\ ~ Stale(w) THEN height + 1 ELSE height

\* RemoveWork for the work w.
WithoutWork(w) == SelectSeq(listWork, LAMBDA v : v # w)

\* The call of generate: MineBlocks starts all threads.
Generate ==
    /\ dispatcher.pc = "out" /\ (Solo => rpc.pc = "idle")
    /\ dispatcher' = [dispatcher EXCEPT !.pc = "dispatch"]
    /\ miner' = [m \in Miners |-> [pc |-> "get", work |-> NoWork]]
    /\ listWork' = <<>> /\ works' = [w \in DOMAIN works \cap {rpc.work} |-> works[w]]
    /\ UNCHANGED <<chainVars, ties, dagVars, rpc>>

\* The head of dispatchSingleWork's loop: new work, or the end, after which
\* MineBlocks stops the pool.
Dispatch ==
    /\ dispatcher.pc = "dispatch"
    /\ \/ /\ dispatcher.left > 0
          /\ works' = WithNewWork(<<>>)
          /\ listWork' = <<Fresh>>
          /\ dispatcher' = [dispatcher EXCEPT !.pc = "poll", !.work = Fresh,
                                              !.hash = NoWork, !.block = NoWork]
       \/ /\ dispatcher.left = 0
          /\ dispatcher' = [dispatcher EXCEPT !.pc = "returned"]
          /\ UNCHANGED workVars
    /\ UNCHANGED <<chainVars, miner, ties, dagVars, rpc>>

\* GenNewWork throws since CreateNewBlock has failed: no thread of the worker
\* catches the exception, and the process is terminated.
NoTemplate ==
    /\ dispatcher.pc = "dispatch" /\ dispatcher.left > 0
    /\ dispatcher' = [dispatcher EXCEPT !.pc = "terminated"]
    /\ miner' = [m \in Miners |-> [pc |-> "out", work |-> NoWork]]
    /\ listWork' = <<>> /\ building' = {}
    /\ rpc' = [pc |-> "idle", work |-> NoWork]
    /\ UNCHANGED <<chainVars, works, ties, dag>>

\* The work is done: ProcessBlockFound asks whether it is stale.
Check ==
    /\ dispatcher.pc = "poll" /\ works[dispatcher.work].done
    /\ dispatcher' = [dispatcher EXCEPT !.pc =
                         IF Stale(dispatcher.work) THEN "dispatch" ELSE "process"]
    /\ UNCHANGED <<chainVars, workVars, miner, ties, dagVars, rpc>>

\* The block is copied and processed.
Process ==
    /\ dispatcher.pc = "process"
    /\ ProcessNewBlock(dispatcher.work)
    /\ dispatcher' = IF Solved(dispatcher.work)
                     THEN [dispatcher EXCEPT !.pc = "record", !.block = Hash(dispatcher.work)]
                     ELSE [dispatcher EXCEPT !.pc = "dispatch"]
    /\ UNCHANGED <<others, workVars, miner, ties, dagVars, rpc>>

\* pwork->block.GetHash(), read again after the block was accepted.
Recorded == Hash(dispatcher.work)

Record ==
    /\ dispatcher.pc = "record"
    /\ dispatcher' = [dispatcher EXCEPT !.pc = "dispatch", !.left = @ - 1,
                                        !.hash = Recorded]
    /\ listWork' = WithoutWork(dispatcher.work)
    /\ UNCHANGED <<chainVars, works, miner, ties, dagVars, rpc>>

-----------------------------------------------------------------------------
(* doWork and MinePlatopia.                                                *)

Undone == SelectSeq(listWork, LAMBDA w : ~ works[w].done)

\* GetWork gives the first work that is not done; there may be none.
TakeWork(m) ==
    /\ miner[m].pc = "get" /\ fGenerate /\ Undone # <<>>
    /\ miner' = [miner EXCEPT ![m] = [pc |-> "mine", work |-> Head(Undone)]]
    /\ UNCHANGED <<chainVars, workVars, dispatcher, ties, dagVars, rpc>>

\* Another thread has found a solution of the work w and not yet said so.
Tie(m, w) ==
    \E n \in Miners \ {m} : miner[n].work = w /\ miner[n].pc \in {"nonce", "mix", "done"}

\* A solution is found, once the dataset is there.
Find(m) ==
    LET w == miner[m].work
    IN  /\ miner[m].pc = "mine" /\ fGenerate /\ ~ works[w].done
        /\ Epoch(works[w].height) \in dag
        /\ \/ ~ Tie(m, w) /\ UNCHANGED ties
           \/ Tie(m, w) /\ ties < MaxTies /\ ties' = ties + 1
        /\ miner' = [miner EXCEPT ![m].pc = "nonce"]
        /\ UNCHANGED <<chainVars, workVars, dispatcher, dagVars, rpc>>

\* The thread gives up after nMaxTries, or since the work is done, or since
\* mining was stopped.
GiveUp(m) ==
    /\ miner[m].pc = "mine"
    /\ ~ fGenerate \/ Epoch(works[miner[m].work].height) \in dag
    /\ miner' = [miner EXCEPT ![m] = [pc |-> "get", work |-> NoWork]]
    /\ UNCHANGED <<chainVars, workVars, dispatcher, ties, dagVars, rpc>>

\* The assignments to nNonce, hashMix and done.
Write(m) ==
    /\ miner[m].pc \in {"nonce", "mix", "done"}
    /\ LET w == miner[m].work
       IN  works' = CASE miner[m].pc = "nonce" -> [works EXCEPT ![w].nonce = m]
                      [] miner[m].pc = "mix" -> [works EXCEPT ![w].mix = m]
                      [] miner[m].pc = "done" -> [works EXCEPT ![w].done = TRUE]
    /\ miner' = [miner EXCEPT ![m] =
                    CASE @.pc = "nonce" -> [@ EXCEPT !.pc = "mix"]
                      [] @.pc = "mix" -> [@ EXCEPT !.pc = "done"]
                      [] @.pc = "done" -> [pc |-> "get", work |-> NoWork]]
    /\ UNCHANGED <<chainVars, listWork, dispatcher, ties, dagVars, rpc>>

\* The thread is interrupted in its sleep, or sees that mining was stopped.
Quit(m) ==
    /\ miner[m].pc = "get" /\ ~ fGenerate
    /\ miner' = [miner EXCEPT ![m].pc = "out"]
    /\ UNCHANGED <<chainVars, workVars, dispatcher, ties, dagVars, rpc>>

MinerStep(m) == TakeWork(m) \/ Write(m) \/ Quit(m)

-----------------------------------------------------------------------------
(* dagGeneratorWork and AppendEthashFull.                                  *)

\* Only the epoch of the tip is built.
EpochsDueLate == {Epoch(height)}

\* The epochs that the loop builds, one after the other: that of the tip, and the
\* next one in the last part of an epoch.
EpochsDue ==
    {Epoch(height)} \cup
        (IF height % EpochLength > PrepareAfter THEN {Epoch(height + EpochLength)} ELSE {})

DagBegin ==
    /\ fGenerate /\ building = {} /\ ~ (EpochsDue \subseteq dag)
    /\ building' = {CHOOSE e \in EpochsDue \ dag : \A f \in EpochsDue \ dag : e <= f}
    /\ UNCHANGED <<chainVars, workVars, dispatcher, miner, ties, dag, rpc>>

\* A dataset is complete; a thread that is building is not interrupted.
DagEnd ==
    /\ building # {}
    /\ dag' = dag \cup building /\ building' = {}
    /\ UNCHANGED <<chainVars, workVars, dispatcher, miner, ties, rpc>>

-----------------------------------------------------------------------------
(* Other blocks, and work given out by RPC.                                *)

OtherBlock ==
    /\ dispatcher.pc # "terminated" /\ others < MaxOthers
    /\ others' = others + 1
    /\ height' = height + 1
    /\ UNCHANGED <<workVars, dispatcher, miner, ties, dagVars, rpc>>

RpcAllowed ==
    /\ dispatcher.pc # "terminated" /\ rpc.pc = "idle"
    /\ Solo => dispatcher.pc = "out"

\* GetLastNewWork: works at heights that the chain has reached are removed until
\* there is another one that is not done; else one is made, or the call fails.
GetLastNewWork ==
    LET stale == {works[Undone[i]].height : i \in {j \in 1..Len(Undone) : works[Undone[j]].height <= height}}
        kept == SelectSeq(listWork, LAMBDA w : works[w].height \notin stale)
        live == SelectSeq(kept, LAMBDA w : ~ works[w].done)
    IN  /\ RpcAllowed
        /\ \/ listWork' = kept /\ UNCHANGED works
           \/ /\ live = <<>>
              /\ works' = WithNewWork(kept)
              /\ listWork' = Append(kept, Fresh)
        /\ UNCHANGED <<chainVars, dispatcher, miner, ties, dagVars, rpc>>

\* SubmitWork, with a solution or something else: the work is marked as done
\* before the block is processed.
SubmitWork(w, nonce, mix) ==
    /\ RpcAllowed
    /\ \/ nonce # mix /\ UNCHANGED others
       \/ nonce = mix /\ others < MaxOthers /\ others' = others + 1
    /\ works' = [works EXCEPT ![w].done = TRUE, ![w].nonce = nonce, ![w].mix = mix]
    /\ rpc' = [pc |-> "check", work |-> w]
    /\ UNCHANGED <<height, listWork, dispatcher, miner, ties, dagVars>>

\* ProcessBlockFound for the work that was submitted, which is removed when its
\* block is stale or not accepted.
SubmitStep ==
    LET w == rpc.work
    IN  /\ \/ rpc.pc = "check" /\ ~ Stale(w) /\ rpc' = [rpc EXCEPT !.pc = "process"]
              /\ UNCHANGED <<height, listWork>>
           \/ rpc.pc = "check" /\ Stale(w) /\ rpc' = [pc |-> "idle", work |-> NoWork]
              /\ listWork' = WithoutWork(w) /\ UNCHANGED height
           \/ rpc.pc = "process" /\ rpc' = [pc |-> "idle", work |-> NoWork]
              /\ ProcessNewBlock(w)
              /\ listWork' = IF Solved(w) THEN listWork ELSE WithoutWork(w)
        /\ UNCHANGED <<others, works, dispatcher, miner, ties, dagVars>>

-----------------------------------------------------------------------------
DispatcherStep == Dispatch \/ Check \/ Process \/ Record

MiningNext ==
    \/ Generate \/ DispatcherStep \/ NoTemplate
    \/ \E m \in Miners : MinerStep(m) \/ Find(m) \/ GiveUp(m)
    \/ DagBegin \/ DagEnd
    \/ OtherBlock \/ GetLastNewWork \/ SubmitStep
    \/ \E i \in DOMAIN listWork, mix \in {"rpc", "wrong"} : SubmitWork(listWork[i], "rpc", mix)

MiningSpec == MiningInit /\ [][MiningNext]_miningVars

\* Every thread runs, and a search that is started again and again succeeds.
MiningFairness ==
    /\ WF_miningVars(DispatcherStep)
    /\ WF_miningVars(DagBegin \/ DagEnd)
    /\ \A m \in Miners : WF_miningVars(MinerStep(m)) /\ SF_miningVars(Find(m))

-----------------------------------------------------------------------------
\* generate returns "hashes of blocks generated" (rpc/mining.cpp): each of them
\* is the hash of a block that was accepted.  The block is read again after it was
\* submitted, when another thread may have written its own solution into it.
HashesAreBlocks == dispatcher.hash # NoWork => dispatcher.hash = dispatcher.block

\* The chain has left the epoch of the work before its dataset was begun: it is
\* not built any more, and dispatchSingleWork does not look at the height again.
Stranded ==
    /\ dispatcher.pc = "poll"
    /\ LET e == Epoch(works[dispatcher.work].height)
       IN  e < Epoch(height) /\ e \notin dag \cup building

\* generate returns, also when the work crosses into another epoch, when others
\* find blocks meanwhile, when a thread has given up, and when two threads have
\* written into one block, which is then refused: nobody waits for a dataset that
\* is never built or for work that nobody does.  The exceptions are a template
\* that cannot be made, which terminates the node, and a chain that is an epoch
\* ahead at the first turn of dagGeneratorWork.
GenerateReturns ==
    dispatcher.pc = "dispatch" ~>
        dispatcher.pc \in {"returned", "terminated"} \/ Stranded
=============================================================================
