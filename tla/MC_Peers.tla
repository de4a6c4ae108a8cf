------------------------------ MODULE MC_Peers ------------------------------
(* What the node keeps about its peers, each part on an instance of its own: *)
(* block download, from chains without and with a bad block, transaction     *)
(* relay, the addresses, and the connections.                                *)
EXTENDS BlockDownload, TxRelay, AddrMan, ConnMan, TLC

VARIABLE part

MCPrevHash == 1 :> 0 @@ 2 :> 1
MCHashChain == 0 :> {0} @@ 1 :> {0, 1} @@ 2 :> {0, 1, 2}
MCPeerTip == [p \in Honest |-> 2]

\* The last block is bad, and no honest peer has it; blocks are fetched as soon
\* as their headers arrive.
BadPeerTip == [p \in Honest |-> 1]
BadChain == INSTANCE BlockDownload
    WITH BadBlocks <- {2}, PeerTip <- BadPeerTip, RecentHeight <- 0, Whitelisted <- {},
         Window <- 2, MaxInTransit <- 1, Kinds <- {"compact", "block", "damaged"}

\* A chain of three transactions: the second against policy, the third invalid.
MCSpends == 1 :> {} @@ 2 :> {1} @@ 3 :> {2}

\* Three addresses, one of them with two ports, that collide in "new" and in
\* "tried".
MCServices == {<<1, 1>>, <<2, 1>>, <<3, 1>>, <<1, 2>>}
MCNewBucket == [x \in {1, 2, 3} \X {1, 2} |-> IF x = <<3, 2>> THEN 1 ELSE x[2]]
MCNewPosition == [x \in MCServices \X {1, 2} |-> IF x \in {<<<<2, 1>>, 2>>, <<<<1, 2>>, 1>>} THEN 2 ELSE 1]
MCTriedSlot == [a \in MCServices |-> IF a \in {<<3, 1>>, <<1, 2>>} THEN 2 ELSE 1]

\* The peers of the relay are alike; those of the other parts are not.
RelaySymmetry == Permutations(TxPeers)

PeersInit ==
    /\ part \in {"download", "bad block", "relay", "addresses", "connections"}
    /\ DownloadInit /\ RelayInit /\ AddrInit /\ ConnInit

PeersNext ==
    /\ UNCHANGED part
    /\ \/ /\ part = "download" /\ DownloadNext
          /\ UNCHANGED <<relayVars, am, connVars>>
       \/ /\ part = "bad block" /\ BadChain!DownloadNext
          /\ UNCHANGED <<relayVars, am, connVars>>
       \/ /\ part = "relay" /\ RelayNext
          /\ UNCHANGED <<downloadVars, am, connVars>>
       \/ /\ part = "addresses" /\ AddrNext
          /\ UNCHANGED <<downloadVars, relayVars, connVars>>
       \/ /\ part = "connections" /\ ConnNext
          /\ UNCHANGED <<downloadVars, relayVars, am>>

PeersSpec == PeersInit /\ [][PeersNext]_<<part, downloadVars, relayVars, am, connVars>>
=============================================================================
