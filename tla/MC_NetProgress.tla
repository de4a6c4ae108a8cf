--------------------------- MODULE MC_NetProgress ---------------------------
(* What must happen in the end between the node and its peers, each part on  *)
(* an instance of its own and with the fairness of its module: block         *)
(* download, transaction requests, connections, and the flow of messages.    *)
EXTENDS BlockDownload, TxRequests, ConnMan, MessageFlow, TLC

VARIABLE part

MCPrevHash == 1 :> 0 @@ 2 :> 1 @@ 3 :> 2
MCHashChain == [h \in Hashes |-> 0 .. h]
MCPeerTip == [p \in Honest |-> 2]

\* Messages with several answers, one and none, the first and the fourth GETDATA:
\* a block is larger than what the node sends without a pause.
Asking(getdata, n) == [getdata |-> getdata, n |-> n, size |-> IF getdata THEN 2 ELSE 1]
MCRequests == << Asking(TRUE, 3), Asking(FALSE, 1), Asking(FALSE, 0), Asking(TRUE, 1),
                 Asking(FALSE, 2) >>

NetInit ==
    /\ DownloadInit /\ RequestsInit /\ ConnInit /\ FlowInit
    /\ part \in {"download", "requests", "connections", "flow"}

NetNext ==
    /\ UNCHANGED part
    /\ \/ part = "download" /\ DownloadNext /\ UNCHANGED <<requestVars, connVars, flowVars>>
       \/ part = "requests" /\ RequestsNext /\ UNCHANGED <<downloadVars, connVars, flowVars>>
       \/ part = "connections" /\ ConnNext /\ UNCHANGED <<downloadVars, requestVars, flowVars>>
       \/ part = "flow" /\ FlowNext /\ UNCHANGED <<downloadVars, requestVars, connVars>>

netVars == <<part, downloadVars, requestVars, connVars, flowVars>>

\* The fairness of each module, in the behaviours of its part.
NetFairness ==
    /\ \A p \in Peers : /\ WF_downloadVars(part = "download" /\ SendMessages(p))
                        /\ WF_downloadVars(part = "download" /\ FinalizeNode(p))
    /\ \A p \in Peers \ Honest : WF_downloadVars(part = "download" /\ TimePasses(p))
    /\ \A p \in Honest :
          /\ WF_downloadVars(part = "download" /\ (InitializeNode(p) \/ Version(p)))
          /\ WF_downloadVars(part = "download" /\ HonestHeaders(p))
          /\ WF_downloadVars(part = "download" /\ \E b \in Hashes : Block(p, b))
    /\ WF_requestVars(part = "requests" /\ Tick)
    /\ \A p \in Announcers : WF_requestVars(part = "requests" /\ GetData(p))
    /\ \A p \in Replying, t \in Wanted : WF_requestVars(part = "requests" /\ Receive(p, t))
    /\ WF_connVars(part = "connections" /\ OpenStep)
    /\ WF_connVars(part = "connections" /\ SockStep)
    /\ WF_connVars(part = "connections" /\ MsgStep)
    /\ WF_connVars(part = "connections" /\ StopNet)
    /\ WF_flowVars(part = "flow" /\ SocketThread)
    /\ WF_flowVars(part = "flow" /\ MessageThread)
    /\ WF_flowVars(part = "flow" /\ PeerSend)
    /\ WF_flowVars(part = "flow" /\ PeerRead)

NetSpec == NetInit /\ [][NetNext]_netVars /\ NetFairness
=============================================================================
