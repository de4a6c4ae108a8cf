------------------------------ MODULE ConnMan -------------------------------
(***************************************************************************)
(* CConnman (net.cpp): the life of a CNode, from the thread that connects  *)
(* or accepts it, through its use by the socket thread and the message     *)
(* thread, which hold it by reference count, to its deletion, with the     *)
(* slots of outbound connections (semOutbound), net processing's state of  *)
(* the peer (mapNodeState), and the shutdown by Interrupt and Stop.        *)
(*                                                                         *)
(* One action is one critical section of cs_vNodes, or what a thread does  *)
(* between two of them.  What arrives on a socket is a free choice.        *)
(***************************************************************************)
EXTENDS Integers, FiniteSets

CONSTANTS
    Outbound,      \* nodes that the open-connections thread may connect to
    Inbound,       \* nodes that may connect to us
    OutboundSlots, \* the initial value of semOutbound
    SlotPosts,     \* nMaxOutbound + nMaxFeeler, which Interrupt posts
    MaxInbound     \* nMaxConnections - (nMaxOutbound + nMaxFeeler)

Conns == Outbound \cup Inbound

ASSUME ConnAssumption ==
    /\ IsFiniteSet(Conns) /\ Outbound \cap Inbound = {}
    /\ OutboundSlots \in Nat \ {0} /\ SlotPosts >= OutboundSlots
    /\ MaxInbound \in Nat

VARIABLES
    vNodes, vNodesDisconnected,
    created, deleted,      \* the CNode objects that were made, and unmade
    nodeRefs,              \* nRefCount of each
    nodeStates,            \* the keys of mapNodeState
    fDisconnect,           \* the nodes that have the flag
    slotHolders,           \* the nodes whose grantOutbound has the grant
    slotsFree,             \* semOutbound's value
    openThread,            \* ThreadOpenConnections: where it is, and its node
    sockThread, msgThread, \* ThreadSocketHandler and ThreadMessageHandler: where
                           \* they are, vNodesCopy, and the node that is accepted
                           \* or is to be evicted for it
    netActive,             \* fNetworkActive
    netEnd                 \* no, Interrupt was called, Stop has returned

nodeVars == <<vNodes, vNodesDisconnected, created, deleted, nodeRefs, nodeStates, fDisconnect>>
slotVars == <<slotHolders, slotsFree>>
connVars == <<nodeVars, slotVars, openThread, sockThread, msgThread, netActive, netEnd>>

ConnInit ==
    /\ vNodes = {} /\ vNodesDisconnected = {} /\ created = {} /\ deleted = {}
    /\ nodeRefs = [n \in Conns |-> 0]
    /\ nodeStates = {} /\ fDisconnect = {} /\ slotHolders = {}
    /\ slotsFree = OutboundSlots
    /\ openThread = [at |-> "loop", nodes |-> {}]
    /\ sockThread = [at |-> "disconnect", copy |-> {}, nodes |-> {}]
    /\ msgThread = [at |-> "loop", copy |-> {}]
    /\ netActive = TRUE /\ netEnd = "no"

interruptNet == netEnd # "no"

Counted(S, d) == [n \in Conns |-> nodeRefs[n] + (IF n \in S THEN d ELSE 0)]

-----------------------------------------------------------------------------
(* ThreadOpenConnections.                                                  *)

\* The head of the loop; sleep_for returns at once when the node is interrupted.
OpenLoop ==
    /\ openThread.at = "loop"
    /\ openThread' = [openThread EXCEPT !.at = IF interruptNet THEN "end" ELSE "wait"]
    /\ UNCHANGED <<nodeVars, slotVars, sockThread, msgThread, netActive, netEnd>>

\* CSemaphoreGrant grant(*semOutbound), which blocks without a free slot.
OpenWait ==
    /\ openThread.at = "wait" /\ slotsFree > 0
    /\ slotsFree' = slotsFree - 1
    /\ openThread' = [openThread EXCEPT !.at = "choose"]
    /\ UNCHANGED <<nodeVars, slotHolders, sockThread, msgThread, netActive, netEnd>>

\* OpenNetworkConnection up to InitializeNode: the new node takes the grant.
OpenConnect(n) ==
    /\ openThread.at = "choose" /\ ~ interruptNet /\ netActive
    /\ n \in Outbound \ created
    /\ created' = created \cup {n}
    /\ nodeRefs' = Counted({n}, 1)
    /\ slotHolders' = slotHolders \cup {n}
    /\ nodeStates' = nodeStates \cup {n}
    /\ openThread' = [at |-> "push", nodes |-> {n}]
    /\ UNCHANGED <<vNodes, vNodesDisconnected, deleted, fDisconnect, slotsFree,
                   sockThread, msgThread, netActive, netEnd>>

\* No connection is made: the grant's destructor gives the slot back.
OpenFail ==
    /\ openThread.at = "choose"
    /\ openThread' = [openThread EXCEPT !.at = IF interruptNet THEN "end" ELSE "loop"]
    /\ slotsFree' = slotsFree + 1
    /\ UNCHANGED <<nodeVars, slotHolders, sockThread, msgThread, netActive, netEnd>>

OpenPush ==
    /\ openThread.at = "push"
    /\ vNodes' = vNodes \cup openThread.nodes
    /\ openThread' = [at |-> "loop", nodes |-> {}]
    /\ UNCHANGED <<vNodesDisconnected, created, deleted, nodeRefs, nodeStates, fDisconnect,
                   slotVars, sockThread, msgThread, netActive, netEnd>>

-----------------------------------------------------------------------------
(* ThreadSocketHandler.                                                    *)

SockGoes(at) == sockThread' = [sockThread EXCEPT !.at = at]
SockEnds == interruptNet /\ sockThread' = [at |-> "end", copy |-> {}, nodes |-> {}]

\* The nodes leave vNodes but keep their slots.
ReleasedLater(gone) == /\ slotHolders' = slotHolders /\ slotsFree' = slotsFree

\* grantOutbound.Release() for the nodes that leave vNodes.
Released(gone) ==
    /\ slotHolders' = slotHolders \ gone
    /\ slotsFree' = slotsFree + Cardinality(slotHolders \cap gone)

SockDisconnect ==
    /\ sockThread.at = "disconnect"
    /\ \/ SockEnds /\ UNCHANGED <<vNodes, vNodesDisconnected, nodeRefs, slotVars>>
       \/ LET gone == vNodes \cap fDisconnect
          IN  /\ ~ interruptNet /\ SockGoes("delete")
              /\ vNodes' = vNodes \ gone
              /\ vNodesDisconnected' = vNodesDisconnected \cup gone
              /\ nodeRefs' = Counted(gone, -1)
              /\ Released(gone)
    /\ UNCHANGED <<created, deleted, nodeStates, fDisconnect, openThread, msgThread,
                   netActive, netEnd>>

\* The reference count is not looked at.
AllUnused == vNodesDisconnected

\* "wait until threads are done using it".  The locks that are tried as well
\* are only taken under cs_vNodes or with a reference.
Unused == {n \in vNodesDisconnected : nodeRefs[n] <= 0}

\* DeleteNode with FinalizeNode.
SockDelete ==
    /\ sockThread.at = "delete"
    /\ SockGoes("select")
    /\ vNodesDisconnected' = vNodesDisconnected \ Unused
    /\ deleted' = deleted \cup Unused
    /\ nodeStates' = nodeStates \ Unused
    /\ UNCHANGED <<vNodes, created, nodeRefs, fDisconnect, slotVars, openThread, msgThread,
                   netActive, netEnd>>

\* AcceptConnection: the inbound nodes are counted.
AcceptCount ==
    /\ sockThread.at = "select" /\ ~ interruptNet /\ netActive
    /\ Inbound \ created # {}
    /\ SockGoes(IF Cardinality(vNodes \cap Inbound) >= MaxInbound THEN "choose" ELSE "create")
    /\ UNCHANGED <<nodeVars, slotVars, openThread, msgThread, netActive, netEnd>>

\* AttemptToEvictConnection chooses among these; it may protect them all.
Evictable == (vNodes \cap Inbound) \ fDisconnect

\* There are as many inbound nodes as are allowed: one of them is chosen, or the
\* connection is dropped.
AcceptChoose ==
    /\ sockThread.at = "choose"
    /\ \/ SockGoes("select")
       \/ \E e \in Evictable : sockThread' = [sockThread EXCEPT !.at = "evict", !.nodes = {e}]
    /\ UNCHANGED <<nodeVars, slotVars, openThread, msgThread, netActive, netEnd>>

\* The chosen node is looked up again under the lock.
AcceptEvict ==
    /\ sockThread.at = "evict"
    /\ fDisconnect' = fDisconnect \cup (vNodes \cap sockThread.nodes)
    /\ sockThread' = [sockThread EXCEPT !.nodes = {},
                         !.at = IF vNodes \cap sockThread.nodes = {} THEN "select" ELSE "create"]
    /\ UNCHANGED <<vNodes, vNodesDisconnected, created, deleted, nodeRefs, nodeStates,
                   slotVars, openThread, msgThread, netActive, netEnd>>

\* The node gets a reference, and its state in InitializeNode.
AcceptCreate(n) ==
    /\ sockThread.at = "create"
    /\ n \in Inbound \ created
    /\ created' = created \cup {n}
    /\ nodeRefs' = Counted({n}, 1)
    /\ nodeStates' = nodeStates \cup {n}
    /\ sockThread' = [sockThread EXCEPT !.at = "push", !.nodes = {n}]
    /\ UNCHANGED <<vNodes, vNodesDisconnected, deleted, fDisconnect, slotVars, openThread,
                   msgThread, netActive, netEnd>>

AcceptPush ==
    /\ sockThread.at = "push"
    /\ vNodes' = vNodes \cup sockThread.nodes
    /\ sockThread' = [sockThread EXCEPT !.at = "select", !.nodes = {}]
    /\ UNCHANGED <<vNodesDisconnected, created, deleted, nodeRefs, nodeStates, fDisconnect,
                   slotVars, openThread, msgThread, netActive, netEnd>>

\* After select and the listening sockets: vNodesCopy, with references.
SockCopy ==
    /\ sockThread.at = "select"
    /\ \/ SockEnds /\ UNCHANGED nodeRefs
       \/ /\ ~ interruptNet
          /\ sockThread' = [at |-> "serve", copy |-> vNodes, nodes |-> {}]
          /\ nodeRefs' = Counted(vNodes, 1)
    /\ UNCHANGED <<vNodes, vNodesDisconnected, created, deleted, nodeStates, fDisconnect,
                   slotVars, openThread, msgThread, netActive, netEnd>>

\* The nodes in turn: errors, closed sockets and timeouts end some of them.  An
\* interrupted thread returns without its references being released.
SockServe(S) ==
    /\ sockThread.at = "serve" /\ S \subseteq sockThread.copy
    /\ fDisconnect' = fDisconnect \cup S
    /\ SockEnds \/ SockGoes("release")
    /\ UNCHANGED <<vNodes, vNodesDisconnected, created, deleted, nodeRefs, nodeStates,
                   slotVars, openThread, msgThread, netActive, netEnd>>

SockRelease ==
    /\ sockThread.at = "release"
    /\ nodeRefs' = Counted(sockThread.copy, -1)
    /\ sockThread' = [at |-> "disconnect", copy |-> {}, nodes |-> {}]
    /\ UNCHANGED <<vNodes, vNodesDisconnected, created, deleted, nodeStates, fDisconnect,
                   slotVars, openThread, msgThread, netActive, netEnd>>

-----------------------------------------------------------------------------
(* ThreadMessageHandler.                                                   *)

\* AddRef for every node of vNodesCopy.
Taken == Counted(vNodes, 1)

MsgCopy ==
    /\ msgThread.at = "loop"
    /\ \/ interruptNet /\ msgThread' = [at |-> "end", copy |-> {}] /\ UNCHANGED nodeRefs
       \/ /\ ~ interruptNet
          /\ msgThread' = [at |-> "work", copy |-> vNodes]
          /\ nodeRefs' = Taken
    /\ UNCHANGED <<vNodes, vNodesDisconnected, created, deleted, nodeStates, fDisconnect,
                   slotVars, openThread, sockThread, netActive, netEnd>>

\* ProcessMessages and SendMessages of the nodes that are not to be
\* disconnected; they may set that flag, of these nodes or by a ban of others.
MsgWork(S) ==
    /\ msgThread.at = "work" /\ S \subseteq msgThread.copy \cup vNodes
    /\ msgThread.copy \ fDisconnect # {} \/ S = {}
    /\ fDisconnect' = fDisconnect \cup S
    /\ msgThread' \in {[msgThread EXCEPT !.at = "release"]}
                      \cup IF interruptNet THEN {[at |-> "end", copy |-> {}]} ELSE {}
    /\ UNCHANGED <<vNodes, vNodesDisconnected, created, deleted, nodeRefs, nodeStates,
                   slotVars, openThread, sockThread, netActive, netEnd>>

MsgRelease ==
    /\ msgThread.at = "release"
    /\ nodeRefs' = Counted(msgThread.copy, -1)
    /\ msgThread' = [at |-> "loop", copy |-> {}]
    /\ UNCHANGED <<vNodes, vNodesDisconnected, created, deleted, nodeStates, fDisconnect,
                   slotVars, openThread, sockThread, netActive, netEnd>>

-----------------------------------------------------------------------------
(* Calls of other threads.                                                 *)

\* DisconnectNode, or Ban: nodes of vNodes get the flag.
DisconnectNode(S) ==
    /\ netEnd # "stopped" /\ S \subseteq vNodes
    /\ fDisconnect' = fDisconnect \cup S
    /\ UNCHANGED <<vNodes, vNodesDisconnected, created, deleted, nodeRefs, nodeStates,
                   slotVars, openThread, sockThread, msgThread, netActive, netEnd>>

SetNetworkActive(active) ==
    /\ netEnd # "stopped" /\ active # netActive
    /\ netActive' = active
    /\ fDisconnect' = IF active THEN fDisconnect ELSE fDisconnect \cup vNodes
    /\ UNCHANGED <<vNodes, vNodesDisconnected, created, deleted, nodeRefs, nodeStates,
                   slotVars, openThread, sockThread, msgThread, netEnd>>

\* The semaphore is not posted to.
PostedNothing == slotsFree

\* Whoever waits for a slot is let through.
Posted == slotsFree + SlotPosts

InterruptNet ==
    /\ netEnd = "no"
    /\ netEnd' = "interrupted"
    /\ slotsFree' = Posted
    /\ UNCHANGED <<nodeVars, slotHolders, openThread, sockThread, msgThread, netActive>>

\* Stop: the threads are joined, and every node is deleted.
StopNet ==
    /\ netEnd = "interrupted"
    /\ openThread.at = "end" /\ sockThread.at = "end" /\ msgThread.at = "end"
    /\ netEnd' = "stopped"
    /\ fDisconnect' = fDisconnect \cup vNodes
    /\ deleted' = deleted \cup vNodes \cup vNodesDisconnected
    /\ nodeStates' = nodeStates \ (vNodes \cup vNodesDisconnected)
    /\ vNodes' = {} /\ vNodesDisconnected' = {}
    /\ Released(vNodes)
    /\ UNCHANGED <<created, nodeRefs, openThread, sockThread, msgThread, netActive>>

-----------------------------------------------------------------------------
OpenStep == OpenLoop \/ OpenWait \/ (\E n \in Outbound : OpenConnect(n)) \/ OpenFail \/ OpenPush
AcceptStep == AcceptChoose \/ AcceptEvict \/ (\E n \in Inbound : AcceptCreate(n)) \/ AcceptPush
SockStep == SockDisconnect \/ SockDelete \/ AcceptStep \/ SockCopy \/ (\E S \in SUBSET Conns : SockServe(S)) \/ SockRelease
MsgStep == MsgCopy \/ (\E S \in SUBSET Conns : MsgWork(S)) \/ MsgRelease

ConnNext ==
    \/ OpenStep \/ SockStep \/ MsgStep
    \/ AcceptCount
    \/ \E S \in SUBSET Conns : DisconnectNode(S)
    \/ \E active \in BOOLEAN : SetNetworkActive(active)
    \/ InterruptNet \/ StopNet

ConnSpec == ConnInit /\ [][ConnNext]_connVars

\* The threads run, select and the sleeps time out, and Stop follows Interrupt.
ConnFairness ==
    /\ WF_connVars(OpenStep) /\ WF_connVars(SockStep) /\ WF_connVars(MsgStep) /\ WF_connVars(StopNet)

-----------------------------------------------------------------------------
\* A node that a thread works on, or that any thread may find in vNodes, has
\* not been deleted, and net processing still has its state, which State()
\* looks up without a test in most places.
NodesOutliveUsers ==
    \A n \in vNodes \cup sockThread.copy \cup msgThread.copy \cup openThread.nodes
            \cup sockThread.nodes :
        n \notin deleted /\ n \in nodeStates

\* Until Interrupt posts to it, the semaphore and the grants account for every
\* slot: none is lost or given twice however connections fail and end.
SlotsExact ==
    netEnd = "no" =>
        /\ slotsFree + Cardinality(slotHolders) + (IF openThread.at = "choose" THEN 1 ELSE 0)
             = OutboundSlots
        /\ slotHolders \subseteq vNodes \cup openThread.nodes

\* Both kinds of reference, to a node and to a slot for one, are given back
\* neither too early nor twice, by whichever thread ends a connection.
ConnectionsExact == NodesOutliveUsers /\ SlotsExact

\* A node that is to be disconnected is deleted in the end: the references of
\* both threads are released, and if the node is shut down before that, no
\* thread is left waiting for a slot and Stop deletes it.
DisconnectedIsDeleted == []<>(fDisconnect \subseteq deleted)
=============================================================================
