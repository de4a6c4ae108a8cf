----------------------------- MODULE PeerProofs -----------------------------
(***************************************************************************)
(* Proofs about the peers of a node.  Connections are accounted for        *)
(* (ConnMan, ConnectionsExact) for every set of nodes and every number of  *)
(* slots.  The orphan maps, the filter of rejects and the inventories stay *)
(* exact (TxRelay, RelayStateExact) for every set of peers and of          *)
(* transactions, whatever they spend, and every limit of the orphans.      *)
(***************************************************************************)
EXTENDS ConnMan, TxRelay, FiniteSetTheorems, TLAPS

-----------------------------------------------------------------------------
(* Connections.  The invariant counts the users of a node: its reference   *)
(* count is at least one for vNodes, or for the thread that is about to    *)
(* enter it there, and one for each copy of vNodes that holds it.          *)

\* The steps of no thread of their own.
OtherStep ==
    \/ AcceptCount
    \/ \E S \in SUBSET Conns : DisconnectNode(S)
    \/ \E active \in BOOLEAN : SetNetworkActive(active)
    \/ InterruptNet \/ StopNet

One(b) == IF b THEN 1 ELSE 0

Listed == vNodes \cup openThread.nodes \cup sockThread.nodes

\* The types of the members, and that a thread holds nodes only where it uses them.
ConnTypes ==
    /\ vNodes \subseteq Conns /\ vNodesDisconnected \subseteq Conns
    /\ created \subseteq Conns /\ deleted \subseteq Conns
    /\ nodeRefs \in [Conns -> Int]
    /\ openThread \in [at : {"loop", "wait", "choose", "push", "end"}, nodes : SUBSET Outbound]
    /\ sockThread \in [at : {"disconnect", "delete", "select", "choose", "evict", "create",
                             "push", "serve", "release", "end"},
                       copy : SUBSET Conns, nodes : SUBSET Inbound]
    /\ msgThread \in [at : {"loop", "work", "release", "end"}, copy : SUBSET Conns]
    /\ openThread.at # "push" => openThread.nodes = {}
    /\ sockThread.at \notin {"serve", "release"} => sockThread.copy = {}
    /\ sockThread.at \notin {"evict", "push"} => sockThread.nodes = {}
    /\ msgThread.at \notin {"work", "release"} => msgThread.copy = {}

\* A node is in one place at a time, and net processing has the state of those
\* that exist.
Places ==
    /\ vNodes \cap openThread.nodes = {}
    /\ Listed \cap vNodesDisconnected = {}
    /\ (Listed \cup vNodesDisconnected) \cap deleted = {}
    /\ Listed \cup vNodesDisconnected \cup deleted \subseteq created
    /\ nodeStates = created \ deleted
    /\ sockThread.copy \cup msgThread.copy \subseteq vNodes \cup vNodesDisconnected

\* nRefCount counts every user.
UsersCounted ==
    \A n \in Conns :
        nodeRefs[n] >= One(n \in Listed) + One(n \in sockThread.copy) + One(n \in msgThread.copy)

\* Until Interrupt, slots are free, with a node, or with the thread that is
\* about to connect.
Slots ==
    /\ slotHolders \subseteq vNodes \cup openThread.nodes
    /\ netEnd = "no" =>
          /\ slotsFree \in Int
          /\ slotsFree + Cardinality(slotHolders) + One(openThread.at = "choose") = OutboundSlots

ConnInv == ConnTypes /\ Places /\ UsersCounted /\ Slots

-----------------------------------------------------------------------------
\* There are finitely many slots in use, of whatever nodes.
LEMMA HoldersFinite ==
    ASSUME ConnTypes, slotHolders \subseteq vNodes \cup openThread.nodes
    PROVE  IsFiniteSet(slotHolders) /\ Cardinality(slotHolders) \in Nat
<1>1. slotHolders \in SUBSET Conns
  BY DEF ConnTypes, Conns
<1> QED  BY <1>1, ConnAssumption, FS_Subset, FS_CardinalityType

\* At the start no node exists and every slot is free.
LEMMA InitInv == ConnInit => ConnInv
BY ConnAssumption, FS_EmptySet
   DEF ConnInit, ConnInv, ConnTypes, Places, UsersCounted, Slots, Listed, One

\* The thread that opens connections: a node is counted and has a state before it
\* is listed, and it takes over the slot that the thread holds.
LEMMA OpenKeeps ==
    ASSUME ConnInv, OpenStep
    PROVE  ConnInv'
<1> USE ConnAssumption DEF One, Listed, Counted, interruptNet, nodeVars, slotVars, Conns
<1> ConnTypes /\ Places /\ UsersCounted /\ Slots
  BY DEF ConnInv
<1>1. IsFiniteSet(slotHolders) /\ Cardinality(slotHolders) \in Nat
  BY HoldersFinite DEF Slots
<1>2. CASE OpenLoop
  <2> USE <1>2
  <2>1. ConnTypes'
    BY DEF ConnTypes, Places, OpenLoop
  <2>2. Places'
    BY DEF ConnTypes, Places, UsersCounted, OpenLoop
  <2>3. UsersCounted'
    BY DEF ConnTypes, Places, UsersCounted, OpenLoop
  <2>4. Slots'
    BY <1>1 DEF ConnTypes, Places, Slots, OpenLoop
  <2> QED  BY <2>1, <2>2, <2>3, <2>4 DEF ConnInv
<1>3. CASE OpenWait
  <2> USE <1>3
  <2>1. ConnTypes'
    BY DEF ConnTypes, Places, OpenWait
  <2>2. Places'
    BY DEF ConnTypes, Places, UsersCounted, OpenWait
  <2>3. UsersCounted'
    BY DEF ConnTypes, Places, UsersCounted, OpenWait
  <2>4. Slots'
    BY <1>1 DEF ConnTypes, Places, Slots, OpenWait
  <2> QED  BY <2>1, <2>2, <2>3, <2>4 DEF ConnInv
<1>4. ASSUME NEW n \in Outbound, OpenConnect(n) PROVE ConnInv'
  <2> USE <1>4
  <2>1. ConnTypes'
    BY DEF ConnTypes, Places, OpenConnect
  <2>2. Places'
    BY DEF ConnTypes, Places, UsersCounted, OpenConnect
  <2>3. UsersCounted'
    BY DEF ConnTypes, Places, UsersCounted, OpenConnect
  <2>4. Slots'
    <3>1. n \notin slotHolders
      BY DEF Places, Slots, OpenConnect
    <3>2. Cardinality(slotHolders') = Cardinality(slotHolders) + 1
      BY <3>1, <1>1, FS_AddElement DEF OpenConnect
    <3> QED  BY <3>2, <1>1 DEF ConnTypes, Slots, OpenConnect
  <2> QED  BY <2>1, <2>2, <2>3, <2>4 DEF ConnInv
<1>5. CASE OpenFail
  <2> USE <1>5
  <2>1. ConnTypes'
    BY DEF ConnTypes, Places, OpenFail
  <2>2. Places'
    BY DEF ConnTypes, Places, UsersCounted, OpenFail
  <2>3. UsersCounted'
    BY DEF ConnTypes, Places, UsersCounted, OpenFail
  <2>4. Slots'
    BY <1>1 DEF ConnTypes, Places, Slots, OpenFail
  <2> QED  BY <2>1, <2>2, <2>3, <2>4 DEF ConnInv
<1>6. CASE OpenPush
  <2> USE <1>6
  <2>1. ConnTypes'
    BY DEF ConnTypes, Places, OpenPush
  <2>2. Places'
    BY DEF ConnTypes, Places, UsersCounted, OpenPush
  <2>3. UsersCounted'
    BY DEF ConnTypes, Places, UsersCounted, OpenPush
  <2>4. Slots'
    BY <1>1 DEF ConnTypes, Places, Slots, OpenPush
  <2> QED  BY <2>1, <2>2, <2>3, <2>4 DEF ConnInv
<1> QED  BY <1>2, <1>3, <1>4, <1>5, <1>6 DEF OpenStep

\* The socket thread: what leaves vNodes gives up one reference and its slot, and
\* only what nobody refers to is deleted.
LEMMA SockKeeps ==
    ASSUME ConnInv, SockStep
    PROVE  ConnInv'
<1> USE ConnAssumption DEF One, Listed, Counted, interruptNet, nodeVars, slotVars, Conns
<1> ConnTypes /\ Places /\ UsersCounted /\ Slots
  BY DEF ConnInv
<1>1. IsFiniteSet(slotHolders) /\ Cardinality(slotHolders) \in Nat
  BY HoldersFinite DEF Slots
<1>2. CASE SockDisconnect
  <2> USE <1>2
  <2>1. ConnTypes'
    BY DEF ConnTypes, Places, SockDisconnect, SockEnds, SockGoes, Released
  <2>2. Places'
    BY DEF ConnTypes, Places, UsersCounted, SockDisconnect, SockEnds, SockGoes, Released
  <2>3. UsersCounted'
    BY DEF ConnTypes, Places, UsersCounted, SockDisconnect, SockEnds, SockGoes, Released
  <2>4. Slots'
    <3> DEFINE gone == vNodes \cap fDisconnect
    <3>1. Cardinality(slotHolders \ gone) = Cardinality(slotHolders) - Cardinality(slotHolders \cap gone)
      BY <1>1, FS_Difference
    <3>2. Cardinality(slotHolders \cap gone) \in Nat
      BY <1>1, FS_Intersection, FS_CardinalityType
    <3>3. CASE interruptNet
      BY <3>3 DEF Slots, SockDisconnect, SockEnds
    <3>4. CASE ~ interruptNet
      <4>1. /\ slotHolders' = slotHolders \ gone /\ vNodes' = vNodes \ gone
            /\ slotsFree' = slotsFree + Cardinality(slotHolders \cap gone)
            /\ openThread' = openThread /\ netEnd' = netEnd
        BY <3>4 DEF SockDisconnect, SockEnds, Released
      <4>2. slotHolders' \subseteq vNodes' \cup openThread'.nodes
        BY <4>1 DEF Slots
      <4> HIDE DEF gone
      <4> QED  BY <3>1, <3>2, <4>1, <4>2, <1>1 DEF Slots
    <3> QED  BY <3>3, <3>4
  <2> QED  BY <2>1, <2>2, <2>3, <2>4 DEF ConnInv
<1>3. CASE SockDelete
  <2> USE <1>3
  <2>1. ConnTypes'
    BY DEF ConnTypes, Places, SockDelete, SockGoes, Unused
  <2>2. Places'
    BY DEF ConnTypes, Places, UsersCounted, SockDelete, SockGoes, Unused
  <2>3. UsersCounted'
    BY DEF ConnTypes, Places, UsersCounted, SockDelete, SockGoes, Unused
  <2>4. Slots'
    BY <1>1 DEF ConnTypes, Places, Slots, SockDelete, SockGoes, Unused
  <2> QED  BY <2>1, <2>2, <2>3, <2>4 DEF ConnInv
<1>4. CASE SockCopy
  <2> USE <1>4
  <2>1. ConnTypes'
    BY DEF ConnTypes, Places, SockCopy, SockEnds
  <2>2. Places'
    BY DEF ConnTypes, Places, UsersCounted, SockCopy, SockEnds
  <2>3. UsersCounted'
    BY DEF ConnTypes, Places, UsersCounted, SockCopy, SockEnds
  <2>4. Slots'
    BY <1>1 DEF ConnTypes, Places, Slots, SockCopy, SockEnds
  <2> QED  BY <2>1, <2>2, <2>3, <2>4 DEF ConnInv
<1>5. ASSUME NEW S \in SUBSET Conns, SockServe(S) PROVE ConnInv'
  <2> USE <1>5
  <2>1. ConnTypes'
    BY DEF ConnTypes, Places, SockServe, SockEnds, SockGoes
  <2>2. Places'
    BY DEF ConnTypes, Places, UsersCounted, SockServe, SockEnds, SockGoes
  <2>3. UsersCounted'
    BY DEF ConnTypes, Places, UsersCounted, SockServe, SockEnds, SockGoes
  <2>4. Slots'
    BY <1>1 DEF ConnTypes, Places, Slots, SockServe, SockEnds, SockGoes
  <2> QED  BY <2>1, <2>2, <2>3, <2>4 DEF ConnInv
<1>6. CASE SockRelease
  <2> USE <1>6
  <2>1. ConnTypes'
    BY DEF ConnTypes, Places, SockRelease
  <2>2. Places'
    BY DEF ConnTypes, Places, UsersCounted, SockRelease
  <2>3. UsersCounted'
    BY DEF ConnTypes, Places, UsersCounted, SockRelease
  <2>4. Slots'
    BY <1>1 DEF ConnTypes, Places, Slots, SockRelease
  <2> QED  BY <2>1, <2>2, <2>3, <2>4 DEF ConnInv
<1>7. CASE AcceptChoose
  <2> USE <1>7
  <2>1. sockThread.at = "choose" /\ sockThread.copy = {} /\ sockThread.nodes = {}
    BY DEF ConnTypes, AcceptChoose
  <2>2. UNCHANGED <<nodeVars, slotVars, openThread, msgThread, netActive, netEnd>>
    BY DEF AcceptChoose
  <2>3. /\ sockThread' \in [at : {"select", "evict"}, copy : SUBSET Conns, nodes : SUBSET Inbound]
        /\ sockThread'.copy = {} /\ sockThread'.nodes \subseteq vNodes
        /\ sockThread'.at = "select" => sockThread'.nodes = {}
    <3>1. CASE SockGoes("select")
      BY <2>1, <3>1 DEF SockGoes, ConnTypes
    <3>2. CASE \E e \in Evictable : sockThread' = [sockThread EXCEPT !.at = "evict", !.nodes = {e}]
      <4>1. PICK e \in vNodes \cap Inbound :
               sockThread' = [sockThread EXCEPT !.at = "evict", !.nodes = {e}]
        BY <3>2 DEF Evictable
      <4>2. DOMAIN sockThread = {"at", "copy", "nodes"}
        BY DEF ConnTypes
      <4> QED  BY <2>1, <4>1, <4>2
    <3> QED  BY <3>1, <3>2 DEF AcceptChoose
  <2>4. ConnTypes'
    BY <2>2, <2>3 DEF ConnTypes
  <2>5. Places'
    BY <2>1, <2>2, <2>3 DEF Places
  <2>6. UsersCounted'
    BY <2>1, <2>2, <2>3 DEF ConnTypes, UsersCounted
  <2>7. Slots'
    BY <1>1, <2>2 DEF Slots
  <2> QED  BY <2>4, <2>5, <2>6, <2>7 DEF ConnInv
<1>8. CASE AcceptEvict
  <2> USE <1>8
  <2>1. ConnTypes'
    BY DEF ConnTypes, Places, AcceptEvict
  <2>2. Places'
    BY DEF ConnTypes, Places, UsersCounted, AcceptEvict
  <2>3. UsersCounted'
    BY DEF ConnTypes, Places, UsersCounted, AcceptEvict
  <2>4. Slots'
    BY <1>1 DEF ConnTypes, Places, Slots, AcceptEvict
  <2> QED  BY <2>1, <2>2, <2>3, <2>4 DEF ConnInv
<1>9. ASSUME NEW n \in Inbound, AcceptCreate(n) PROVE ConnInv'
  <2> USE <1>9
  <2>1. ConnTypes'
    <3>1. /\ sockThread' \in [at : {"push"}, copy : SUBSET Conns, nodes : SUBSET Inbound]
          /\ sockThread'.copy = sockThread.copy /\ sockThread.copy = {}
      BY DEF ConnTypes, AcceptCreate
    <3>2. nodeRefs' \in [Conns -> Int]
      BY DEF ConnTypes, AcceptCreate
    <3> QED  BY <3>1, <3>2 DEF ConnTypes, AcceptCreate
  <2>2. Places'
    <3>1. /\ sockThread.nodes = {} /\ sockThread'.nodes = {n} /\ sockThread'.copy = sockThread.copy
          /\ n \notin created /\ n \notin deleted
      BY DEF ConnTypes, Places, AcceptCreate
    <3>2. nodeStates' = created' \ deleted'
      BY <3>1 DEF Places, AcceptCreate
    <3> QED  BY <3>1, <3>2 DEF Places, AcceptCreate
  <2>3. UsersCounted'
    BY DEF ConnTypes, Places, UsersCounted, AcceptCreate
  <2>4. Slots'
    BY <1>1 DEF ConnTypes, Places, Slots, AcceptCreate
  <2> QED  BY <2>1, <2>2, <2>3, <2>4 DEF ConnInv
<1>10. CASE AcceptPush
  <2> USE <1>10
  <2>1. ConnTypes'
    BY DEF ConnTypes, Places, AcceptPush
  <2>2. Places'
    <3>1. sockThread'.nodes = {} /\ sockThread'.copy = sockThread.copy
      BY DEF ConnTypes, AcceptPush
    <3>2. vNodes' \cap openThread.nodes = {}
      BY DEF ConnTypes, Places, AcceptPush
    <3> QED  BY <3>1, <3>2 DEF Places, AcceptPush
  <2>3. UsersCounted'
    BY DEF ConnTypes, Places, UsersCounted, AcceptPush
  <2>4. Slots'
    BY <1>1 DEF ConnTypes, Places, Slots, AcceptPush
  <2> QED  BY <2>1, <2>2, <2>3, <2>4 DEF ConnInv
<1> QED  BY <1>2, <1>3, <1>4, <1>5, <1>6, <1>7, <1>8, <1>9, <1>10 DEF SockStep, AcceptStep

\* The message thread: its copy of vNodes keeps the nodes alive while it works.
LEMMA MsgKeeps ==
    ASSUME ConnInv, MsgStep
    PROVE  ConnInv'
<1> USE ConnAssumption DEF One, Listed, Counted, interruptNet, nodeVars, slotVars, Conns
<1> ConnTypes /\ Places /\ UsersCounted /\ Slots
  BY DEF ConnInv
<1>1. IsFiniteSet(slotHolders) /\ Cardinality(slotHolders) \in Nat
  BY HoldersFinite DEF Slots
<1>2. CASE MsgCopy
  <2> USE <1>2
  <2>1. ConnTypes'
    BY DEF ConnTypes, Places, MsgCopy, Taken
  <2>2. Places'
    BY DEF ConnTypes, Places, UsersCounted, MsgCopy, Taken
  <2>3. UsersCounted'
    BY DEF ConnTypes, Places, UsersCounted, MsgCopy, Taken
  <2>4. Slots'
    BY <1>1 DEF ConnTypes, Places, Slots, MsgCopy, Taken
  <2> QED  BY <2>1, <2>2, <2>3, <2>4 DEF ConnInv
<1>3. ASSUME NEW S \in SUBSET Conns, MsgWork(S) PROVE ConnInv'
  <2> USE <1>3
  <2>1. ConnTypes'
    BY DEF ConnTypes, Places, MsgWork
  <2>2. Places'
    BY DEF ConnTypes, Places, UsersCounted, MsgWork
  <2>3. UsersCounted'
    BY DEF ConnTypes, Places, UsersCounted, MsgWork
  <2>4. Slots'
    BY <1>1 DEF ConnTypes, Places, Slots, MsgWork
  <2> QED  BY <2>1, <2>2, <2>3, <2>4 DEF ConnInv
<1>4. CASE MsgRelease
  <2> USE <1>4
  <2>1. ConnTypes'
    BY DEF ConnTypes, Places, MsgRelease
  <2>2. Places'
    BY DEF ConnTypes, Places, UsersCounted, MsgRelease
  <2>3. UsersCounted'
    BY DEF ConnTypes, Places, UsersCounted, MsgRelease
  <2>4. Slots'
    BY <1>1 DEF ConnTypes, Places, Slots, MsgRelease
  <2> QED  BY <2>1, <2>2, <2>3, <2>4 DEF ConnInv
<1> QED  BY <1>2, <1>3, <1>4 DEF MsgStep

\* The calls that other threads make; Stop finds that no thread refers to a node.
LEMMA OtherKeeps ==
    ASSUME ConnInv, OtherStep
    PROVE  ConnInv'
<1> USE ConnAssumption DEF One, Listed, Counted, interruptNet, nodeVars, slotVars, Conns
<1> ConnTypes /\ Places /\ UsersCounted /\ Slots
  BY DEF ConnInv
<1>1. IsFiniteSet(slotHolders) /\ Cardinality(slotHolders) \in Nat
  BY HoldersFinite DEF Slots
<1>2. CASE AcceptCount
  <2> USE <1>2
  <2>1. ConnTypes'
    BY DEF ConnTypes, Places, AcceptCount, SockGoes
  <2>2. Places'
    BY DEF ConnTypes, Places, UsersCounted, AcceptCount, SockGoes
  <2>3. UsersCounted'
    BY DEF ConnTypes, Places, UsersCounted, AcceptCount, SockGoes
  <2>4. Slots'
    BY <1>1 DEF ConnTypes, Places, Slots, AcceptCount, SockGoes
  <2> QED  BY <2>1, <2>2, <2>3, <2>4 DEF ConnInv
<1>3. ASSUME NEW S \in SUBSET Conns, DisconnectNode(S) PROVE ConnInv'
  <2> USE <1>3
  <2>1. ConnTypes'
    BY DEF ConnTypes, Places, DisconnectNode
  <2>2. Places'
    BY DEF ConnTypes, Places, UsersCounted, DisconnectNode
  <2>3. UsersCounted'
    BY DEF ConnTypes, Places, UsersCounted, DisconnectNode
  <2>4. Slots'
    BY <1>1 DEF ConnTypes, Places, Slots, DisconnectNode
  <2> QED  BY <2>1, <2>2, <2>3, <2>4 DEF ConnInv
<1>4. ASSUME NEW active \in BOOLEAN, SetNetworkActive(active) PROVE ConnInv'
  <2> USE <1>4
  <2>1. ConnTypes'
    BY DEF ConnTypes, Places, SetNetworkActive
  <2>2. Places'
    BY DEF ConnTypes, Places, UsersCounted, SetNetworkActive
  <2>3. UsersCounted'
    BY DEF ConnTypes, Places, UsersCounted, SetNetworkActive
  <2>4. Slots'
    BY <1>1 DEF ConnTypes, Places, Slots, SetNetworkActive
  <2> QED  BY <2>1, <2>2, <2>3, <2>4 DEF ConnInv
<1>5. CASE InterruptNet
  <2> USE <1>5
  <2>1. ConnTypes'
    BY DEF ConnTypes, Places, InterruptNet, Posted
  <2>2. Places'
    BY DEF ConnTypes, Places, UsersCounted, InterruptNet, Posted
  <2>3. UsersCounted'
    BY DEF ConnTypes, Places, UsersCounted, InterruptNet, Posted
  <2>4. Slots'
    BY <1>1 DEF ConnTypes, Places, Slots, InterruptNet, Posted
  <2> QED  BY <2>1, <2>2, <2>3, <2>4 DEF ConnInv
<1>6. CASE StopNet
  <2> USE <1>6
  <2>1. ConnTypes'
    BY DEF ConnTypes, Places, StopNet, Released
  <2>2. Places'
    BY DEF ConnTypes, Places, UsersCounted, StopNet, Released
  <2>3. UsersCounted'
    BY DEF ConnTypes, Places, UsersCounted, StopNet, Released
  <2>4. Slots'
    BY <1>1 DEF ConnTypes, Places, Slots, StopNet, Released
  <2> QED  BY <2>1, <2>2, <2>3, <2>4 DEF ConnInv
<1> QED  BY <1>2, <1>3, <1>4, <1>5, <1>6 DEF OtherStep

-----------------------------------------------------------------------------
\* ConnInv holds in every reachable state, for any nodes and slots.
THEOREM ConnInvariant == ConnSpec => []ConnInv
<1>1. ConnInv /\ [ConnNext]_connVars => ConnInv'
  <2> SUFFICES ASSUME ConnInv, [ConnNext]_connVars PROVE ConnInv'
    OBVIOUS
  <2>1. CASE ConnNext
    BY <2>1, OpenKeeps, SockKeeps, MsgKeeps, OtherKeeps DEF ConnNext, OtherStep
  <2>2. CASE UNCHANGED connVars
    BY <2>2 DEF connVars, nodeVars, slotVars, ConnInv, ConnTypes, Places, UsersCounted, Slots,
                Listed
  <2> QED  BY <2>1, <2>2
<1> QED  BY InitInv, <1>1, PTL DEF ConnSpec

\* CConnman gives back references to nodes and slots neither too early nor twice,
\* for any number of inbound and outbound nodes: a node that a thread uses is not
\* deleted and has its CNodeState, and no slot of semOutbound is lost.
THEOREM ConnectionsAccounted == ConnSpec => []ConnectionsExact
<1>1. ConnInv => ConnectionsExact
  <2> SUFFICES ASSUME ConnInv PROVE ConnectionsExact
    OBVIOUS
  <2>1. NodesOutliveUsers
    BY DEF ConnInv, Places, Listed, NodesOutliveUsers
  <2>2. SlotsExact
    BY DEF ConnInv, Slots, Listed, One, SlotsExact
  <2> QED  BY <2>1, <2>2 DEF ConnectionsExact
<1> QED  BY ConnInvariant, <1>1, PTL

-----------------------------------------------------------------------------
(* The relay of transactions.                                              *)

\* What the handlers need to know of each other: orphans are transactions, and
\* finitely many; the inventories are those of the peers; and the filter of
\* rejects is never ahead of the chain, so that a new tip makes it void.
RelayTypes ==
    /\ present \subseteq TxPeers
    /\ DOMAIN orphans \subseteq Txs /\ IsFiniteSet(DOMAIN orphans)
    /\ orphans = [o \in DOMAIN orphans |-> orphans[o]]
    /\ known = [p \in TxPeers |-> known[p]] /\ toSend = [p \in TxPeers |-> toSend[p]]
    /\ owed = [p \in TxPeers |-> owed[p]]
    /\ \A p \in TxPeers : owed[p] \subseteq pool /\ (p \notin present => owed[p] = {})
    /\ tipNumber \in Nat /\ rejectsTip \in Nat /\ rejectsTip <= tipNumber

RelayInv == RelayTypes /\ RelayStateExact

-----------------------------------------------------------------------------
(* What the operators that the handlers share do.                          *)

\* EraseOrphanTx keeps the two maps together, whatever is erased, as long as
\* what stays belongs to peers that stay.
LEMMA EraseKeeps ==
    ASSUME RelayTypes, OrphanIndexExact, NEW S, EraseOrphans(S),
           \A o \in DOMAIN orphans \ S : orphans[o] \in present'
    PROVE  /\ DOMAIN orphans' \subseteq Txs /\ IsFiniteSet(DOMAIN orphans')
           /\ orphans' = [o \in DOMAIN orphans' |-> orphans'[o]]
           /\ OrphanIndexExact'
<1>1. DOMAIN orphans' = DOMAIN orphans \ S
  BY DEF EraseOrphans
<1>2. \A o \in DOMAIN orphans' : orphans'[o] = orphans[o]
  BY DEF EraseOrphans
<1>3. IsFiniteSet(DOMAIN orphans') /\ Cardinality(DOMAIN orphans') <= Cardinality(DOMAIN orphans)
  BY <1>1, FS_Subset DEF RelayTypes
<1>4. Cardinality(DOMAIN orphans') \in Nat /\ Cardinality(DOMAIN orphans) \in Nat
  BY <1>3, FS_CardinalityType DEF RelayTypes
<1>5. byPrev' = {e \in Txs \X DOMAIN orphans' : e[1] \in Spends[e[2]]}
  BY <1>1 DEF EraseOrphans, IndexWithout, OrphanIndexExact
<1> QED  BY <1>1, <1>2, <1>3, <1>4, <1>5, RelayAssumption DEF EraseOrphans, OrphanIndexExact, RelayTypes

\* AddOrphanTx and LimitOrphanTxSize do so as well, and keep the limit.
LEMMA AddKeeps ==
    ASSUME RelayTypes, OrphanIndexExact, NEW t \in Txs, NEW p \in present, AddOrphanTx(t, p),
           t \notin DOMAIN orphans, present' = present
    PROVE  /\ DOMAIN orphans' \subseteq Txs /\ IsFiniteSet(DOMAIN orphans')
           /\ orphans' = [o \in DOMAIN orphans' |-> orphans'[o]]
           /\ OrphanIndexExact'
<1> DEFINE all == DOMAIN orphans \cup {t}
<1>1. PICK gone \in SUBSET all :
         /\ Cardinality(all \ gone) <= MaxOrphans
         /\ orphans' = [o \in all \ gone |-> IF o \in DOMAIN orphans THEN orphans[o] ELSE p]
         /\ byPrev' = {e \in byPrev \cup {<<s, t>> : s \in Spends[t]} : e[2] \notin gone}
  BY DEF AddOrphanTx
<1>2. DOMAIN orphans' = all \ gone
  BY <1>1
<1>3. IsFiniteSet(DOMAIN orphans')
  BY <1>2, FS_AddElement, FS_Subset DEF RelayTypes
<1>4. \A o \in DOMAIN orphans' : orphans'[o] \in present
  BY <1>1, <1>2 DEF OrphanIndexExact
<1>5. byPrev' = {e \in Txs \X DOMAIN orphans' : e[1] \in Spends[e[2]]}
  BY <1>1, <1>2, RelayAssumption DEF OrphanIndexExact
<1> QED  BY <1>1, <1>2, <1>3, <1>4, <1>5 DEF OrphanIndexExact, RelayTypes

\* The filter as Reject leaves it is about the present tip.
LEMMA RejectKeeps ==
    ASSUME RelayTypes, RejectsAreCurrent, NEW S, Reject(S), tipNumber' = tipNumber
    PROVE  rejectsTip' = tipNumber /\ RejectsAreCurrent'
BY DEF RelayTypes, RejectsAreCurrent, Reject, CurrentRejects

-----------------------------------------------------------------------------
\* At the start nothing is known and every peer is connected.
LEMMA RelayInitInv == RelayInit => RelayInv
<1> SUFFICES ASSUME RelayInit PROVE RelayInv
  OBVIOUS
<1> USE DEF RelayInit
<1>1. DOMAIN orphans = {} /\ orphans = [o \in {} |-> orphans[o]]
  OBVIOUS
<1>2. IsFiniteSet({}) /\ Cardinality({}) = 0
  BY FS_EmptySet
<1>3. OrphanIndexExact
  BY <1>1, <1>2, RelayAssumption DEF OrphanIndexExact
<1> QED  BY <1>1, <1>2, <1>3
         DEF RelayInv, RelayTypes, RelayStateExact, RejectsAreCurrent, CurrentRejects, PoolReachesPeers

\* TX, by the outcome.
LEMMA TxKeeps ==
    ASSUME RelayInv, NEW p \in TxPeers, NEW t \in Txs, Tx(p, t)
    PROVE  RelayInv'
<1> USE DEF RelayInv, RelayStateExact
<1>1. p \in present /\ present' = present /\ mined' = mined /\ tipNumber' = tipNumber
  BY DEF Tx
<1>2. CASE /\ Reject({t})
           /\ known' = [known EXCEPT ![p] = @ \cup {t}]
           /\ UNCHANGED <<pool, orphanage, toSend, owed>>
  <2>1. PoolReachesPeers'
    BY <1>1, <1>2 DEF RelayTypes, PoolReachesPeers
  <2>2. known' = [q \in TxPeers |-> known'[q]] /\ toSend' = [q \in TxPeers |-> toSend'[q]]
    BY <1>2 DEF RelayTypes
  <2>3. OrphanIndexExact'
    BY <1>1, <1>2 DEF orphanage, OrphanIndexExact
  <2> QED  BY <1>1, <1>2, <2>1, <2>2, <2>3, RejectKeeps DEF orphanage, RelayTypes
<1>3. CASE /\ ~ AlreadyHave(t) /\ Reject({})
           /\ known' = [known EXCEPT ![p] = @ \cup {t} \cup Spends[t]]
           /\ AddOrphanTx(t, p)
           /\ UNCHANGED <<pool, toSend, owed>>
  <2>1. t \notin DOMAIN orphans
    BY <1>3 DEF AlreadyHave
  <2>2. PoolReachesPeers'
    BY <1>1, <1>3 DEF RelayTypes, PoolReachesPeers
  <2>3. known' = [q \in TxPeers |-> known'[q]] /\ toSend' = [q \in TxPeers |-> toSend'[q]]
    BY <1>3 DEF RelayTypes
  <2> QED  BY <1>1, <1>3, <2>1, <2>2, <2>3, RejectKeeps, AddKeeps DEF RelayTypes
<1>4. CASE \E taken, refused, S :
             /\ known' = [known EXCEPT ![p] = @ \cup {t}]
             /\ pool' = pool \cup {t} \cup taken
             /\ toSend' = Pushed(t, taken, known')
             /\ owed' = [q \in TxPeers |-> IF q \in present THEN owed[q] \cup {t} \cup taken
                                           ELSE owed[q]]
             /\ Reject(S) /\ EraseOrphans(refused)
  <2>1. PICK taken, refused, S :
             /\ known' = [known EXCEPT ![p] = @ \cup {t}]
             /\ pool' = pool \cup {t} \cup taken
             /\ toSend' = Pushed(t, taken, known')
             /\ owed' = [q \in TxPeers |-> IF q \in present THEN owed[q] \cup {t} \cup taken
                                           ELSE owed[q]]
             /\ Reject(S) /\ EraseOrphans(refused)
    BY <1>4
  <2>2. PoolReachesPeers'
    BY <1>1, <2>1 DEF RelayTypes, PoolReachesPeers, Pushed
  <2>3. known' = [q \in TxPeers |-> known'[q]] /\ toSend' = [q \in TxPeers |-> toSend'[q]]
    BY <2>1 DEF RelayTypes, Pushed
  <2>5. /\ owed' = [q \in TxPeers |-> owed'[q]]
        /\ \A q \in TxPeers : owed'[q] \subseteq pool' /\ (q \notin present' => owed'[q] = {})
    BY <1>1, <2>1 DEF RelayTypes
  <2>4. \A o \in DOMAIN orphans : orphans[o] \in present'
    BY <1>1 DEF OrphanIndexExact
  <2> QED  BY <1>1, <2>1, <2>2, <2>3, <2>4, <2>5, RejectKeeps, EraseKeeps DEF RelayTypes
<1> QED  BY <1>2, <1>3, <1>4 DEF Tx

\* A step of any handler keeps the invariant.
LEMMA RelayNextKeeps ==
    ASSUME RelayInv, RelayNext
    PROVE  RelayInv'
<1> USE DEF RelayInv, RelayStateExact
<1>1. ASSUME NEW p \in TxPeers, NEW t \in Txs, TxInv(p, t) PROVE RelayInv'
  <2>1. PoolReachesPeers'
    BY <1>1 DEF TxInv, RelayTypes, PoolReachesPeers
  <2>2. known' = [q \in TxPeers |-> known'[q]] /\ toSend' = [q \in TxPeers |-> toSend'[q]]
    BY <1>1 DEF TxInv, RelayTypes
  <2>3. OrphanIndexExact'
    BY <1>1 DEF TxInv, orphanage, OrphanIndexExact
  <2> QED  BY <1>1, <2>1, <2>2, <2>3, RejectKeeps DEF TxInv, orphanage, RelayTypes
<1>2. ASSUME NEW p \in TxPeers, NEW t \in Txs, Tx(p, t) PROVE RelayInv'
  BY <1>2, TxKeeps
<1>3. ASSUME NEW p \in TxPeers, NEW S, NEW unwanted, SendInv(p, S, unwanted) PROVE RelayInv'
  <2>1. PoolReachesPeers'
    BY <1>3 DEF SendInv, RelayTypes, PoolReachesPeers
  <2>2. RelayTypes'
    BY <1>3 DEF SendInv, orphanage, refusals, RelayTypes
  <2> QED  BY <1>3, <2>1, <2>2 DEF SendInv, orphanage, refusals, OrphanIndexExact, RejectsAreCurrent,
                                  CurrentRejects
<1>4. ASSUME NEW p \in TxPeers, NEW unwanted, SendMempool(p, unwanted) PROVE RelayInv'
  <2>1. PoolReachesPeers'
    BY <1>4 DEF SendMempool, RelayTypes, PoolReachesPeers
  <2>2. RelayTypes'
    BY <1>4 DEF SendMempool, orphanage, refusals, RelayTypes
  <2> QED  BY <1>4, <2>1, <2>2 DEF SendMempool, orphanage, refusals, OrphanIndexExact,
                                  RejectsAreCurrent, CurrentRejects
<1>5. ASSUME NEW p \in TxPeers, TxConnect(p) PROVE RelayInv'
  BY <1>5 DEF TxConnect, orphanage, refusals, inventory, RelayTypes, OrphanIndexExact,
              RejectsAreCurrent, CurrentRejects, PoolReachesPeers
<1>6. ASSUME NEW p \in TxPeers, TxDisconnect(p) PROVE RelayInv'
  <2>1. \A o \in DOMAIN orphans \ {o \in DOMAIN orphans : orphans[o] = p} : orphans[o] \in present'
    BY <1>6 DEF TxDisconnect, OrphanIndexExact
  <2>2. RejectsAreCurrent' /\ PoolReachesPeers'
    BY <1>6 DEF TxDisconnect, refusals, RejectsAreCurrent, CurrentRejects, RelayTypes, PoolReachesPeers
  <2> QED  BY <1>6, <2>1, <2>2, EraseKeeps DEF TxDisconnect, refusals, RelayTypes
<1>7. ASSUME NEW S, NEW conflicts, TxBlock(S, conflicts) PROVE RelayInv'
  <2>1. RejectsAreCurrent'
    BY <1>7 DEF TxBlock, refusals, RelayTypes, RejectsAreCurrent, CurrentRejects
  <2>2. PoolReachesPeers'
    BY <1>7 DEF TxBlock, PoolBecomes, inventory, RelayTypes, PoolReachesPeers
  <2>3. \A o \in DOMAIN orphans : orphans[o] \in present'
    BY <1>7 DEF TxBlock, OrphanIndexExact
  <2> QED  BY <1>7, <2>1, <2>2, <2>3, EraseKeeps DEF TxBlock, PoolBecomes, refusals, inventory, RelayTypes
<1>8. ASSUME NEW S, NEW back, TxReorg(S, back) PROVE RelayInv'
  <2>1. RejectsAreCurrent'
    BY <1>8 DEF TxReorg, refusals, RelayTypes, RejectsAreCurrent, CurrentRejects
  <2>2. PICK becomes : PoolBecomes(becomes)
    BY <1>8 DEF TxReorg
  <2>3. PoolReachesPeers'
    BY <1>8, <2>2 DEF TxReorg, PoolBecomes, inventory, RelayTypes, PoolReachesPeers
  <2> QED  BY <1>8, <2>1, <2>2, <2>3 DEF TxReorg, PoolBecomes, orphanage, refusals, inventory,
                                        OrphanIndexExact, RelayTypes
<1>9. ASSUME NEW t \in Txs, Evict(t) PROVE RelayInv'
  BY <1>9 DEF Evict, PoolBecomes, orphanage, refusals, inventory, RelayTypes, OrphanIndexExact,
              RejectsAreCurrent, CurrentRejects, PoolReachesPeers
<1> QED  BY <1>1, <1>2, <1>3, <1>4, <1>5, <1>6, <1>7, <1>8, <1>9 DEF RelayNext

\* RelayStateExact is an invariant, with what its proof needs: the orphan maps
\* agree and stay within their limit, the filter of rejects holds nothing that
\* an earlier tip refused, and no transaction that was received and is still in
\* the pool is withheld from a peer that was connected when it came and wants it,
\* whatever the order in which peers come and go and their handlers, blocks,
\* reorganisations and evictions take their turns.
THEOREM RelayInvariant == RelaySpec => []RelayInv
<1>1. RelayInv /\ UNCHANGED relayVars => RelayInv'
  BY DEF relayVars, orphanage, refusals, inventory, RelayInv, RelayTypes, RelayStateExact,
         OrphanIndexExact, RejectsAreCurrent, CurrentRejects, PoolReachesPeers
<1> QED  BY <1>1, RelayInitInv, RelayNextKeeps, PTL DEF RelaySpec

\* The property that the run of the peers checks (see RelayStateExact).
THEOREM RelayExact == RelaySpec => []RelayStateExact
BY RelayInvariant, PTL DEF RelayInv
=============================================================================
