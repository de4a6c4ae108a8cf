--------------------------- MODULE BlockDownload ---------------------------
(***************************************************************************)
(* Which peer each block is asked from (net_processing.cpp): the state of  *)
(* a peer (CNodeState), the map of the blocks in flight, and the messages  *)
(* that change them.  The message handler thread runs ProcessMessage and   *)
(* SendMessages for one peer after the other; the socket thread ends a     *)
(* connection at any time.                                                 *)
(*                                                                         *)
(* Work is height.  A peer outside Honest may announce any block, send any *)
(* of them at any time, also with a body that is not the block's, and      *)
(* leave what it is asked for unanswered.  An honest peer sends the blocks *)
(* and headers that it is asked for.  Every caller of MarkBlockAsInFlight  *)
(* passes a block index entry, so that all blocks in flight have validated *)
(* headers.                                                                *)
(***************************************************************************)
EXTENDS Integers, Sequences, FiniteSets, Functions

CONSTANTS
    Peers,        \* node ids: a connection gets a new one
    Honest,       \* the peers that stay connected and answer in time
    Whitelisted,  \* the peers with fWhitelisted
    Preferable,   \* the peers with fPreferredDownload once they said VERSION
    Hashes, FirstHash, PrevHash, \* the tree of blocks
    HashChain,    \* a block and its ancestors
    PeerTip,      \* the best block an honest peer has
    BadBlocks,    \* the blocks that fail when they are connected
    Window,       \* BLOCK_DOWNLOAD_WINDOW
    MaxInTransit, \* MAX_BLOCKS_IN_TRANSIT_PER_PEER
    KeepBlocks,   \* MIN_BLOCKS_TO_KEEP
    RecentHeight, \* from this height on, a block is close to today
    Kinds,        \* bound: subset of {"inv", "compact", "block", "damaged"}, the
                  \* messages sent, besides HEADERS and the blocks of honest peers
    NoHash        \* no block

BlockHeight(b) == Cardinality(HashChain[b]) - 1

AncestorAt(b, h) == CHOOSE a \in HashChain[b] : BlockHeight(a) = h

ASSUME DownloadAssumption ==
    /\ Honest \subseteq Preferable /\ Preferable \subseteq Peers /\ Whitelisted \subseteq Peers
    /\ FirstHash \in Hashes /\ PrevHash \in [Hashes \ {FirstHash} -> Hashes]
    /\ HashChain = [b \in Hashes |->
                       IF b = FirstHash THEN {b} ELSE {b} \cup HashChain[PrevHash[b]]]
    /\ \A b \in Hashes :
          /\ HashChain[b] \subseteq Hashes /\ IsFiniteSet(HashChain[b])
          /\ \A a, c \in HashChain[b] : BlockHeight(a) = BlockHeight(c) => a = c
    /\ PeerTip \in [Honest -> Hashes]
    /\ \A p \in Honest : HashChain[PeerTip[p]] \cap BadBlocks = {}
    /\ Window \in Nat \ {0} /\ MaxInTransit \in Nat \ {0} /\ KeepBlocks \in Nat

VARIABLES
    conn,     \* the connections: "new", "open", "up" after VERACK, "closing", "gone"
    node,     \* mapNodeState
    flight,   \* mapBlocksInFlight: the peer, and partialBlock of a compact block: "no",
              \* "yes", or "used" once FillBlock has cleared it
    nPeersWithValidatedDownloads, nPreferredDownload, nSyncStarted,
    source,   \* mapBlockSource: who sent a block, and whether to punish it
    headers,  \* mapBlockIndex
    have,     \* the blocks with BLOCK_HAVE_DATA
    failed,   \* the blocks with BLOCK_FAILED_VALID
    tip       \* chainActive.Tip()

chain == <<headers, have, failed, tip>>
downloads == <<node, flight, nPeersWithValidatedDownloads>>
downloadVars == <<conn, downloads, nPreferredDownload, nSyncStarted, source, chain>>

-----------------------------------------------------------------------------
(* The peers' state.                                                       *)

NewNode ==
    [ vBlocksInFlight |-> <<>>, nBlocksInFlight |-> 0,
      stalling |-> "no",  \* nStallingSince: "no", "yes", or longer than the timeout
      late |-> FALSE,     \* nDownloadingSince is longer ago than the timeout
      pindexBestKnownBlock |-> NoHash, hashLastUnknownBlock |-> NoHash,
      pindexLastCommonBlock |-> NoHash,
      asked |-> NoHash,   \* where the headers begin that an honest peer still owes
      fSyncStarted |-> FALSE, fPreferredDownload |-> FALSE, fShouldBan |-> FALSE ]

\* The downloads as one value, which the operations below map to the next one.
Downloads == [node |-> node, flight |-> flight, peers |-> nPeersWithValidatedDownloads]

SetDownloads(s) ==
    \E v \in {s} : /\ node' = v.node /\ flight' = v.flight
                   /\ nPeersWithValidatedDownloads' = v.peers

\* The list without the entry of b, to which its iterator in the map points.
Erase(q, b) ==
    LET k == CHOOSE i \in 1..Len(q) : q[i] = b
    IN  [i \in 1..(Len(q) - 1) |-> IF i < k THEN q[i] ELSE q[i + 1]]

Without(f, S) == [x \in DOMAIN f \ S |-> f[x]]
With(f, x, v) == [y \in DOMAIN f \cup {x} |-> IF y = x THEN v ELSE f[y]]

\* The counter of the peers is not touched.
PeersLeftAlone(n, peers) == peers

\* A peer counts while it has a block in flight; n is nBlocksInFlight before
\* the last of them arrives.
PeersLeft(n, peers) == IF n = 1 THEN peers - 1 ELSE peers

\* The peer still looks as if it stalled.
StallingStill(was) == was

\* nStallingSince = 0.
StallingAfterBlock(was) == "no"

MarkBlockAsReceived(s, b) ==
    IF b \notin DOMAIN s.flight THEN s
    ELSE LET p == s.flight[b].peer
             x == s.node[p]
         IN  [ node |-> [s.node EXCEPT ![p] =
                   [x EXCEPT !.late = @ /\ Head(x.vBlocksInFlight) # b,
                             !.vBlocksInFlight = Erase(@, b),
                             !.nBlocksInFlight = @ - 1,
                             !.stalling = StallingAfterBlock(@)]],
               flight |-> Without(s.flight, {b}),
               peers |-> PeersLeft(x.nBlocksInFlight, s.peers) ]

\* For a block that is not in flight from p itself; "Make sure it's not listed
\* somewhere already."
MarkBlockAsInFlight(s, p, b, partial) ==
    LET r == MarkBlockAsReceived(s, b)
        first == r.node[p].nBlocksInFlight = 0
    IN  [ node |-> [r.node EXCEPT ![p].vBlocksInFlight = Append(@, b),
                                  ![p].nBlocksInFlight = @ + 1,
                                  ![p].late = @ /\ ~ first],
          flight |-> With(r.flight, b, [peer |-> p, partial |-> partial]),
          peers |-> r.peers + (IF first THEN 1 ELSE 0) ]

\* The same for a sequence of blocks that are not in flight at all.
Request(s, p, blocks) ==
    LET n == s.node[p].nBlocksInFlight
    IN  IF blocks = <<>> THEN s
        ELSE [ node |-> [s.node EXCEPT ![p].vBlocksInFlight = @ \o blocks,
                                       ![p].nBlocksInFlight = @ + Len(blocks),
                                       ![p].late = @ /\ n > 0],
               flight |-> [b \in DOMAIN s.flight \cup Range(blocks) |->
                             IF b \in DOMAIN s.flight THEN s.flight[b]
                             ELSE [peer |-> p, partial |-> "no"]],
               peers |-> s.peers + (IF n = 0 THEN 1 ELSE 0) ]

Better(b, known) == known = NoHash \/ BlockHeight(b) >= BlockHeight(known)

\* For the headers known then.
ProcessBlockAvailability(x, known) ==
    IF x.hashLastUnknownBlock \notin known THEN x
    ELSE [x EXCEPT !.hashLastUnknownBlock = NoHash,
                   !.pindexBestKnownBlock =
                        IF Better(x.hashLastUnknownBlock, @) THEN x.hashLastUnknownBlock ELSE @]

UpdateBlockAvailability(x, b, known) ==
    LET y == ProcessBlockAvailability(x, known)
    IN  IF b \notin known THEN [y EXCEPT !.hashLastUnknownBlock = b]
        ELSE [y EXCEPT !.pindexBestKnownBlock = IF Better(b, @) THEN b ELSE @]

-----------------------------------------------------------------------------
(* The blocks.                                                             *)

\* pindexBestHeader.
BestHeader == CHOOSE b \in headers : \A c \in headers : BlockHeight(c) <= BlockHeight(b)

\* GETHEADERS is sent to p, with a locator from the block b on.
AskHeaders(x, p, b) ==
    IF p \in Honest /\ (x.asked = NoHash \/ BlockHeight(b) < BlockHeight(x.asked))
      THEN [x EXCEPT !.asked = b] ELSE x

CanDirectFetch == BlockHeight(tip) >= RecentHeight
IsInitialBlockDownload == BlockHeight(tip) < RecentHeight

\* AcceptBlockHeader for the headers up to b that follow a known one.
HeadersValid(b) ==
    IF b \in headers THEN b \notin failed
    ELSE \A a \in HashChain[b] \ headers : PrevHash[a] \notin failed

\* ActivateBestChain once the blocks h have data: the tip moves to a chain with
\* more work; a chain that fails is marked from its bad block on.
ActivateBestChain(h) ==
    LET linked == {b \in h : HashChain[b] \subseteq h}
        sound == {b \in linked : HashChain[b] \cap BadBlocks = {}}
        better == {b \in sound : BlockHeight(b) > BlockHeight(tip)}
    IN  /\ tip' \in IF better = {} THEN {tip}
                    ELSE {b \in better : \A c \in better : BlockHeight(c) <= BlockHeight(b)}
        /\ failed' = failed \cup
              {b \in linked \ sound : \E d \in linked : /\ b \in HashChain[d]
                                                      /\ BlockHeight(d) > BlockHeight(tip')}

\* A block that was not asked for is kept only if it has more work than the tip
\* and is not too far ahead.
AcceptBlock(b, forced) ==
    IF HeadersValid(b) /\ (b = FirstHash \/ PrevHash[b] \in headers)
      THEN /\ headers' = headers \cup {b}
           /\ have' = IF forced \/ BlockHeight(b) - BlockHeight(tip) \in 1..KeepBlocks
                        THEN have \cup {b} ELSE have
           /\ ActivateBestChain(have')
      ELSE UNCHANGED chain

\* Misbehaving.
Punish(nd, punished) ==
    [p \in DOMAIN nd |-> [nd[p] EXCEPT !.fShouldBan = @ \/ p \in punished]]

\* BlockChecked is called for the blocks that were connected or have failed, and
\* for b if it was refused; the peer that sent a bad block is punished.
BlockChecked(s, src, b) ==
    LET refused == b \notin headers' \/ b \in failed
        bad == (failed' \ failed) \cup (IF b \in headers THEN {} ELSE {b} \ headers')
        checked == bad \cup (HashChain[tip'] \ HashChain[tip]) \cup (IF refused THEN {b} ELSE {})
        punished == {src[c].peer : c \in {d \in DOMAIN src \cap bad : src[d].punish}}
    IN  /\ source' = Without(src, checked)
        /\ SetDownloads([s EXCEPT !.node = Punish(@, punished)])

AddSource(b, p, punish) ==
    IF b \in DOMAIN source THEN source ELSE With(source, b, [peer |-> p, punish |-> punish])

\* ProcessNewBlock for a block sent by p.
ProcessNewBlock(s, p, b, forced, punish) ==
    /\ AcceptBlock(b, forced)
    /\ BlockChecked(s, AddSource(b, p, punish), b)

\* The same when CheckBlock fails: who is known to have sent the block is punished.
DamagedBlock(s, p, b, punish) ==
    LET src == AddSource(b, p, punish)
    IN  /\ source' = Without(src, {b})
        /\ SetDownloads([s EXCEPT !.node = Punish(@, IF src[b].punish THEN {src[b].peer} ELSE {})])

-----------------------------------------------------------------------------
(* Connections.                                                            *)

DownloadInit ==
    /\ conn = [p \in Peers |-> "new"]
    /\ node = <<>> /\ flight = <<>> /\ source = <<>>
    /\ nPeersWithValidatedDownloads = 0 /\ nPreferredDownload = 0 /\ nSyncStarted = 0
    /\ headers = {FirstHash} /\ have = {FirstHash} /\ failed = {} /\ tip = FirstHash

InitializeNode(p) ==
    /\ conn[p] = "new"
    /\ conn' = [conn EXCEPT ![p] = "open"]
    /\ node' = With(node, p, NewNode)
    /\ UNCHANGED <<flight, nPeersWithValidatedDownloads, nPreferredDownload,
                   nSyncStarted, source, chain>>

\* VERSION, with UpdatePreferredDownload, and VERACK.
Version(p) ==
    /\ conn[p] = "open"
    /\ conn' = [conn EXCEPT ![p] = "up"]
    /\ node' = [node EXCEPT ![p].fPreferredDownload = p \in Preferable]
    /\ nPreferredDownload' = nPreferredDownload + (IF p \in Preferable THEN 1 ELSE 0)
    /\ UNCHANGED <<flight, nPeersWithValidatedDownloads, nSyncStarted, source, chain>>

\* The peer closes the connection, or it fails.
Disconnect(p) ==
    /\ p \notin Honest /\ conn[p] \in {"open", "up"}
    /\ conn' = [conn EXCEPT ![p] = "closing"]
    /\ UNCHANGED <<downloads, nPreferredDownload, nSyncStarted, source, chain>>

\* What FinalizeNode leaves in flight when the state x is erased.
FlightKept(x) == flight

FlightWithout(x) == Without(flight, Range(x.vBlocksInFlight))

\* DeleteNode calls it once nobody uses the node any more.
FinalizeNode(p) ==
    LET x == node[p]
    IN  /\ conn[p] = "closing"
        /\ conn' = [conn EXCEPT ![p] = "gone"]
        /\ nSyncStarted' = nSyncStarted - (IF x.fSyncStarted THEN 1 ELSE 0)
        /\ nPreferredDownload' = nPreferredDownload - (IF x.fPreferredDownload THEN 1 ELSE 0)
        /\ nPeersWithValidatedDownloads' =
              nPeersWithValidatedDownloads - (IF x.nBlocksInFlight # 0 THEN 1 ELSE 0)
        /\ flight' = FlightWithout(x)
        /\ source' = Without(source, {b \in DOMAIN source : source[b].peer = p})
        /\ node' = Without(node, {p})
        /\ UNCHANGED chain

\* The clock passes the timeout of a peer that owes a block; honest peers answer
\* before that.
TimePasses(p) ==
    /\ p \in DOMAIN node \ Honest
    /\ node' = [node EXCEPT ![p].stalling = IF @ = "no" THEN @ ELSE "too long",
                            ![p].late = @ \/ node[p].nBlocksInFlight > 0]
    /\ UNCHANGED <<conn, flight, nPeersWithValidatedDownloads, nPreferredDownload,
                   nSyncStarted, source, chain>>

-----------------------------------------------------------------------------
(* Messages from a peer.                                                   *)

CanSend(p, b) ==
    /\ conn[p] = "up"
    /\ p \in Honest => b \in HashChain[PeerTip[p]]

\* INV; the headers are asked for in return if the block is new.
Inv(p, b) ==
    LET x == UpdateBlockAvailability(node[p], b, headers)
    IN  /\ CanSend(p, b)
        /\ p \in Honest => b = PeerTip[p]
        /\ node' = [node EXCEPT ![p] = IF b \in headers THEN x ELSE AskHeaders(x, p, BestHeader)]
    /\ UNCHANGED <<conn, flight, nPeersWithValidatedDownloads, nPreferredDownload,
                   nSyncStarted, source, chain>>

\* A set of blocks of one chain, lowest first.
ByHeight(S) ==
    [i \in 1..Cardinality(S) |->
        CHOOSE b \in S : Cardinality({c \in S : BlockHeight(c) < BlockHeight(b)}) = i - 1]

Missing(S) == {b \in S : b \notin have /\ b \notin DOMAIN flight}

\* The blocks asked for when headers up to b arrive close to today, earliest
\* first: what is missing down to the active chain, unless that is too much.
DirectFetch(b, n) ==
    LET missing == ByHeight(Missing(HashChain[b] \ HashChain[tip]))
        room == IF n > MaxInTransit THEN 0 ELSE MaxInTransit - n
        reached == \/ Len(missing) <= MaxInTransit
                   \/ /\ Len(missing) = MaxInTransit + 1
                      /\ PrevHash[missing[1]] \in HashChain[tip]
    IN  IF CanDirectFetch /\ b \notin failed /\ BlockHeight(tip) <= BlockHeight(b) /\ reached
          THEN SubSeq(missing, 1, IF room < Len(missing) THEN room ELSE Len(missing))
          ELSE <<>>

\* HEADERS ending in b whose first header follows a known one; before is the
\* peer's state.
ProcessHeaders(p, b, before) ==
    IF HeadersValid(b)
      THEN LET known == headers \cup HashChain[b]
               x == UpdateBlockAvailability(before, b, known)
           IN  /\ headers' = known
               /\ SetDownloads(Request([Downloads EXCEPT !.node[p] = x], p,
                                       DirectFetch(b, x.nBlocksInFlight)))
               /\ UNCHANGED <<have, failed, tip>>
      ELSE /\ node' = [node EXCEPT ![p] = [before EXCEPT !.fShouldBan = @ \/ b \notin headers]]
           /\ UNCHANGED <<flight, nPeersWithValidatedDownloads, chain>>

Headers(p, b) ==
    /\ CanSend(p, b) /\ p \notin Honest
    /\ ProcessHeaders(p, b, node[p])
    /\ UNCHANGED <<conn, nPreferredDownload, nSyncStarted, source>>

\* The answer of an honest peer to GETHEADERS: its headers after the locator,
\* which may be none.
HonestHeaders(p) ==
    /\ p \in Honest /\ conn[p] = "up" /\ node[p].asked # NoHash
    /\ \/ /\ PeerTip[p] \in HashChain[node[p].asked]
          /\ node' = [node EXCEPT ![p].asked = NoHash]
          /\ UNCHANGED <<flight, nPeersWithValidatedDownloads, chain>>
       \/ /\ PeerTip[p] \notin HashChain[node[p].asked]
          /\ ProcessHeaders(p, PeerTip[p], [node[p] EXCEPT !.asked = NoHash])
    /\ UNCHANGED <<conn, nPreferredDownload, nSyncStarted, source>>

\* HEADERS that do not connect: the last one is remembered, and those before it
\* are asked for.
UnconnectedHeaders(p, b) ==
    /\ CanSend(p, b)
    /\ p \in Honest => b = PeerTip[p]
    /\ b # FirstHash /\ PrevHash[b] \notin headers
    /\ node' = [node EXCEPT ![p] =
                   AskHeaders(UpdateBlockAvailability(@, b, headers), p, BestHeader)]
    /\ UNCHANGED <<conn, flight, nPeersWithValidatedDownloads, nPreferredDownload,
                   nSyncStarted, source, chain>>

\* BLOCK.  An honest peer sends what it was asked for.
Block(p, b) ==
    LET forced == b \in DOMAIN flight \/ (p \in Whitelisted /\ ~ IsInitialBlockDownload)
    IN  /\ CanSend(p, b)
        /\ p \in Honest => b \in DOMAIN flight /\ flight[b].peer = p
        /\ ProcessNewBlock(MarkBlockAsReceived(Downloads, b), p, b, forced, TRUE)
        /\ UNCHANGED <<conn, nPreferredDownload, nSyncStarted>>

\* BLOCK with a body that fails CheckBlock.
BadBody(p, b) ==
    /\ CanSend(p, b) /\ p \notin Honest
    /\ DamagedBlock(MarkBlockAsReceived(Downloads, b), p, b, TRUE)
    /\ UNCHANGED <<conn, nPreferredDownload, nSyncStarted, chain>>

\* CMPCTBLOCK that does not connect.
UnconnectedCompact(p, b) ==
    /\ CanSend(p, b)
    /\ p \in Honest => b = PeerTip[p]
    /\ b # FirstHash /\ PrevHash[b] \notin headers /\ ~ IsInitialBlockDownload
    /\ node' = [node EXCEPT ![p] = AskHeaders(@, p, BestHeader)]
    /\ UNCHANGED <<conn, flight, nPeersWithValidatedDownloads, nPreferredDownload,
                   nSyncStarted, source, chain>>

\* All transactions of a compact block from p are at hand.  FillBlock finds that
\* they are the block's, or those of another one, since short ids collide, and the
\* block itself is asked for; or that they are too few or too many, or fail CheckBlock.
FillBlock(s, p, b) ==
    LET received == MarkBlockAsReceived(s, b)
        kept == headers' = headers \cup {b} /\ UNCHANGED <<have, failed, tip>>
    IN  \/ ProcessNewBlock(received, p, b, TRUE, FALSE)
        \/ /\ SetDownloads([s EXCEPT !.flight[b].partial = "used"])
           /\ kept /\ UNCHANGED source
        \/ /\ p \notin Honest
           /\ SetDownloads([received EXCEPT !.node[p].fShouldBan = TRUE])
           /\ kept /\ UNCHANGED source
        \/ p \notin Honest /\ DamagedBlock(received, p, b, FALSE) /\ kept

\* CMPCTBLOCK for a known or new header.
Compact(p, b) ==
    LET near == BlockHeight(b) <= BlockHeight(tip) + 2
        inFlight == b \in DOMAIN flight
        mine == inFlight /\ flight[b].peer = p
        known == headers \cup {b}
        x == UpdateBlockAvailability(node[p], b, known)
        seen == [Downloads EXCEPT !.node[p] = x]
        ask == IF mine THEN [seen EXCEPT !.flight[b].partial = "yes"]
               ELSE MarkBlockAsInFlight(seen, p, b, "yes")
        stored == headers' = known /\ UNCHANGED <<have, failed, tip, source>>
    IN  /\ CanSend(p, b)
        /\ b # FirstHash /\ PrevHash[b] \in headers
        /\ UNCHANGED <<conn, nPreferredDownload, nSyncStarted>>
        /\ \/ /\ ~ HeadersValid(b)
              /\ node' = [node EXCEPT ![p].fShouldBan = @ \/ b \notin headers]
              /\ UNCHANGED <<flight, nPeersWithValidatedDownloads, source, chain>>
           \/ /\ HeadersValid(b)
              /\ \/ b \in have \/ BlockHeight(b) <= BlockHeight(tip)
                 \/ ~ inFlight /\ ~ CanDirectFetch
                 \/ ~ near /\ inFlight
                 \/ near /\ mine /\ flight[b].partial # "no"
              /\ SetDownloads(seen) /\ stored
           \/ /\ HeadersValid(b) /\ b \notin have /\ BlockHeight(b) > BlockHeight(tip)
              /\ inFlight \/ CanDirectFetch
              /\ \/ ~ near /\ ~ inFlight /\ ProcessHeaders(p, b, node[p]) /\ UNCHANGED source
                 \/ \* some transactions are asked for, or two have the same short id,
                    \* or all are at hand
                    /\ near
                    /\ IF inFlight THEN mine /\ flight[b].partial = "no"
                       ELSE x.nBlocksInFlight < MaxInTransit
                    /\ (SetDownloads(ask) /\ stored) \/ FillBlock(ask, p, b)
                 \/ \* in flight from another peer, or too many are from this one: the
                    \* block is rebuilt without asking, or not at all
                    /\ near
                    /\ IF inFlight THEN ~ mine ELSE x.nBlocksInFlight >= MaxInTransit
                    /\ \/ SetDownloads(seen) /\ stored
                       \/ ProcessNewBlock(IF b \in failed' THEN seen
                                          ELSE MarkBlockAsReceived(seen, b), p, b, TRUE, FALSE)

\* BLOCKTXN, the answer to GETBLOCKTXN.
BlockTxn(p, b) ==
    /\ CanSend(p, b)
    /\ b \in DOMAIN flight /\ flight[b].peer = p /\ flight[b].partial = "yes"
    /\ FillBlock(Downloads, p, b)
    /\ UNCHANGED <<conn, nPreferredDownload, nSyncStarted>>

\* BLOCKTXN for a block that FillBlock was called for before: its assertion
\* fails, and the node ends.
BlockTxnAgain(p, b) ==
    /\ CanSend(p, b) /\ p \notin Honest
    /\ b \in DOMAIN flight /\ flight[b].peer = p /\ flight[b].partial = "used"
    /\ conn' = [q \in Peers |-> "gone"]
    /\ node' = <<>> /\ flight' = <<>> /\ source' = <<>>
    /\ nPeersWithValidatedDownloads' = 0 /\ nPreferredDownload' = 0 /\ nSyncStarted' = 0
    /\ UNCHANGED chain

-----------------------------------------------------------------------------
(* SendMessages.                                                           *)

LastCommonAncestor(a, b) ==
    CHOOSE c \in HashChain[a] \cap HashChain[b] :
        \A d \in HashChain[a] \cap HashChain[b] : BlockHeight(d) <= BlockHeight(c)

WindowEnd(common) == BlockHeight(common) + Window

\* pindexLastCommonBlock as FindNextBlocksToDownload finds it: a guess at first,
\* and then the last ancestor that it shares with the peer's best block.
CommonBlock(x) ==
    LET best == x.pindexBestKnownBlock
        guess == IF x.pindexLastCommonBlock # NoHash THEN x.pindexLastCommonBlock
                 ELSE IF BlockHeight(best) < BlockHeight(tip)
                      THEN AncestorAt(tip, BlockHeight(best)) ELSE tip
    IN  LastCommonAncestor(guess, best)

\* The blocks that it then looks at, one past the window included; it returns at
\* a block that is not valid.
PathFrom(common, best) ==
    {b \in HashChain[best] \ HashChain[common] :
        /\ BlockHeight(b) <= WindowEnd(common) + 1
        /\ HashChain[b] \cap failed \subseteq HashChain[common]}

\* FindNextBlocksToDownload: the next common block, the blocks to ask p for, and
\* the peer that p waits for, if it could ask for a block just past the window.
FindNextBlocksToDownload(common, path, count) ==
    LET linked == {b \in path : HashChain[b] \subseteq have}
        missing == Missing(path \ HashChain[tip])
        inside == {b \in missing : BlockHeight(b) <= WindowEnd(common)}
        flying == ByHeight((path \cap DOMAIN flight) \ have)
    IN  [ common |-> IF linked = {} THEN common
                     ELSE CHOOSE b \in linked :
                             \A c \in linked : BlockHeight(c) <= BlockHeight(b),
          blocks |-> LET all == ByHeight(inside)
                     IN  SubSeq(all, 1, IF count < Len(all) THEN count ELSE Len(all)),
          staller |-> IF inside = {} /\ missing # {} /\ flying # <<>>
                        THEN flight[flying[1]].peer ELSE NoHash ]

Room(n) == MaxInTransit - n

\* nStallingSince of the staller, if p has nothing else to do.
StallStarted(s, p, staller) ==
    IF s.node[p].nBlocksInFlight = 0 /\ staller \notin {NoHash, p}
      THEN [s EXCEPT !.node[staller].stalling = IF @ = "no" THEN "yes" ELSE @]
      ELSE s

\* The peer has nothing for the node: it is not known to have more work than the
\* active chain.
NothingOffered(x) ==
    IF x.pindexBestKnownBlock = NoHash THEN TRUE
    ELSE BlockHeight(x.pindexBestKnownBlock) < BlockHeight(tip)

RequestBlocks(p, x, fetch) ==
    \E seen \in {[Downloads EXCEPT !.node[p] = x]} :
        \/ /\ NothingOffered(x) \/ Room(x.nBlocksInFlight) <= 0
              \/ ~ (fetch \/ ~ IsInitialBlockDownload)
           /\ SetDownloads(seen)
        \/ /\ ~ NothingOffered(x) /\ Room(x.nBlocksInFlight) > 0
           /\ fetch \/ ~ IsInitialBlockDownload
           /\ \E common \in {CommonBlock(x)} :
              \E path \in {PathFrom(common, x.pindexBestKnownBlock)} :
              \E next \in {FindNextBlocksToDownload(common, path, Room(x.nBlocksInFlight))} :
              \E marked \in {[seen EXCEPT !.node[p].pindexLastCommonBlock = next.common]} :
              \E asked \in {Request(marked, p, next.blocks)} :
                 SetDownloads(StallStarted(asked, p, next.staller))

\* "Only actively request headers from a single peer, unless we're close to today."
SyncStarts(fetch) == (nSyncStarted = 0 /\ fetch) \/ BlockHeight(BestHeader) >= RecentHeight

\* The block before the best header.
SyncFrom == IF BestHeader = FirstHash THEN FirstHash ELSE PrevHash[BestHeader]

SendMessages(p) ==
    /\ conn[p] = "up"
    /\ UNCHANGED <<nPreferredDownload, source, chain>>
    /\ \/ /\ node[p].fShouldBan
          /\ conn' = IF p \in Whitelisted THEN conn ELSE [conn EXCEPT ![p] = "closing"]
          /\ node' = [node EXCEPT ![p].fShouldBan = FALSE]
          /\ UNCHANGED <<flight, nPeersWithValidatedDownloads, nSyncStarted>>
       \/ /\ ~ node[p].fShouldBan
          /\ \E fetch \in {node[p].fPreferredDownload \/ nPreferredDownload = 0} :
             \E start \in {~ node[p].fSyncStarted /\ SyncStarts(fetch)} :
             \E y \in {ProcessBlockAvailability(node[p], headers)} :
             \E x \in {IF start THEN AskHeaders([y EXCEPT !.fSyncStarted = TRUE], p, SyncFrom)
                        ELSE y} :
                /\ nSyncStarted' = nSyncStarted + (IF start THEN 1 ELSE 0)
                /\ \/ /\ x.stalling = "too long" \/ (x.late /\ x.vBlocksInFlight # <<>>)
                      /\ conn' = [conn EXCEPT ![p] = "closing"]
                      /\ node' = [node EXCEPT ![p] = x]
                      /\ UNCHANGED <<flight, nPeersWithValidatedDownloads>>
                   \/ /\ ~ (x.stalling = "too long" \/ (x.late /\ x.vBlocksInFlight # <<>>))
                      /\ RequestBlocks(p, x, fetch)
                      /\ UNCHANGED conn

-----------------------------------------------------------------------------
Message(p, b) ==
    \/ Headers(p, b)
    \/ ("block" \in Kinds \/ p \in Honest) /\ Block(p, b)
    \/ "damaged" \in Kinds /\ BadBody(p, b)
    \/ "inv" \in Kinds /\ (Inv(p, b) \/ UnconnectedHeaders(p, b))
    \/ /\ "compact" \in Kinds
       /\ Compact(p, b) \/ UnconnectedCompact(p, b) \/ BlockTxn(p, b) \/ BlockTxnAgain(p, b)

DownloadNext ==
    \E p \in Peers :
        \/ InitializeNode(p) \/ Version(p) \/ Disconnect(p) \/ FinalizeNode(p)
        \/ TimePasses(p) \/ SendMessages(p) \/ HonestHeaders(p)
        \/ \E b \in Hashes : Message(p, b)

DownloadSpec == DownloadInit /\ [][DownloadNext]_downloadVars

\* The two threads serve every peer again and again, and time passes; an honest
\* peer connects and sends the headers and the blocks it is asked for.
DownloadFairness ==
    /\ \A p \in Peers : /\ WF_downloadVars(SendMessages(p))
                        /\ WF_downloadVars(FinalizeNode(p))
    /\ \A p \in Peers \ Honest : WF_downloadVars(TimePasses(p))
    /\ \A p \in Honest : /\ WF_downloadVars(InitializeNode(p) \/ Version(p))
                         /\ WF_downloadVars(HonestHeaders(p))
                         /\ WF_downloadVars(\E b \in Hashes : Block(p, b))

FairDownloadSpec == DownloadSpec /\ DownloadFairness

-----------------------------------------------------------------------------
\* A peer is disconnected for stalling only while it owes a block that another
\* one waits for.
StallersOweBlocks ==
    \A p \in DOMAIN node : node[p].stalling # "no" => node[p].vBlocksInFlight # <<>>

\* The map of the blocks in flight, the lists of the peers and the counters
\* agree, whatever peers answer, take over or leave behind; so the assertions
\* of FinalizeNode hold, and no block is asked from two peers or for ever from
\* one that is gone; and only a peer that owes a block is seen as stalling.
DownloadsExact ==
    /\ \A b \in DOMAIN flight :
          /\ flight[b].peer \in DOMAIN node
          /\ \A p \in DOMAIN node : (b \in Range(node[p].vBlocksInFlight)) = (flight[b].peer = p)
    /\ \A p \in DOMAIN node :
          LET q == node[p].vBlocksInFlight
          IN  /\ Range(q) \subseteq DOMAIN flight
              /\ IsInjective(q)
              /\ node[p].nBlocksInFlight = Len(q)
              /\ node[p].nBlocksInFlight <= MaxInTransit
    /\ nPeersWithValidatedDownloads = Cardinality({p \in DOMAIN node : node[p].nBlocksInFlight > 0})
    /\ nPreferredDownload = Cardinality({p \in DOMAIN node : node[p].fPreferredDownload})
    /\ nSyncStarted = Cardinality({p \in DOMAIN node : node[p].fSyncStarted})
    /\ StallersOweBlocks

CaughtUp(p) == BlockHeight(tip) >= BlockHeight(PeerTip[p])

\* The node does not know what p has, and has no reason to ask: another peer was
\* sent the one GETHEADERS, which no timeout takes back from it, or others have sent
\* headers beyond those of p, so that p had none to add.
Unasked(p) ==
    /\ node[p].pindexBestKnownBlock # PeerTip[p]
    /\ \/ /\ BlockHeight(BestHeader) < RecentHeight
          /\ \E q \in DOMAIN node \ Honest : node[q].fSyncStarted
       \/ PeerTip[p] \in HashChain[BestHeader] \ {BestHeader}

\* Whatever the others announce, send or keep to themselves, the node catches up
\* with an honest peer once it is connected to it.  The exception is a node that
\* stays without the headers of the peer for ever, as a peer that was asked for
\* headers first keeps them to itself and stays, or as others send more headers.
CatchesUp ==
    \A p \in Honest :
        \/ conn[p] = "up" ~> CaughtUp(p)
        \/ <>[](conn[p] = "up" /\ Unasked(p))
=============================================================================
