----------------------------- MODULE TxRequests -----------------------------
(***************************************************************************)
(* How transactions are asked for (CNode::AskFor in net.cpp, limitedmap.h, *)
(* and the INV, TX and getdata parts of net_processing.cpp): one that      *)
(* several peers announce is asked from one of them at a time, from the    *)
(* next one two minutes later, and never twice from the same.              *)
(*                                                                         *)
(* Time passes in units of which Retry make two minutes: the second AskFor *)
(* subtracts and the microseconds it adds to keep requests in order are    *)
(* less than one.                                                          *)
(***************************************************************************)
EXTENDS Integers, FiniteSets

CONSTANTS
    Announcers,   \* the peers
    Replying,     \* those of them that answer GETDATA
    Wanted,       \* the transactions
    Retry,        \* two minutes
    MaxAsked,     \* nMaxSize of mapAlreadyAskedFor
    MaxMapAskFor, \* MAPASKFOR_MAX_SZ
    MaxSetAskFor, \* SETASKFOR_MAX_SZ
    MaxTime       \* bound: the last moment

ASSUME RequestsAssumption ==
    /\ Replying \subseteq Announcers
    /\ Retry \in Nat \ {0} /\ MaxAsked \in Nat \ {0}
    /\ MaxMapAskFor \in Nat /\ MaxSetAskFor \in Nat /\ MaxTime \in Nat

VARIABLES
    now,                \* GetTimeMicros
    linked,             \* the peers that are connected
    listening,          \* no block is being imported, and the initial download is over
    heard,              \* the announcements of each peer that the node had to act on
    setAskFor,          \* what each peer was asked for, or will be
    mapAskFor,          \* pairs <<time, transaction>>: what each peer will be asked for
    requested,          \* what each peer was asked for and may still send
    mapAlreadyAskedFor, \* the time of the last request for a transaction
    obtained            \* what has arrived and is kept

requestVars == <<now, linked, listening, heard, setAskFor, mapAskFor, requested,
                 mapAlreadyAskedFor, obtained>>

RequestsInit ==
    /\ now = 0 /\ linked = Announcers /\ listening = FALSE
    /\ heard = [p \in Announcers |-> {}]
    /\ setAskFor = [p \in Announcers |-> {}]
    /\ mapAskFor = [p \in Announcers |-> {}]
    /\ requested = [p \in Announcers |-> {}]
    /\ mapAlreadyAskedFor = <<>>
    /\ obtained = {}

-----------------------------------------------------------------------------
\* limitedmap's insert, when t is not in the map, and update, when it is: a map
\* that is full loses one of the entries with the smallest value, which is never
\* the new one.
Remembered(t, time) ==
    LET old == DOMAIN mapAlreadyAskedFor
        with(S) == [u \in S \cup {t} |-> IF u = t THEN time ELSE mapAlreadyAskedFor[u]]
        least(u) == \A v \in old : mapAlreadyAskedFor[u] <= mapAlreadyAskedFor[v]
    IN  IF t \in old \/ Cardinality(old) < MaxAsked
          THEN {with(old)}
          ELSE {with(old \ {u}) : u \in {v \in old : least(v)}}

\* What was asked from one peer is never asked from another.
AsksOnce(p, t) == t \notin setAskFor[p] /\ t \notin DOMAIN mapAlreadyAskedFor

\* The early returns of AskFor.
RoomToAsk(p) == Cardinality(mapAskFor[p]) <= MaxMapAskFor /\ Cardinality(setAskFor[p]) <= MaxSetAskFor

Asks(p, t) == RoomToAsk(p) /\ t \notin setAskFor[p]

\* "Each retry is 2 minutes after the last".
RequestTime(t) ==
    IF t \in DOMAIN mapAlreadyAskedFor /\ mapAlreadyAskedFor[t] + Retry > now
      THEN mapAlreadyAskedFor[t] + Retry ELSE now

AskFor(p, t) ==
    IF Asks(p, t)
      THEN /\ setAskFor' = [setAskFor EXCEPT ![p] = @ \cup {t}]
           /\ mapAskFor' = [mapAskFor EXCEPT ![p] = @ \cup {<<RequestTime(t), t>>}]
           /\ mapAlreadyAskedFor' \in Remembered(t, RequestTime(t))
      ELSE UNCHANGED <<setAskFor, mapAskFor, mapAlreadyAskedFor>>

\* Bound: whatever is asked for becomes due before the last moment.
InTime == now + Retry * Cardinality(Announcers) <= MaxTime

\* What a peer names and the node does not have is asked for.  It is lost, unless
\* the peer names it again, when the peer has too many requests already.
Named(p, t) ==
    /\ p \in linked /\ t \notin heard[p] \cup obtained /\ InTime
    /\ heard' = [heard EXCEPT ![p] = IF RoomToAsk(p) THEN @ \cup {t} ELSE @]
    /\ AskFor(p, t)
    /\ UNCHANGED <<now, linked, listening, requested, obtained>>

\* INV, which is ignored while blocks are imported or downloaded at first.
Announce(p, t) == listening /\ Named(p, t)

\* TX with an orphan: the transactions that it spends are asked from the peer.
SendOrphan(p, t) == Named(p, t)

\* IsInitialBlockDownload becomes false, for good.
FinishDownload ==
    /\ ~ listening /\ listening' = TRUE
    /\ UNCHANGED <<now, linked, heard, setAskFor, mapAskFor, requested,
                   mapAlreadyAskedFor, obtained>>

\* The getdata part of SendMessages: every request that is due is sent, or
\* forgotten when the transaction has come from elsewhere.
GetData(p) ==
    LET due == {r \in mapAskFor[p] : r[1] <= now}
        txs == {r[2] : r \in due}
    IN  /\ p \in linked /\ due # {}
        /\ mapAskFor' = [mapAskFor EXCEPT ![p] = @ \ due]
        /\ requested' = [requested EXCEPT ![p] = @ \cup (txs \ obtained)]
        /\ setAskFor' = [setAskFor EXCEPT ![p] = @ \ (txs \cap obtained)]
        /\ UNCHANGED <<now, linked, listening, heard, mapAlreadyAskedFor, obtained>>

\* TX, from a peer that was asked for it.
Receive(p, t) ==
    /\ p \in linked \cap Replying /\ t \in requested[p]
    /\ requested' = [requested EXCEPT ![p] = @ \ {t}]
    /\ setAskFor' = [setAskFor EXCEPT ![p] = @ \ {t}]
    /\ mapAlreadyAskedFor' = [u \in DOMAIN mapAlreadyAskedFor \ {t} |-> mapAlreadyAskedFor[u]]
    /\ obtained' = obtained \cup {t}
    /\ UNCHANGED <<now, linked, listening, heard, mapAskFor>>

\* The CNode is deleted, with its sets; mapAlreadyAskedFor is not changed.
Leave(p) ==
    /\ p \in linked
    /\ linked' = linked \ {p}
    /\ setAskFor' = [setAskFor EXCEPT ![p] = {}]
    /\ mapAskFor' = [mapAskFor EXCEPT ![p] = {}]
    /\ requested' = [requested EXCEPT ![p] = {}]
    /\ UNCHANGED <<now, listening, heard, mapAlreadyAskedFor, obtained>>

Tick ==
    /\ now < MaxTime
    /\ now' = now + 1
    /\ UNCHANGED <<linked, listening, heard, setAskFor, mapAskFor, requested,
                   mapAlreadyAskedFor, obtained>>

RequestsNext ==
    \/ Tick \/ FinishDownload
    \/ \E p \in Announcers :
          \/ GetData(p) \/ Leave(p)
          \/ \E t \in Wanted : Announce(p, t) \/ SendOrphan(p, t) \/ Receive(p, t)

RequestsSpec == RequestsInit /\ [][RequestsNext]_requestVars

\* The message handler comes back to every peer, time passes, and the peers in
\* Replying answer.
RequestsFairness ==
    /\ WF_requestVars(Tick)
    /\ \A p \in Announcers : WF_requestVars(GetData(p))
    /\ \A p \in Replying, t \in Wanted : WF_requestVars(Receive(p, t))

-----------------------------------------------------------------------------
\* A transaction that a peer which answers has announced, or spent in an orphan, is
\* obtained in the end, or the peer is gone: whichever silent peers announced it first
\* or disconnected while they were being asked, and although mapAlreadyAskedFor forgets.
\* It speaks of what the node hears: announcements are ignored during the initial
\* download, and when the peer has as many requests as it may have.
AnnouncedIsObtained ==
    \A p \in Replying : []<>(heard[p] \subseteq obtained \/ p \notin linked)
=============================================================================
