------------------------------ MODULE AddrMan -------------------------------
(***************************************************************************)
(* CAddrMan (addrman.h, addrman.cpp): the addresses the node has heard of  *)
(* (in one or several positions of the "new" table) and those it has been  *)
(* connected to (in one position of "tried"), with reference counts,       *)
(* counters and a random order that go with them, and peers.dat, from      *)
(* which they are restored.                                                *)
(*                                                                         *)
(* Entries are found by IP address without the port, so an IP stands for   *)
(* its nId.  The hashes that choose positions are constants; what depends  *)
(* on times, failures and chance (IsTerrible, the stochastic test) is a    *)
(* free choice.                                                            *)
(***************************************************************************)
EXTENDS Integers, Sequences, FiniteSets, SequencesExt

CONSTANTS
    Services,       \* addresses: pairs <<IP, port>>, both numbers
    Sources,        \* where addresses come from
    NewBuckets,     \* the number of "new" buckets
    NewBucket,      \* GetNewBucket, by IP and source
    NewPosition,    \* GetBucketPosition in a "new" bucket, by address and bucket
    TriedSlot,      \* GetTriedBucket and the position in it, by address
    MaxRefs         \* ADDRMAN_NEW_BUCKETS_PER_ADDRESS

Ips == {a[1] : a \in Services}

ASSUME AddrAssumption ==
    /\ Services \subseteq Nat \X Nat
    /\ NewBuckets \in Nat \ {0} /\ MaxRefs \in Nat \ {0}
    /\ NewBucket \in [Ips \X Sources -> 1..NewBuckets]
    /\ DOMAIN NewPosition = Services \X (1..NewBuckets)
    /\ DOMAIN TriedSlot = Services

VARIABLE am   \* the members of CAddrMan, and those of each CAddrInfo in am.info

\* The address of an entry: the hash of a position takes in the port as well.
Service(info, ip) == <<ip, info[ip].port>>

\* Where GetBucketPosition puts an entry of the given ones, in a "new" bucket and
\* in "tried".
Slot(info, ip, bucket) == <<bucket, NewPosition[Service(info, ip), bucket]>>
SlotInTried(info, ip) == TriedSlot[Service(info, ip)]

NewSlots == {<<b, NewPosition[a, b]>> : a \in Services, b \in 1..NewBuckets}
TriedSlots == {TriedSlot[a] : a \in Services}

Clear == [info |-> <<>>, vRandom |-> <<>>, nNew |-> 0, nTried |-> 0,
          vvNew |-> [s \in NewSlots |-> -1], vvTried |-> [s \in TriedSlots |-> -1]]

AddrInit == am = Clear

-----------------------------------------------------------------------------
(* The helpers, from one value of the members to the next.                 *)

Updated(a, ip, info) == [a EXCEPT !.info = [i \in DOMAIN @ \cup {ip} |-> IF i = ip THEN info ELSE @[i]]]

Create(a, service, source) ==
    [Updated(a, service[1], [port |-> service[2], source |-> source, nRefCount |-> 0,
                          fInTried |-> FALSE, good |-> FALSE, pos |-> Len(a.vRandom) + 1])
        EXCEPT !.vRandom = Append(@, service[1])]

SwapRandom(a, i, j) ==
    [a EXCEPT !.vRandom = [@ EXCEPT ![i] = a.vRandom[j], ![j] = a.vRandom[i]],
              !.info[a.vRandom[i]].pos = j,
              !.info[a.vRandom[j]].pos = i]

Delete(a, ip) ==
    LET swapped == SwapRandom(a, a.info[ip].pos, Len(a.vRandom))
    IN  [swapped EXCEPT !.vRandom = Front(@),
                        !.info = [i \in DOMAIN @ \ {ip} |-> @[i]],
                        !.nNew = @ - 1]

ClearNew(a, slot) ==
    LET ip == a.vvNew[slot]
        cleared == [a EXCEPT !.vvNew[slot] = -1, !.info[ip].nRefCount = @ - 1]
    IN  IF ip = -1 THEN a
        ELSE IF cleared.info[ip].nRefCount = 0 THEN Delete(cleared, ip) ELSE cleared

\* Only one position of the "new" table is given up.
TakenFromNewOnce(a, ip) ==
    LET held == {s \in NewSlots : a.vvNew[s] = ip}
        one == CHOOSE s \in held : TRUE
    IN  [a EXCEPT !.vvNew[one] = -1, !.info[ip].nRefCount = 0, !.nNew = @ - 1]

\* The first part of MakeTried: the entry leaves every "new" bucket.
TakenFromNew(a, ip) ==
    LET held == {s \in {Slot(a.info, ip, b) : b \in 1..NewBuckets} : a.vvNew[s] = ip}
    IN  [a EXCEPT !.vvNew = [s \in NewSlots |-> IF s \in held THEN -1 ELSE @[s]],
                  !.info[ip].nRefCount = @ - Cardinality(held), !.nNew = @ - 1]

\* The entry that is in the way goes back into the "new" table.
Displaced(a, ip) ==
    LET place == SlotInTried(a.info, ip)
        old == a.vvTried[place]
        slot == Slot(a.info, old, NewBucket[old, a.info[old].source])
        freed == ClearNew([a EXCEPT !.vvTried[place] = -1, !.nTried = @ - 1,
                                    !.info[old].fInTried = FALSE], slot)
    IN  IF old = -1 THEN a
        ELSE [freed EXCEPT !.vvNew[slot] = old, !.info[old].nRefCount = 1, !.nNew = @ + 1]

MakeTried(a, ip) ==
    [Displaced(TakenFromNew(a, ip), ip)
        EXCEPT !.vvTried[SlotInTried(a.info, ip)] = ip, !.nTried = @ + 1, !.info[ip].fInTried = TRUE]

-----------------------------------------------------------------------------
(* The operations.                                                         *)

\* The last part of Add_: a reference in the bucket for this source, if the
\* position is free or its entry is terrible or has others.
Referenced(a, ip, source, terrible) ==
    LET slot == Slot(a.info, ip, NewBucket[ip, source])
        there == a.vvNew[slot]
        room == \/ there = -1 \/ terrible
                \/ a.info[there].nRefCount > 1 /\ a.info[ip].nRefCount = 0
    IN  IF there = ip THEN a
        ELSE IF room THEN [ClearNew(a, slot) EXCEPT !.vvNew[slot] = ip, !.info[ip].nRefCount = @ + 1]
        ELSE IF a.info[ip].nRefCount = 0 THEN Delete(a, ip) ELSE a

\* Add_: a known address gets another reference if there is news, it is not in
\* "tried", it has not enough of them, and chance agrees.
Add(service, source, terrible) ==
    LET ip == service[1]
    IN  \/ /\ ip \notin DOMAIN am.info
           /\ am' = Referenced([Create(am, service, source) EXCEPT !.nNew = @ + 1],
                               ip, source, terrible)
        \/ /\ ip \in DOMAIN am.info
           /\ ~ am.info[ip].fInTried /\ am.info[ip].nRefCount # MaxRefs
           /\ am' = Referenced(am, ip, source, terrible)

\* Good_: nLastSuccess is set, and the entry becomes a tried one.
Good(service) ==
    LET ip == service[1]
        marked == [am EXCEPT !.info[ip].good = TRUE]
    IN  /\ ip \in DOMAIN am.info /\ am.info[ip].port = service[2]
        /\ am' = IF am.info[ip].fInTried \/ \A s \in NewSlots : am.vvNew[s] # ip
                   THEN marked ELSE MakeTried(marked, ip)

\* GetAddr_ shuffles the first n entries: the k-th is swapped with the r[k]-th.
GetAddr(n, r) ==
    /\ n <= Len(am.vRandom)
    /\ \A k \in 1..n : r[k] >= k /\ r[k] <= Len(am.vRandom)
    /\ am' = FoldLeft(LAMBDA a, k : SwapRandom(a, k, r[k]), am, [k \in 1..n |-> k])

-----------------------------------------------------------------------------
(* peers.dat.                                                              *)

ById(S) == SetToSortSeq(S, LAMBDA x, y : x < y)

\* The index written for an entry counts the tried ones before it as well.
FileIndexAmongAll(ip) == Cardinality({i \in DOMAIN am.info : i < ip})

\* mapUnkIds: the entries with references are numbered from 0.
FileIndex(ip) == Cardinality({i \in DOMAIN am.info : i < ip /\ am.info[i].nRefCount > 0})

\* Serialize.
File ==
    LET inNew == ById({ip \in DOMAIN am.info : am.info[ip].nRefCount > 0})
        inTried == ById({ip \in DOMAIN am.info : am.info[ip].fInTried})
    IN  [new |-> inNew, tried |-> inTried, info |-> am.info,
         buckets |-> [b \in 1..NewBuckets |->
                        {FileIndex(am.vvNew[s]) : s \in {t \in NewSlots : t[1] = b /\ am.vvNew[t] # -1}}]]

\* Unserialize: vvTried and vRandom are made from the entries, vvNew from the
\* indices, as far as there is room and an entry may have more references; what
\* finds no place is dropped.  The file is one that this version has written.
Loaded(file) ==
    LET saved(ip, tried, pos) == [file.info[ip] EXCEPT !.nRefCount = 0, !.fInTried = tried, !.pos = pos]
        place(ip) == SlotInTried(file.info, ip)
        first(k) == \A j \in 1..(k - 1) : place(file.tried[j]) # place(file.tried[k])
        tried == ById({file.tried[k] : k \in {j \in DOMAIN file.tried : first(j)}})
        order == file.new \o tried
        entries == [Clear EXCEPT
            !.vRandom = order, !.nNew = Len(file.new), !.nTried = Len(tried),
            !.info = [ip \in ToSet(order) |->
                         LET k == CHOOSE k \in DOMAIN order : order[k] = ip
                         IN  saved(ip, k > Len(file.new), k)],
            !.vvTried = [s \in TriedSlots |->
                            LET at == {ip \in ToSet(tried) : place(ip) = s}
                            IN  IF at = {} THEN -1 ELSE CHOOSE ip \in at : TRUE]]
        placed == {<<b, n>> \in (1..NewBuckets) \X (0..(Len(file.new) - 1)) :
                     /\ n \in file.buckets[b]
                     /\ Cardinality({c \in 1..(b - 1) : n \in file.buckets[c]}) < MaxRefs}
        holder(s) == {file.new[p[2] + 1] :
                        p \in {q \in placed : Slot(file.info, file.new[q[2] + 1], q[1]) = s}}
        slots == [s \in NewSlots |-> IF holder(s) = {} THEN -1 ELSE CHOOSE ip \in holder(s) : TRUE]
        filled == [entries EXCEPT
            !.vvNew = slots,
            !.info = [ip \in DOMAIN @ |->
                         [@[ip] EXCEPT !.nRefCount = Cardinality({s \in NewSlots : slots[s] = ip})]]]
        lost == ById({ip \in ToSet(file.new) : filled.info[ip].nRefCount = 0})
    IN  FoldLeft(Delete, filled, lost)

\* The node is shut down and started again.
Reload == am' = Loaded(File)

-----------------------------------------------------------------------------
AddrNext ==
    \/ \E a \in Services, s \in Sources, terrible \in BOOLEAN : Add(a, s, terrible)
    \/ \E a \in Services : Good(a)
    \/ \E n \in 0..Cardinality(Ips) : \E r \in [1..n -> 1..Cardinality(Ips)] : GetAddr(n, r)
    \/ Reload

AddrSpec == AddrInit /\ [][AddrNext]_am

-----------------------------------------------------------------------------
\* Check_: every entry is in "tried", once and with a success, or in "new" as
\* often as its reference count says; the counters count them; and every entry
\* knows its place in the random order.
CheckPasses ==
    LET tried == {ip \in DOMAIN am.info : am.info[ip].fInTried}
        new == DOMAIN am.info \ tried
        refs(ip) == Cardinality({s \in NewSlots : am.vvNew[s] = ip})
    IN  /\ Len(am.vRandom) = am.nNew + am.nTried
        /\ am.nTried = Cardinality(tried) /\ am.nNew = Cardinality(new)
        /\ \A ip \in tried : am.info[ip].good /\ am.info[ip].nRefCount = 0
        /\ \A ip \in new : am.info[ip].nRefCount \in 1..MaxRefs
        /\ \A ip \in DOMAIN am.info : /\ refs(ip) = am.info[ip].nRefCount
                                     /\ am.info[ip].pos \in DOMAIN am.vRandom
                                     /\ am.vRandom[am.info[ip].pos] = ip
        /\ \A s \in TriedSlots : am.vvTried[s] # -1 =>
              am.vvTried[s] \in tried /\ SlotInTried(am.info, am.vvTried[s]) = s
        /\ \A ip \in tried : am.vvTried[SlotInTried(am.info, ip)] = ip
        /\ \A s \in NewSlots : am.vvNew[s] # -1 =>
              am.vvNew[s] \in new /\ Slot(am.info, am.vvNew[s], s[1]) = s

\* Unserialize counts what it "lost due to collisions": of the tables that the
\* same node has saved, nothing is lost, and every entry is where it was.
ReloadKeepsTables ==
    LET r == Loaded(File)
    IN  <<r.vvNew, r.vvTried, r.nNew, r.nTried>> = <<am.vvNew, am.vvTried, am.nNew, am.nTried>>

\* The tables are consistent after every operation, and stay so, with all their
\* entries, when the node is restarted at that moment.
AddrManExact == CheckPasses /\ ReloadKeepsTables
=============================================================================
