---------------------------- MODULE PoolPackages ----------------------------
(***************************************************************************)
(* What CTxMemPool keeps for each transaction about its packages: links to *)
(* parents and children (mapLinks), and number and fees of its ancestors   *)
(* and descendants, updated step by step as transactions enter, leave, are *)
(* confirmed or brought back by a reorganisation, or are prioritised.      *)
(* Eviction, the limits on chains and block assembly rely on the numbers.  *)
(*                                                                         *)
(* Sizes and signature operations are kept like the fees and left out.     *)
(***************************************************************************)
EXTENDS Integers, Sequences, FiniteSets, FiniteSetsExt, SequencesExt

CONSTANTS
    PTxs,          \* transactions, numbers
    PSpends,       \* the transactions whose outputs each one spends
    PRivals,       \* the transactions that spend an output each one spends too
    PFee,          \* the fee of each
    AncestorLimit, DescendantLimit,   \* -limitancestorcount, -limitdescendantcount
    FeeDeltas,     \* what PrioritiseTransaction may be called with
    MaxDelta       \* the bound of the sum of the deltas of one transaction

ASSUME PackageAssumption ==
    /\ IsFiniteSet(PTxs) /\ PTxs \subseteq Nat
    /\ PSpends \in [PTxs -> SUBSET PTxs] /\ PRivals \in [PTxs -> SUBSET PTxs]
    /\ \A t \in PTxs : \A p \in PSpends[t] : p < t
    /\ PFee \in [PTxs -> Nat] /\ FeeDeltas \subseteq Int /\ MaxDelta \in Nat
    /\ AncestorLimit \in Nat /\ DescendantLimit \in Nat

VARIABLES
    mapTx,       \* the entries: parents, children and the numbers of each
    mapDeltas,   \* the fee delta of every transaction, 0 when there is none
    blocks       \* the blocks of the chain: sequences of transactions

packageVars == <<mapTx, mapDeltas, blocks>>

PackagesInit == mapTx = <<>> /\ mapDeltas = [t \in PTxs |-> 0] /\ blocks = <<>>

-----------------------------------------------------------------------------
(* The graph, and updates of entries.                                      *)

\* The set S and everything that next leads to from it.
Reach(next, S) ==
    LET r[n \in 0..Cardinality(DOMAIN next)] ==
            IF n = 0 THEN S ELSE r[n - 1] \cup UNION {next[x] : x \in r[n - 1]}
    IN  r[Cardinality(DOMAIN next)]

ChildLinks(m) == [t \in DOMAIN m |-> m[t].children]
ParentLinks(m) == [t \in DOMAIN m |-> m[t].parents]

\* CalculateDescendants; CalculateMemPoolAncestors with fSearchForParents false.
Descendants(m, S) == Reach(ChildLinks(m), S)
Ancestors(m, t) == Reach(ParentLinks(m), m[t].parents)

GetModifiedFee(m, t) == PFee[t] + m[t].feeDelta
Fees(m, S) == MapThenSumSet(LAMBDA t : GetModifiedFee(m, t), S)

\* UpdateDescendantState and UpdateAncestorState for the transactions S, which
\* are added (sign 1) or taken away (-1).
MoreDescendants(m, e, S, sign) ==
    [e EXCEPT !.descCount = @ + sign * Cardinality(S), !.descFees = @ + sign * Fees(m, S)]
MoreAncestors(m, e, S, sign) ==
    [e EXCEPT !.ancCount = @ + sign * Cardinality(S), !.ancFees = @ + sign * Fees(m, S)]

-----------------------------------------------------------------------------
(* Entering.                                                               *)

\* The ancestors of a transaction that is not in the pool yet.
ParentsOf(m, t) == PSpends[t] \cap DOMAIN m
SearchAncestors(m, t) == Reach(ParentLinks(m), ParentsOf(m, t))

\* CalculateMemPoolAncestors with the limits on numbers.
WithinLimits(m, t) ==
    LET up == SearchAncestors(m, t)
    IN  /\ Cardinality(up) + 1 <= AncestorLimit
        /\ \A a \in up : m[a].descCount + 1 <= DescendantLimit

\* addUnchecked, which assumes that there are no children.
AddUnchecked(m, t, delta) ==
    LET up == SearchAncestors(m, t)
        entry == [parents |-> ParentsOf(m, t), children |-> {}, feeDelta |-> delta,
                  descCount |-> 1, descFees |-> PFee[t] + delta,
                  ancCount |-> 1 + Cardinality(up), ancFees |-> PFee[t] + delta + Fees(m, up)]
        with == [x \in DOMAIN m \cup {t} |-> IF x = t THEN entry ELSE m[x]]
    IN  [x \in DOMAIN with |->
            IF x \notin up THEN with[x]
            ELSE MoreDescendants(with, [m[x] EXCEPT !.children =
                                     IF x \in entry.parents THEN @ \cup {t} ELSE @], {t}, 1)]

-----------------------------------------------------------------------------
(* Leaving.                                                                *)

\* UpdateForRemoveFromMempool with updateDescendants.
DescendantsUpdated(m, S) ==
    [d \in DOMAIN m |->
        MoreAncestors(m, m[d], {r \in S \ {d} : d \in Descendants(m, {r})}, -1)]

\* UpdateForRemoveFromMempool for the ancestors and the links, and then
\* removeUnchecked.
RemoveStaged(m, S, updateDescendants) ==
    LET n == IF updateDescendants THEN DescendantsUpdated(m, S) ELSE m
    IN  [x \in DOMAIN m \ S |->
            MoreDescendants(m, [n[x] EXCEPT !.children = @ \ S, !.parents = @ \ S],
                            {r \in S : x \in Ancestors(m, r)}, -1)]

removeRecursive(m, t) ==
    LET roots == IF t \in DOMAIN m THEN {t} ELSE {c \in DOMAIN m : t \in PSpends[c]}
    IN  RemoveStaged(m, Descendants(m, roots), FALSE)

\* removeConflicts, on the pool and the deltas.
RemoveConflicts(p, t) ==
    FoldLeft(LAMBDA q, r :
                 IF r \notin DOMAIN q.m THEN q
                 ELSE [m |-> removeRecursive(q.m, r), deltas |-> [q.deltas EXCEPT ![r] = 0]],
             p, SetToSeq(PRivals[t]))

removeForBlock(p, body) ==
    FoldLeft(LAMBDA q, t :
                 LET m == IF t \in DOMAIN q.m THEN RemoveStaged(q.m, {t}, TRUE) ELSE q.m
                     r == RemoveConflicts([q EXCEPT !.m = m], t)
                 IN  [r EXCEPT !.deltas[t] = 0],
             p, body)

-----------------------------------------------------------------------------
(* Coming back from a block.                                               *)

\* UpdateForDescendants: the descendants of t that are not of the block, from
\* the links and from what has been found for transactions after it.
BlockDescendants(m, cached, t, body) ==
    LET next == [x \in DOMAIN m |-> m[x].children \ DOMAIN cached]
        walked == Reach(next, m[t].children)
        met == UNION {m[x].children : x \in walked} \cap DOMAIN cached
    IN  (walked \cup UNION {cached[c] : c \in met}) \ body

\* The transactions that come back are only linked to their direct children.
LinkedOnly(q, t, body) ==
    LET kids == {c \in DOMAIN q.m : t \in PSpends[c]} \ body
    IN  [q EXCEPT !.m = [x \in DOMAIN q.m |->
            IF x = t THEN MoreDescendants(q.m, [q.m[x] EXCEPT !.children = @ \cup kids], kids, 1)
            ELSE IF x \in kids THEN MoreAncestors(q.m, [q.m[x] EXCEPT !.parents = @ \cup {t}], {t}, 1)
            ELSE q.m[x]]]

\* One round of the loop of UpdateTransactionsFromBlock.
Linked(q, t, body) ==
    LET kids == {c \in DOMAIN q.m : t \in PSpends[c]} \ body
        m == [x \in DOMAIN q.m |->
                 IF x = t THEN [q.m[x] EXCEPT !.children = @ \cup kids]
                 ELSE IF x \in kids THEN [q.m[x] EXCEPT !.parents = @ \cup {t}]
                 ELSE q.m[x]]
        down == BlockDescendants(m, q.cached, t, body)
    IN  IF t \notin DOMAIN q.m THEN q
        ELSE [m |-> [x \in DOMAIN m |->
                        IF x = t THEN MoreDescendants(m, m[x], down, 1)
                        ELSE IF x \in down THEN MoreAncestors(m, m[x], {t}, 1)
                        ELSE m[x]],
              cached |-> [x \in DOMAIN q.cached \cup (IF down = {} THEN {} ELSE {t}) |->
                             IF x = t THEN down ELSE q.cached[x]]]

UpdateTransactionsFromBlock(m, hashes) ==
    FoldLeft(LAMBDA q, t : Linked(q, t, ToSet(hashes)),
             [m |-> m, cached |-> <<>>], Reverse(hashes)).m

\* AcceptToMemoryPool as far as packages go; policy and scripts may refuse more.
Admissible(m, confirmed, t) ==
    /\ t \notin DOMAIN m \cup confirmed
    /\ PSpends[t] \subseteq DOMAIN m \cup confirmed
    /\ PRivals[t] \cap (DOMAIN m \cup confirmed) = {}
    /\ WithinLimits(m, t)

\* The loop of DisconnectTip over the block, with the transactions of refused
\* not accepted.
Resurrected(m, confirmed, body, refused) ==
    FoldLeft(LAMBDA q, t :
                 IF t \notin refused /\ Admissible(q.m, confirmed, t)
                   THEN [m |-> AddUnchecked(q.m, t, mapDeltas[t]), back |-> Append(q.back, t)]
                   ELSE [q EXCEPT !.m = removeRecursive(@, t)],
             [m |-> m, back |-> <<>>], body)

-----------------------------------------------------------------------------
(* The operations.                                                         *)

Confirmed == UNION {ToSet(b) : b \in ToSet(blocks)}

Accept(t) ==
    /\ Admissible(mapTx, Confirmed, t)
    /\ mapTx' = AddUnchecked(mapTx, t, mapDeltas[t])
    /\ UNCHANGED <<mapDeltas, blocks>>

\* A block with the transactions S.
Connect(S) ==
    LET body == SetToSortSeq(S, <)
        after == removeForBlock([m |-> mapTx, deltas |-> mapDeltas], body)
    IN  /\ S \cap Confirmed = {}
        /\ \A t \in S : /\ PSpends[t] \subseteq Confirmed \cup S
                        /\ PRivals[t] \cap (Confirmed \cup S) = {}
        /\ blocks' = Append(blocks, body)
        /\ mapTx' = after.m /\ mapDeltas' = after.deltas

Disconnect(refused) ==
    /\ blocks # <<>> /\ refused \subseteq ToSet(Last(blocks))
    /\ blocks' = Front(blocks)
    /\ LET q == Resurrected(mapTx, UNION {ToSet(b) : b \in ToSet(blocks')}, Last(blocks), refused)
       IN  mapTx' = UpdateTransactionsFromBlock(q.m, q.back)
    /\ UNCHANGED mapDeltas

\* TrimToSize and Expire: some transactions with all their descendants.
LimitMempoolSize(S) ==
    /\ S \subseteq DOMAIN mapTx
    /\ mapTx' = RemoveStaged(mapTx, Descendants(mapTx, S), FALSE)
    /\ UNCHANGED <<mapDeltas, blocks>>

\* PrioritiseTransaction on the entries.
Prioritised(m, t, d) ==
    [x \in DOMAIN m |->
        IF x = t THEN [m[x] EXCEPT !.feeDelta = @ + d, !.descFees = @ + d, !.ancFees = @ + d]
        ELSE IF x \in Ancestors(m, t) THEN [m[x] EXCEPT !.descFees = @ + d]
        ELSE IF x \in Descendants(m, {t}) THEN [m[x] EXCEPT !.ancFees = @ + d]
        ELSE m[x]]

PrioritiseTransaction(t, d) ==
    /\ mapDeltas[t] + d \in -MaxDelta..MaxDelta
    /\ mapDeltas' = [mapDeltas EXCEPT ![t] = @ + d]
    /\ mapTx' = IF t \in DOMAIN mapTx THEN Prioritised(mapTx, t, d) ELSE mapTx
    /\ UNCHANGED blocks

PackagesNext ==
    \/ \E t \in PTxs : Accept(t)
    \/ \E S \in (SUBSET PTxs) \ {{}} : Connect(S) \/ LimitMempoolSize(S)
    \/ \E refused \in SUBSET PTxs : Disconnect(refused)
    \/ \E t \in PTxs, d \in FeeDeltas : PrioritiseTransaction(t, d)

PackagesSpec == PackagesInit /\ [][PackagesNext]_packageVars

-----------------------------------------------------------------------------
\* CTxMemPool::check: after any sequence of updates, the links are those of the
\* spent outputs, and the numbers of every entry are what one would get by
\* adding up its ancestors and its descendants anew.
PackagesExact ==
    LET up == [t \in DOMAIN mapTx |-> PSpends[t] \cap DOMAIN mapTx]
        down == [t \in DOMAIN mapTx |-> {c \in DOMAIN mapTx : t \in PSpends[c]}]
    IN  \A t \in DOMAIN mapTx :
            /\ mapTx[t].parents = up[t] /\ mapTx[t].children = down[t]
            /\ mapTx[t].feeDelta = mapDeltas[t]
            /\ mapTx[t].ancCount = Cardinality(Reach(up, {t}))
            /\ mapTx[t].ancFees = Fees(mapTx, Reach(up, {t}))
            /\ mapTx[t].descCount = Cardinality(Reach(down, {t}))
            /\ mapTx[t].descFees = Fees(mapTx, Reach(down, {t}))
=============================================================================
