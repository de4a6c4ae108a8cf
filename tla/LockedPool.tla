----------------------------- MODULE LockedPool -----------------------------
(***************************************************************************)
(* The pool of locked memory for keys and passphrases                      *)
(* (support/lockedpool.cpp): arenas of memory that the operating system    *)
(* keeps out of the swap file, each cut into used and free chunks that two *)
(* maps describe.  The pool's mutex makes every call one step.             *)
(***************************************************************************)
EXTENDS Integers, Sequences, FiniteSets, FiniteSetsExt

CONSTANTS
    ArenaSize,    \* ARENA_SIZE
    ArenaAlign,   \* ARENA_ALIGN, the alignment of sizes and addresses
    LockLimit,    \* GetLimit: what the process may lock; 0 means nothing
    MaxArenas,    \* bound: the number of arenas; mapping memory does not fail
    Sizes         \* the sizes that are asked for

ASSUME PoolAssumption ==
    /\ ArenaAlign \in Nat \ {0} /\ ArenaSize \in Nat \ {0}
    /\ ArenaSize % ArenaAlign = 0 /\ LockLimit % ArenaAlign = 0
    /\ LockLimit \in Nat /\ MaxArenas \in Nat /\ Sizes \subseteq Nat

VARIABLES
    arenas,      \* base, size, and the maps chunks_free and chunks_used of each
    locked,      \* cumulative_bytes_locked
    returned     \* what the last call returned: an address, or NullPtr

lockedVars == <<arenas, locked, returned>>

NullPtr == -1

LockedInit == arenas = <<>> /\ locked = 0 /\ returned = NullPtr

-----------------------------------------------------------------------------
(* One arena.                                                              *)

AlignUp(x) == ((x + ArenaAlign - 1) \div ArenaAlign) * ArenaAlign

Without(map, a) == [x \in DOMAIN map \ {a} |-> map[x]]
WithChunk(map, a, size) == [x \in DOMAIN map \cup {a} |-> IF x = a THEN size ELSE map[x]]

\* The free chunks that are large enough; alloc takes the first of them.
Fitting(arena, size) == {a \in DOMAIN arena.free : arena.free[a] >= size}

\* Arena::alloc from the end of a free chunk that is large enough.
AllocIn(arena, size) ==
    LET a == Min(Fitting(arena, size))
        left == arena.free[a] - size
    IN  [base |-> arena.base, size |-> arena.size,
         used |-> WithChunk(arena.used, a + left, size),
         free |-> IF left = 0 THEN Without(arena.free, a) ELSE WithChunk(arena.free, a, left)]

\* A freed chunk is only joined to the one before it.
CoalescedBefore(free, p, size) ==
    LET before == {a \in DOMAIN free : a + free[a] = p}
        start == IF before = {} THEN p ELSE Max(before)
    IN  WithChunk(free, start, p - start + size)

\* Arena::free: the freed chunk joins the free chunk before it, if that ends where
\* it begins, and then the next one.
Coalesced(free, p, size) ==
    LET before == {a \in DOMAIN free : a < p}
        prev == Max(before)
        joins == before # {} /\ prev + free[prev] = p
        start == IF joins THEN prev ELSE p
        grown == WithChunk(free, start, p - start + size)
        next == {a \in DOMAIN free : a > p}
    IN  IF next # {} /\ start + grown[start] = Min(next)
          THEN Without(WithChunk(grown, start, grown[start] + free[Min(next)]), Min(next))
          ELSE grown

FreeIn(arena, p) ==
    [base |-> arena.base, size |-> arena.size,
     used |-> Without(arena.used, p), free |-> Coalesced(arena.free, p, arena.used[p])]

-----------------------------------------------------------------------------
(* The pool.                                                               *)

\* new_arena: the first arena is not larger than what can be locked.  The memory
\* of an arena may lie just behind that of the one before.
NewSize == IF arenas = <<>> /\ LockLimit > 0 /\ LockLimit < ArenaSize THEN LockLimit ELSE ArenaSize

NewBase == IF arenas = <<>> THEN 0 ELSE arenas[Len(arenas)].base + arenas[Len(arenas)].size

NewArena ==
    [base |-> NewBase, size |-> NewSize, used |-> <<>>, free |-> WithChunk(<<>>, NewBase, NewSize)]

Candidates(size) == {i \in DOMAIN arenas : Fitting(arenas[i], size) # {}}

\* The address that Arena::alloc returns.
AllocatedAt(arena, size) ==
    Min(Fitting(arena, size)) + arena.free[Min(Fitting(arena, size))] - size

\* LockedPool::alloc from the first arena that has room, or from a new one.
Alloc(request) ==
    LET size == AlignUp(request)
        fit == Candidates(size)
    IN  \/ /\ request = 0 \/ request > ArenaSize
           /\ returned' = NullPtr
           /\ UNCHANGED <<arenas, locked>>
        \/ /\ request > 0 /\ request <= ArenaSize /\ fit # {}
           /\ arenas' = [arenas EXCEPT ![Min(fit)] = AllocIn(@, size)]
           /\ returned' = AllocatedAt(arenas[Min(fit)], size)
           /\ UNCHANGED locked
        \/ /\ request > 0 /\ request <= ArenaSize /\ fit = {} /\ Len(arenas) < MaxArenas
           /\ LET new == NewArena
                  room == Fitting(new, size) # {}
              IN  /\ arenas' = Append(arenas, IF room THEN AllocIn(new, size) ELSE new)
                  /\ returned' = IF room THEN AllocatedAt(new, size) ELSE NullPtr
                  /\ locked' \in {locked, locked + NewSize}

\* LockedPool::free of an address that is in use, in the first arena it points into.
Free(p) ==
    LET in == {i \in DOMAIN arenas :
                  p >= arenas[i].base /\ p < arenas[i].base + arenas[i].size}
    IN  /\ \E i \in DOMAIN arenas : p \in DOMAIN arenas[i].used
        /\ arenas' = [arenas EXCEPT ![Min(in)] = FreeIn(@, p)]
        /\ returned' = NullPtr
        /\ UNCHANGED locked

LockedNext ==
    \/ \E size \in Sizes : Alloc(size)
    \/ \E i \in DOMAIN arenas : \E p \in DOMAIN arenas[i].used : Free(p)

LockedSpec == LockedInit /\ [][LockedNext]_lockedVars

-----------------------------------------------------------------------------
\* The two maps of an arena describe its memory exactly, whatever is allocated
\* and freed in whatever order: its chunks do not overlap and leave nothing out,
\* every chunk in use is aligned, and two free chunks are never neighbours, so
\* memory that was freed can be had again in one piece.
ArenasExact ==
    \A i \in DOMAIN arenas :
        LET A == arenas[i]
            Cover(map) == [a \in DOMAIN map |-> a .. a + map[a] - 1]
            all == {Cover(A.free)[a] : a \in DOMAIN A.free} \cup {Cover(A.used)[a] : a \in DOMAIN A.used}
        IN  /\ UNION all = A.base .. A.base + A.size - 1
            /\ \A c, d \in all : c # d => c \cap d = {}
            /\ \A a \in DOMAIN A.used : a % ArenaAlign = 0 /\ A.used[a] >= 1
            /\ \A a \in DOMAIN A.free : A.free[a] >= 1 /\ a + A.free[a] \notin DOMAIN A.free
=============================================================================
