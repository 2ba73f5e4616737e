--------------------------- MODULE LowLevelAlloc ---------------------------
(***************************************************************************)
(* LowLevelAlloc (base/internal/low_level_alloc.cc): an arena of blocks    *)
(* whose free list is a skip list in the order of addresses.  Memory is    *)
(* counted in units of round_up bytes, of which a header takes one.  The   *)
(* arena lock is held for a whole step, but is given up around mmap.       *)
(***************************************************************************)
EXTENDS Integers, Sequences, FiniteSets, FiniteSetsExt, Functions

CONSTANTS
    Threads,
    kMaxLevel,
    Units,          \* bound on the address space
    pagesize, ChunkPages,   \* mmap is asked for 16 pages at a time
    Requests        \* in units, without the header

Null == -1
FreeListHead == -2  \* &arena->freelist, at no address a block can have
Addresses == 0..(Units - 1)
Levels == 0..(kMaxLevel - 1)
min_size == 2
Chunk == pagesize * ChunkPages

VARIABLES
    arena,          \* the free list, and size, magic and links of every block
    mapped,         \* what mmap has returned
    pc, want,       \* each thread's call of Alloc
    blocks          \* what each thread has got from Alloc

vars == <<arena, mapped, pc, want, blocks>>

NoLinks == [i \in Levels |-> Null]

EmptyArena ==
    [levels |-> [x \in Addresses \cup {FreeListHead} |-> 0],
     next   |-> [x \in Addresses \cup {FreeListHead} |-> NoLinks],
     size   |-> [x \in Addresses |-> 0],
     magic  |-> [x \in Addresses |-> "none"],
     allocation_count |-> 0,
     checks |-> TRUE]

Init ==
    /\ arena = EmptyArena
    /\ mapped = {}
    /\ pc = [t \in Threads |-> "idle"] /\ want = [t \in Threads |-> 0]
    /\ blocks = [t \in Threads |-> {}]

Check(a, condition) == [a EXCEPT !.checks = @ /\ condition]

-----------------------------------------------------------------------------
(* The skip list *)

IntLog2[i \in 0..Units] == IF i <= min_size THEN 0 ELSE 1 + IntLog2[i \div 2]

\* How many links fit into a block: a header and the level count take a unit and
\* a quarter, and a link a quarter.
max_fit(size) == 4 * size - 5

\* n is 1 or the result of Random.
LLA_SkiplistLevels(size, n) ==
    Min({IntLog2[size] + n, max_fit(size), kMaxLevel - 1})

RECURSIVE LastBefore(_, _, _, _)
LastBefore(a, level, p, e) ==
    IF a.next[p][level] # Null /\ a.next[p][level] < e
    THEN LastBefore(a, level, a.next[p][level], e)
    ELSE p

\* prev[] of a search; it starts at the top level of the list, and above that
\* the predecessor is the head.
LLA_SkiplistSearch(a, e) ==
    LET prev[i \in 0..kMaxLevel] ==
            IF i >= a.levels[FreeListHead] THEN FreeListHead ELSE LastBefore(a, i, prev[i + 1], e)
    IN  prev

RECURSIVE Link(_, _, _, _)
Link(a, e, prev, i) ==
    IF i = a.levels[e] THEN a
    ELSE Link([a EXCEPT !.next[e][i] = a.next[prev[i]][i], !.next[prev[i]][i] = e],
              e, prev, i + 1)

LLA_SkiplistInsert(a, e, prev) ==
    Link([a EXCEPT !.levels[FreeListHead] = Max({@, a.levels[e]})], e, prev, 0)

RECURSIVE Unlink(_, _, _, _)
Unlink(a, e, prev, i) ==
    IF i = a.levels[e] \/ a.next[prev[i]][i] # e THEN a
    ELSE Unlink([a EXCEPT !.next[prev[i]][i] = a.next[e][i]], e, prev, i + 1)

\* The head gives up the levels nothing is left on.
Lowered(a) ==
    [a EXCEPT !.levels[FreeListHead] =
        Max({0} \cup {l \in 1..@ : a.next[FreeListHead][l - 1] # Null})]

LLA_SkiplistDelete(a, e, prev) ==
    Lowered(Unlink(Check(a, a.levels[FreeListHead] > 0 /\ a.next[prev[0]][0] = e), e, prev, 0))

-----------------------------------------------------------------------------
(* The free list.  Every operator yields the arenas that the outcomes of    *)
(* Random can lead to.                                                      *)

Leveled(a, x) ==
    {[a EXCEPT !.levels[x] = LLA_SkiplistLevels(a.size[x], n), !.next[x] = NoLinks] :
        n \in 1..kMaxLevel}

\* Memory that is not a free block is forgotten as to levels and links, and as to
\* the rest of the header if it is inside of a block.
Absorbed(a, n) ==
    [a EXCEPT !.magic[n] = "none", !.size[n] = 0, !.levels[n] = 0, !.next[n] = NoLinks]

\* Mutant: the merged block keeps the levels of its first part.
CoalesceKeepsLevels(a, x) ==
    LET n == a.next[x][0]
    IN  IF x # FreeListHead /\ n # Null /\ x + a.size[x] = n
        THEN {Absorbed(LLA_SkiplistDelete([a EXCEPT !.size[x] = @ + a.size[n]],
                                          n, LLA_SkiplistSearch(a, n)), n)}
        ELSE {a}

\* Merges x with its successor if they are adjacent: both leave the list and x
\* comes back with the levels of its new size.
Coalesce(a, x) ==
    LET n == a.next[x][0]
    IN  IF x # FreeListHead /\ n # Null /\ x + a.size[x] = n
        THEN LET merged == [a EXCEPT !.size[x] = @ + a.size[n]]
             IN  UNION {UNION {{LLA_SkiplistInsert(d, x, LLA_SkiplistSearch(d, x)) : d \in Leveled(c, x)}
                        : c \in {LLA_SkiplistDelete(b, x, LLA_SkiplistSearch(b, x))}}
                        : b \in {Absorbed(LLA_SkiplistDelete(merged, n, LLA_SkiplistSearch(merged, n)), n)}}
        ELSE {a}

AddToFreelist(a, f) ==
    UNION {UNION {UNION {Coalesce(c, prev[0]) : c \in Coalesce(b, f)}
                  : b \in {[LLA_SkiplistInsert(d, f, prev) EXCEPT !.magic[f] = "unallocated"]}}
           : <<d, prev>> \in {<<l, LLA_SkiplistSearch(l, f)>> :
                                l \in Leveled(Check(a, a.magic[f] = "allocated"), f)}}

\* Next with its checks: the order of the list, and that no two are adjacent.
Next_(a, i, p) ==
    LET n == a.next[p][i]
    IN  Check(a, /\ i < a.levels[p]
                 /\ n # Null => /\ a.magic[n] = "unallocated"
                                /\ p # FreeListHead => p < n /\ p + a.size[p] < n)

\* The search of DoAllocWithArena at level i, from p: what it checks on the way,
\* and the first block that is large enough.
RECURSIVE FirstFit(_, _, _, _)
FirstFit(a, i, p, req_rnd) ==
    LET s == a.next[p][i]
    IN  IF s # Null /\ a.size[s] < req_rnd
        THEN FirstFit(Next_(a, i, p), i, s, req_rnd)
        ELSE [arena |-> Next_(a, i, p), s |-> s]

Found(a, req_rnd) ==
    LET i == LLA_SkiplistLevels(req_rnd, 1) - 1
    IN  IF i < a.levels[FreeListHead] THEN FirstFit(a, i, FreeListHead, req_rnd)
                              ELSE [arena |-> a, s |-> Null]

\* Takes block s off the list and gives back what is left of it.  The client
\* overwrites the links.
Take(a, s, req_rnd) ==
    LET d == LLA_SkiplistDelete(a, s, LLA_SkiplistSearch(a, s))
        n == s + req_rnd
        rests == IF req_rnd + min_size <= d.size[s]
                 THEN AddToFreelist([d EXCEPT !.size[n] = d.size[s] - req_rnd,
                                              !.magic[n] = "allocated",
                                              !.size[s] = req_rnd], n)
                 ELSE {d}
    IN  {[r EXCEPT !.magic[s] = "allocated", !.levels[s] = 0,
                   !.next[s] = NoLinks,
                   !.allocation_count = @ + 1] : r \in rests}

-----------------------------------------------------------------------------

Header == 1

\* From the head of DoAllocWithArena's loop: a block is found and taken, or the
\* lock is given up for mmap.
Allocate(t, a, req_rnd) ==
    \E found \in {Found(a, req_rnd)} :
        IF found.s # Null
        THEN /\ arena' \in Take(found.arena, found.s, req_rnd)
             /\ blocks' = [blocks EXCEPT ![t] = @ \cup {found.s}]
             /\ pc' = [pc EXCEPT ![t] = "idle"] /\ want' = [want EXCEPT ![t] = 0]
        ELSE /\ arena' = found.arena
             /\ pc' = [pc EXCEPT ![t] = "mmap"] /\ want' = [want EXCEPT ![t] = req_rnd]
             /\ UNCHANGED blocks

Alloc(t) ==
    /\ pc[t] = "idle"
    /\ \E request \in Requests : Allocate(t, arena, request + Header)
    /\ UNCHANGED mapped

RoundUp(n, align) == ((n + align - 1) \div align) * align

\* mmap finds room anywhere; then the region is added as a block that is freed.
Mmap(t) ==
    /\ pc[t] = "mmap"
    /\ \E size \in {RoundUp(want[t], Chunk)} : \E s \in {n \in Addresses : n % pagesize = 0} :
         /\ s..(s + size - 1) \subseteq Addresses \ mapped
         /\ mapped' = mapped \cup s..(s + size - 1)
         /\ \E a \in AddToFreelist([arena EXCEPT !.size[s] = size, !.magic[s] = "allocated"], s) :
              Allocate(t, a, want[t])

Free(t) ==
    /\ pc[t] = "idle"
    /\ \E v \in blocks[t] :
         /\ \E a \in AddToFreelist(arena, v) :
              arena' = [Check(a, a.allocation_count > 0) EXCEPT !.allocation_count = @ - 1]
         /\ blocks' = [blocks EXCEPT ![t] = @ \ {v}]
    /\ UNCHANGED <<mapped, pc, want>>

\* What the links of level i lead to from x.
RECURSIVE Chain(_, _)
Chain(x, i) ==
    IF x = Null THEN << >> ELSE <<x>> \o Chain(arena.next[x][i], i)

Regions == Range(Chain(arena.next[FreeListHead][0], 0))

\* DeleteArena of an arena nobody is using (it returns false if there are
\* allocated blocks), and NewArena.
DeleteArena ==
    /\ \A t \in Threads : pc[t] = "idle"
    /\ arena.allocation_count = 0
    /\ arena' = Check(EmptyArena, /\ arena.checks
                                  /\ \A x \in Regions : /\ arena.magic[x] = "unallocated"
                                                     /\ x % pagesize = 0 /\ arena.size[x] % pagesize = 0)
    /\ mapped' = mapped \ UNION {x..(x + arena.size[x] - 1) : x \in Regions}
    /\ UNCHANGED <<pc, want, blocks>>

Next == DeleteArena \/ \E t \in Threads : Alloc(t) \/ Mmap(t) \/ Free(t)

Spec == Init /\ [][Next]_vars

-----------------------------------------------------------------------------

Allocated == UNION {blocks[t] : t \in Threads}
FreeBlocks == {x \in Addresses : arena.magic[x] = "unallocated"}
Extent(x) == x..(x + arena.size[x] - 1)

(***************************************************************************)
(* No check of the code fails, and nothing is lost or handed out twice:    *)
(* the blocks of the clients and the free ones are disjoint and together   *)
(* are the memory obtained from mmap.                                      *)
(***************************************************************************)
BlocksTile ==
    /\ arena.checks
    /\ UNION {Extent(x) : x \in Allocated \cup FreeBlocks} = mapped
    /\ \A x, y \in Allocated \cup FreeBlocks : x # y => Extent(x) \cap Extent(y) = {}
    /\ \A t, u \in Threads : t # u => blocks[t] \cap blocks[u] = {}
    /\ arena.allocation_count = Cardinality(Allocated)

(***************************************************************************)
(* The skip list: each level links the free blocks that reach it in the    *)
(* order of addresses, no two of them are adjacent, and a block reaches    *)
(* the level at which the first-fit search looks for blocks of its size,   *)
(* so that the search misses none that is large enough.                    *)
(***************************************************************************)
FreeListSorted ==
    /\ \A i \in Levels :
         LET reach == {x \in FreeBlocks : arena.levels[x] > i}
             chain == Chain(arena.next[FreeListHead][i], i)
         IN  /\ Range(chain) = reach
             /\ \A k, l \in DOMAIN chain : k < l => chain[k] < chain[l]
             /\ i < arena.levels[FreeListHead] <=> reach # {}
    /\ \A x, y \in FreeBlocks : x + arena.size[x] # y
    /\ \A x \in FreeBlocks : arena.levels[x] >= LLA_SkiplistLevels(arena.size[x], 1)
=============================================================================
