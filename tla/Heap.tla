-------------------------------- MODULE Heap --------------------------------
(***************************************************************************)
(* A heap of HeapCreate: sub-heaps cut into blocks, each behind an arena   *)
(* that says its size and whether it and the block before it are free.     *)
(* Free blocks stand in lists by their size.  Sizes and addresses count    *)
(* words (DWORDs); the memory itself is left out.                          *)
(*                                                                         *)
(* VirtualAlloc hands out address space from below and may fail to commit; *)
(* VirtualFree with the size 0, as the heap calls it to release memory,    *)
(* does nothing, so address space never comes back.                        *)
(*                                                                         *)
(* granted says what the program holds: granted[p] is the size it last     *)
(* asked for at p and got.  It frees and resizes only what it holds.       *)
(*                                                                         *)
(* A call that writes an arena where nothing is committed, or copies such  *)
(* memory, ends the process (faulted).                                     *)
(***************************************************************************)
EXTENDS Integers, Sequences, Functions, FiniteSetsExt, SequencesExt

CONSTANTS
    HeapHeader,      \* words of a HEAP, in front of the first block
    Page, Granule,   \* what is committed and what is reserved are multiples of these
    DefSize,         \* HEAP_DEF_SIZE
    FreeListSizes,   \* the largest block of each free list but the last
    Space,           \* the free address space is Granule .. Space - 1
    Request,         \* sizes the program asks for, in whole words
    None

ARENA_INUSE == 4
ARENA_FREE == 5
SUBHEAP == 6
HEAP_MIN_BLOCK_SIZE == 2 + ARENA_FREE

ASSUME SizeAssumption ==
    /\ {HeapHeader, Page, Granule, DefSize, Space} \cup Request \subseteq Nat \ {0}
    /\ HeapHeader + ARENA_FREE <= Granule
    /\ Granule % Page = 0 /\ None \notin Nat
    /\ FreeListSizes \in Seq(Nat)

\* Where the free address space begins lies within it.
ASSUME SpaceAssumption == Granule <= Space

RoundUp(n, unit) == ((n + unit - 1) \div unit) * unit

Lists == 1 .. Len(FreeListSizes) + 1

VARIABLES
    heap,      \* sub: the sub-heaps; arena: their blocks; freeList; and top, where
               \* the free address space begins
    granted,   \* what the program holds
    failed,    \* failed[p]: the size p had when it was enlarged in place but could
               \* not be committed
    faulted    \* a call touched memory that is not committed

vars == <<heap, granted, failed, faulted>>

----------------------------------------------------------------------------
(* Blocks: h stands for a heap, s for a sub-heap and a for an arena of it. *)

End(h, s) == s + h.sub[s].size

FindSubHeap(h, a) == CHOOSE s \in DOMAIN h.sub : s <= a /\ a < End(h, s)

\* Up to where the sub-heap of an arena is committed.
CommittedTo(h, a) == FindSubHeap(h, a) + h.sub[FindSubHeap(h, a)].commitSize

\* Where the block behind an arena ends.
After(h, a) == a + h.arena[a].size + IF h.arena[a].free THEN ARENA_FREE ELSE ARENA_INUSE

\* An arena does not lie in committed memory.
Bare(h) ==
    \E a \in DOMAIN h.arena :
        a + (IF h.arena[a].free THEN ARENA_FREE ELSE ARENA_INUSE) > CommittedTo(h, a)

ListFor(size) ==
    Min({Len(FreeListSizes) + 1} \cup {k \in DOMAIN FreeListSizes : size <= FreeListSizes[k]})

Insert(h, a) == [h EXCEPT !.freeList[ListFor(h.arena[a].size)] = <<a>> \o @]

Unlink(h, a) == [h EXCEPT !.freeList = [k \in Lists |-> RemoveFirst(@[k], a)]]

With(f, x, v) == [y \in DOMAIN f \cup {x} |-> IF y = x THEN v ELSE f[y]]
WithoutArena(h, a) == [h EXCEPT !.arena = Restrict(@, DOMAIN @ \ {a})]

\* Mutant: a free block that follows is left alone.
CreateFreeBlockAlone(h, s, a, size) ==
    LET e == a + size
        told == IF e < End(h, s)
                THEN [h EXCEPT !.arena[e].prevFree = TRUE, !.arena[e].back = a]
                ELSE h
        block == [size |-> size - ARENA_FREE, free |-> TRUE, prevFree |-> FALSE, back |-> None]
    IN  Insert([told EXCEPT !.arena = With(@, a, block)], a)

\* The arena of a free block; it reaches size words from a, and over a free block
\* that follows.
CreateFreeBlock(h, s, a, size) ==
    LET n == a + size
        merged == n < End(h, s) /\ h.arena[n].free
        whole == size + IF merged THEN h.arena[n].size + ARENA_FREE ELSE 0
        alone == IF merged THEN WithoutArena(Unlink(h, n), n) ELSE h
        e == a + whole
        told == IF e < End(h, s)
                THEN [alone EXCEPT !.arena[e].prevFree = TRUE, !.arena[e].back = a]
                ELSE alone
        block == [size |-> whole - ARENA_FREE, free |-> TRUE, prevFree |-> FALSE, back |-> None]
    IN  Insert([told EXCEPT !.arena = With(@, a, block)], a)

Wanted(h, s, upto) == Min({RoundUp(upto - s, Page), h.sub[s].size})

\* Committed are the first commitSize words of a sub-heap.
IsCommitted(h, s, upto) == Wanted(h, s, upto) <= h.sub[s].commitSize
Commit(h, s, upto) == [h EXCEPT !.sub[s].commitSize = Max({@, Wanted(h, s, upto)})]
Decommit(h, s, upto) == [h EXCEPT !.sub[s].commitSize = Min({@, RoundUp(upto - s, Page)})]

\* Mutant: the arena of the free block is decommitted with it.
ReleaseArena(h, s, a) ==
    IF After(h, a) < End(h, s) THEN h
    ELSE IF a = s + h.sub[s].headerSize /\ s # Granule
    THEN LET g == WithoutArena(Unlink(h, a), a)
         IN  [g EXCEPT !.sub = Restrict(@, DOMAIN @ \ {s})]
    ELSE Decommit(h, s, a)

\* A sub-heap that is empty goes, unless it is the first one: its memory stays
\* reserved.  Otherwise a free block at the end of a sub-heap is decommitted.
Release(h, s, a) ==
    IF After(h, a) < End(h, s) THEN h
    ELSE IF a = s + h.sub[s].headerSize /\ s # Granule
    THEN LET g == WithoutArena(Unlink(h, a), a)
         IN  [g EXCEPT !.sub = Restrict(@, DOMAIN @ \ {s})]
    ELSE Decommit(h, s, a + ARENA_FREE)

MakeInUseBlockFree(h, s, a) ==
    LET size == h.arena[a].size + ARENA_INUSE
        prev == h.arena[a].back
    IN  IF h.arena[a].prevFree
        THEN LET g == CreateFreeBlock(WithoutArena(Unlink(h, prev), a), s, prev,
                                      size + h.arena[prev].size + ARENA_FREE)
             IN  Release(g, s, prev)
        ELSE Release(CreateFreeBlock(h, s, a, size), s, a)

\* Mutant: the next block is not told that this one is in use.
ShrinkBlockSilent(h, s, a, size) ==
    LET old == h.arena[a].size
    IN  IF old >= size + HEAP_MIN_BLOCK_SIZE
        THEN [CreateFreeBlock(h, s, a + ARENA_INUSE + size, old - size)
                  EXCEPT !.arena[a].size = size]
        ELSE h

\* What size leaves over becomes a free block, if it is large enough for one.
ShrinkBlock(h, s, a, size) ==
    LET old == h.arena[a].size
        n == a + ARENA_INUSE + old
    IN  IF old >= size + HEAP_MIN_BLOCK_SIZE
        THEN [CreateFreeBlock(h, s, a + ARENA_INUSE + size, old - size)
                  EXCEPT !.arena[a].size = size]
        ELSE IF n < End(h, s)
        THEN [h EXCEPT !.arena[n].prevFree = FALSE, !.arena[n].back = None]
        ELSE h

\* A free block is taken for size words.
Take(h, s, a, size) ==
    ShrinkBlock([Unlink(h, a) EXCEPT !.arena[a].free = FALSE,
                                     !.arena[a].size = @ + ARENA_FREE - ARENA_INUSE],
                s, a, size)

----------------------------------------------------------------------------
(* Sub-heaps *)

TotalSize(commit, total) ==
    LET least == Max({RoundUp(commit, Granule), Granule})
    IN  Max({RoundUp(total, Granule), least})

CreateSubHeap(h, commit, total, header) ==
    LET s == h.top
        size == TotalSize(commit, total)
        sub == [size |-> size, headerSize |-> header,
                commitSize |-> Max({RoundUp(commit, Granule), Granule})]
        g == [h EXCEPT !.sub = With(@, s, sub), !.top = s + size]
    IN  CreateFreeBlock(g, s, s + header, size - header)

\* The lists that are searched and have a block large enough, and the first such
\* block in them.  (The code compares with >, but the field it compares has the flag
\* of a free block in it: one of just the size asked for is large enough.)
Large(h, list, size) == {i \in DOMAIN list : h.arena[list[i]].size >= size}
Fitting(h, size) == {k \in ListFor(size) .. Len(FreeListSizes) + 1 :
                        Large(h, h.freeList[k], size) # {}}
FirstFit(h, size) ==
    LET list == h.freeList[Min(Fitting(h, size))]
    IN  list[Min(Large(h, list, size))]

\* Up to where a block that is given size words has to be committed.
Reach(a, size) == a + ARENA_INUSE + size + HEAP_MIN_BLOCK_SIZE

NewSize(size) == size + SUBHEAP + ARENA_FREE

Grows(h, size) ==
    /\ Fitting(h, size) = {} /\ h.growable
    /\ h.top + TotalSize(NewSize(size), Max({DefSize, NewSize(size)})) <= Space

Found(h, size) == Fitting(h, size) # {} \/ Grows(h, size)

\* The heap and the block that HEAP_FindFreeBlock returns, with the sub-heap.
FindFreeBlock(h, size) ==
    IF Fitting(h, size) # {}
    THEN LET a == FirstFit(h, size)
             s == FindSubHeap(h, a)
         IN  [heap |-> Commit(h, s, Reach(a, size)), sub |-> s, block |-> a]
    ELSE [heap |-> CreateSubHeap(h, NewSize(size), Max({DefSize, NewSize(size)}), SUBHEAP),
          sub |-> h.top, block |-> h.top + SUBHEAP]

\* The checks of HEAP_ValidateInUseArena that lead to a refusal.
ValidateInUseArena(h, s, a) ==
    LET n == After(h, a)
        prev == h.arena[a].back
    IN  /\ n <= End(h, s)
        /\ n < End(h, s) => ~h.arena[n].prevFree
        /\ h.arena[a].prevFree =>
              prev \in DOMAIN h.arena /\ h.arena[prev].free /\ After(h, prev) = a

ValidateFreeArena(h, s, a) ==
    LET n == After(h, a)
    IN  /\ n <= End(h, s)
        /\ n < End(h, s) => h.arena[n].prevFree /\ h.arena[n].back = a
        /\ \E k \in Lists : a \in ToSet(h.freeList[k])

----------------------------------------------------------------------------
(* Calls *)

NoHeap == [sub |-> <<>>, arena |-> <<>>, freeList |-> [k \in Lists |-> <<>>],
           top |-> Granule, growable |-> FALSE]

Exists == heap.sub # <<>>

Init == heap = NoHeap /\ granted = <<>> /\ failed = <<>> /\ faulted = FALSE

Fault == faulted' = TRUE /\ UNCHANGED <<heap, granted, failed>>

Without(f, x) == Restrict(f, DOMAIN f \ {x})

\* Without a largest size the heap has the default one, and may grow.
HeapCreate(initial, max) ==
    LET h == [NoHeap EXCEPT !.growable = (max = 0)]
        total == IF max = 0 THEN DefSize ELSE max
    IN  /\ ~Exists
        /\ h.top + TotalSize(initial, total) <= Space
        /\ heap' = CreateSubHeap(h, initial, total, HeapHeader)
        /\ UNCHANGED <<granted, failed, faulted>>

\* Sizes below the least are raised to it.  An allocation that finds no block, or
\* cannot commit it, changes nothing.  A new sub-heap is committed up to the block
\* and a little more; what is left over begins behind that, and its arena may too.
Asked(n) == Max({n, HEAP_MIN_BLOCK_SIZE})

HeapAlloc(n) ==
    LET size == Asked(n)
        f == FindFreeBlock(heap, size)
        taken == Take(f.heap, f.sub, f.block, size)
    IN  /\ Exists /\ Found(heap, size)
        /\ \/ /\ ~Bare(taken)
              /\ heap' = taken
              /\ granted' = With(granted, f.block + ARENA_INUSE, size)
              /\ UNCHANGED <<failed, faulted>>
           \/ Bare(taken) /\ Fault

\* Address space is reserved for a new sub-heap, but none of it can be committed:
\* the reservation stays.
CommitFails(n) ==
    LET size == NewSize(Asked(n))
    IN  /\ Exists /\ Grows(heap, Asked(n))
        /\ heap' = [heap EXCEPT !.top = @ + TotalSize(size, Max({DefSize, size}))]
        /\ UNCHANGED <<granted, failed, faulted>>

\* The program gives p back; the heap takes it only if it finds nothing wrong.
HeapFree(p) ==
    LET a == p - ARENA_INUSE
        s == FindSubHeap(heap, a)
    IN  /\ heap' = IF ValidateInUseArena(heap, s, a)
                   THEN MakeInUseBlockFree(heap, s, a) ELSE heap
        /\ granted' = Without(granted, p)
        /\ failed' = Without(failed, p)
        /\ UNCHANGED faulted

\* A block whose growing had failed is as good as any other once it ends in
\* committed memory.
Settled(h, p) ==
    IF After(h, p - ARENA_INUSE) <= CommittedTo(h, p - ARENA_INUSE)
    THEN Without(failed, p) ELSE failed

\* A smaller or equal size: what is too much becomes free.  Nothing is committed, so
\* that a block whose growing had failed may reach beyond what is.
Shrink(p, size) ==
    LET a == p - ARENA_INUSE
        shrunk == ShrinkBlock(heap, FindSubHeap(heap, a), a, size)
    IN  /\ size <= heap.arena[a].size
        /\ \/ /\ ~Bare(shrunk)
              /\ heap' = shrunk
              /\ granted' = [granted EXCEPT ![p] = size]
              /\ failed' = Settled(shrunk, p)
              /\ UNCHANGED faulted
           \/ Bare(shrunk) /\ Fault

\* The block at a has a free one behind it, and both hold size words.
CanGrow(a, size) ==
    LET n == After(heap, a)
    IN  /\ n < End(heap, FindSubHeap(heap, a)) /\ heap.arena[n].free
        /\ heap.arena[a].size + heap.arena[n].size + ARENA_FREE >= size

\* Mutant: the block that is taken over stays in its list.
GrowListed(p, size) ==
    LET a == p - ARENA_INUSE
        s == FindSubHeap(heap, a)
        n == After(heap, a)
        joined == [heap EXCEPT !.arena[a].size = @ + heap.arena[n].size + ARENA_FREE]
    IN  /\ size > heap.arena[a].size /\ CanGrow(a, size)
        /\ heap' = ShrinkBlock(Commit(joined, s, Reach(a, size)), s, a, size)
        /\ granted' = [granted EXCEPT ![p] = size]
        /\ failed' = Without(failed, p)
        /\ UNCHANGED faulted

\* The free block behind is taken whole, then what is too much given back.  If the
\* new size cannot be committed, the call fails and the block stays enlarged.
Grow(p, size) ==
    LET a == p - ARENA_INUSE
        s == FindSubHeap(heap, a)
        n == After(heap, a)
        joined == [WithoutArena(Unlink(heap, n), n)
                       EXCEPT !.arena[a].size = @ + heap.arena[n].size + ARENA_FREE]
        upto == Reach(a, size)
    IN  /\ size > heap.arena[a].size /\ CanGrow(a, size)
        /\ \/ /\ heap' = ShrinkBlock(Commit(joined, s, upto), s, a, size)
              /\ granted' = [granted EXCEPT ![p] = size]
              /\ failed' = Without(failed, p)
           \/ /\ ~IsCommitted(heap, s, upto)
              /\ heap' = joined
              /\ failed' = IF p \in DOMAIN failed THEN failed ELSE With(failed, p, granted[p])
              /\ UNCHANGED granted
        /\ UNCHANGED faulted

\* Mutant: the old block is not freed.
MoveKept(p, size) ==
    LET a == p - ARENA_INUSE
        f == FindFreeBlock(heap, size)
        q == f.block + ARENA_INUSE
    IN  /\ size > heap.arena[a].size /\ ~CanGrow(a, size) /\ Found(heap, size)
        /\ heap' = Take(f.heap, f.sub, f.block, size)
        /\ granted' = With(Without(granted, p), q, size)
        /\ failed' = Without(failed, p)
        /\ UNCHANGED faulted

\* Another block is taken, the old one copied whole and freed.
Move(p, size) ==
    LET a == p - ARENA_INUSE
        f == FindFreeBlock(heap, size)
        taken == Take(f.heap, f.sub, f.block, size)
        q == f.block + ARENA_INUSE
        fault == Bare(taken) \/ After(heap, a) > CommittedTo(heap, a)
    IN  /\ size > heap.arena[a].size /\ ~CanGrow(a, size) /\ Found(heap, size)
        /\ \/ /\ ~fault
              /\ heap' = MakeInUseBlockFree(taken, FindSubHeap(heap, a), a)
              /\ granted' = With(Without(granted, p), q, size)
              /\ failed' = Without(failed, p)
              /\ UNCHANGED faulted
           \/ fault /\ Fault

HeapReAlloc(p, n) ==
    LET a == p - ARENA_INUSE
    IN  /\ ValidateInUseArena(heap, FindSubHeap(heap, a), a)
        /\ Shrink(p, Asked(n)) \/ Grow(p, Asked(n)) \/ Move(p, Asked(n))

Next ==
    /\ ~faulted
    /\ \/ \E initial, max \in {0, DefSize} : HeapCreate(initial, max)
       \/ \E n \in Request : HeapAlloc(n) \/ CommitFails(n)
       \/ \E p \in DOMAIN granted :
             HeapFree(p) \/ \E n \in Request : HeapReAlloc(p, n)

Spec == Init /\ [][Next]_vars

----------------------------------------------------------------------------
(* Properties *)

\* Every variable has its type.
TypeOK ==
    /\ \A s \in DOMAIN heap.sub :
         /\ heap.sub[s] \in [size : Nat, headerSize : {HeapHeader, SUBHEAP}, commitSize : Nat]
         /\ Granule <= s /\ End(heap, s) <= heap.top
         /\ heap.sub[s].commitSize <= heap.sub[s].size
    /\ \A a \in DOMAIN heap.arena :
         heap.arena[a] \in [size : Nat, free : BOOLEAN, prevFree : BOOLEAN, back : Nat \cup {None}]
    /\ heap.freeList \in [Lists -> Seq(Nat)] /\ heap.top \in Granule .. Space
    /\ heap.growable \in BOOLEAN
    /\ \A p \in DOMAIN granted : granted[p] \in Nat
    /\ \A p \in DOMAIN failed : p \in DOMAIN granted /\ failed[p] \in Nat
    /\ faulted \in BOOLEAN

\* The blocks of a sub-heap follow each other from its header to its end, and
\* HeapValidate finds nothing wrong with any of them.
HeapValid ==
    /\ TypeOK
    /\ \A s \in DOMAIN heap.sub :
           LET blocks == {a \in DOMAIN heap.arena : s <= a /\ a < End(heap, s)} IN
           /\ {s + heap.sub[s].headerSize} \cup {After(heap, a) : a \in blocks}
                = blocks \cup {End(heap, s)}
           /\ \A a \in blocks :
                IF heap.arena[a].free THEN ValidateFreeArena(heap, s, a)
                ELSE ValidateInUseArena(heap, s, a)

\* The lists hold the free blocks, each once and where an allocation looks for
\* it, and no free block has a free one behind it: nothing is lost to a search.
ListsComplete ==
    LET free == {a \in DOMAIN heap.arena : heap.arena[a].free}
    IN  /\ \A k \in Lists :
             /\ ToSet(heap.freeList[k]) = {a \in free : ListFor(heap.arena[a].size) = k}
             /\ IsInjective(heap.freeList[k])
        /\ \A a \in free : After(heap, a) \notin free

\* What is in use is what the program holds, with at least the size it got: freed
\* memory comes back, resized or not, and held memory is not given away.
InUseIsHeld ==
    LET inUse == {a \in DOMAIN heap.arena : ~heap.arena[a].free}
    IN  /\ {a + ARENA_INUSE : a \in inUse} = DOMAIN granted
        /\ \A p \in DOMAIN granted : granted[p] <= heap.arena[p - ARENA_INUSE].size

\* A new sub-heap for size words is not committed as far as the arena of what is
\* left over.
ShortCommit(size) ==
    /\ Grows(heap, size)
    /\ RoundUp(NewSize(size), Granule) < SUBHEAP + ARENA_INUSE + size + ARENA_FREE

\* The arenas and what the program holds are in committed memory, whatever was
\* decommitted behind them (memory/heap.c:472: "and make sure the requested size is
\* committed"), but a block whose growing failed is so only up to the size it had
\* then: growing it again may succeed with nothing committed (heap.c:1028).  And no
\* call touches other memory, unless it resizes such a block or makes a new sub-heap
\* for one of a few sizes below a multiple of the granule (heap.c:509).
Committed ==
    /\ ~Bare(heap)
    /\ \A p \in DOMAIN granted :
          LET sure == IF p \in DOMAIN failed THEN failed[p] ELSE granted[p]
          IN  p + sure <= CommittedTo(heap, p - ARENA_INUSE)
    /\ faulted => failed # <<>> \/ \E n \in Request : ShortCommit(Asked(n))

\* To the program the heap is a pool of memory.
Pool == INSTANCE HeapPool WITH granted <- granted
ImplementsPool == Pool!Spec
=============================================================================
