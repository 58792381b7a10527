----------------------------- MODULE HeapProofs -----------------------------
(***************************************************************************)
(* The inductive invariant of a heap, and the theorems that follow from it *)
(* for pages, sub-heaps, free lists and requests of every size.            *)
(***************************************************************************)
EXTENDS Heap, FiniteSetsExt, FiniteSetTheorems, TLAPS

----------------------------------------------------------------------------
(* Sets of numbers *)

\* A set of natural numbers that is not empty has a smallest element.
LEMMA MinNat ==
    ASSUME NEW S, S \subseteq Nat, S # {}
    PROVE  Min(S) \in S /\ \A y \in S : Min(S) <= y
<1>1. PICK x \in S : \A y \in S : ~ (<<y, x>> \in OpToRel(<, Nat))
  BY NatLessThanWellFounded, WFMin
<1>2. \A y \in S : ~ (y < x)
  BY <1>1, Zenon DEF OpToRel
<1>3. \A y \in S : x <= y
  BY <1>2
<1> QED
  BY <1>3 DEF Min

----------------------------------------------------------------------------
(* The invariant *)

Block == [size : Nat, free : BOOLEAN, prevFree : BOOLEAN, back : Nat \cup {None}]
SubHeap == [size : Nat, headerSize : {HeapHeader, SUBHEAP}, commitSize : Nat]

\* What is somewhere at addresses.
Placed(S) == UNION {[D -> S] : D \in SUBSET Nat}

HeapType == [sub : Placed(SubHeap), arena : Placed(Block), freeList : [Lists -> Seq(Nat)],
             top : Nat, growable : BOOLEAN]

\* Where the blocks of a sub-heap begin.
First(h, s) == s + h.sub[s].headerSize
Firsts(h) == {First(h, s) : s \in DOMAIN h.sub}
Ends(h) == {End(h, s) : s \in DOMAIN h.sub}

\* Sub-heaps lie apart from each other, below the free address space, have room for
\* a block, and whole pages of them are committed.
SubsApart(h) ==
    \A s \in DOMAIN h.sub :
        /\ Granule <= s /\ End(h, s) <= h.top
        /\ First(h, s) + ARENA_FREE <= End(h, s)
        /\ h.sub[s].commitSize <= h.sub[s].size
        /\ h.sub[s].size % Page = 0 /\ h.sub[s].commitSize % Page = 0
        /\ \A t \in DOMAIN h.sub : s < t => End(h, s) <= t

\* The blocks fill the sub-heaps: none leaves its sub-heap or reaches into another,
\* and each begins and ends where another ends and begins, or the sub-heap does.
Filled(h) ==
    /\ \A a \in DOMAIN h.arena :
          \E s \in DOMAIN h.sub : First(h, s) <= a /\ After(h, a) <= End(h, s)
    /\ \A a, b \in DOMAIN h.arena : a < b => After(h, a) <= b
    /\ \A a \in DOMAIN h.arena : After(h, a) \in DOMAIN h.arena \cup Ends(h)
    /\ \A x \in DOMAIN h.arena \cup Ends(h) :
          x \in Firsts(h) \/ \E b \in DOMAIN h.arena : After(h, b) = x
    /\ Firsts(h) \subseteq DOMAIN h.arena

\* A block knows of a free one before it if, and only if, there is one, and a free
\* block has none behind it.
Flagged(h) ==
    \A a \in DOMAIN h.arena :
        /\ h.arena[a].prevFree =>
              /\ h.arena[a].back \in DOMAIN h.arena
              /\ h.arena[h.arena[a].back].free
              /\ After(h, h.arena[a].back) = a
        /\ h.arena[a].free /\ After(h, a) \in DOMAIN h.arena =>
              /\ h.arena[After(h, a)].prevFree
              /\ h.arena[After(h, a)].back = a
              /\ ~h.arena[After(h, a)].free

\* The free lists hold the blocks S, each once and where its size belongs.
Listed(h, S) ==
    \A k \in Lists :
        /\ ToSet(h.freeList[k]) = {a \in S : ListFor(h.arena[a].size) = k}
        /\ IsInjective(h.freeList[k])

FreeBlocks(h) == {a \in DOMAIN h.arena : h.arena[a].free}

Whole(h) == h \in HeapType /\ SubsApart(h) /\ Filled(h) /\ Flagged(h) /\ Listed(h, FreeBlocks(h))

----------------------------------------------------------------------------
(* Numbers *)

\* A size is rounded up, to a multiple.
LEMMA RoundUpUp ==
    ASSUME NEW n \in Nat, NEW u \in Nat \ {0}
    PROVE  RoundUp(n, u) \in Nat /\ n <= RoundUp(n, u) /\ RoundUp(n, u) % u = 0
BY DEF RoundUp

\* It stays below every multiple that is not below it.
LEMMA RoundUpLeast ==
    ASSUME NEW n \in Nat, NEW u \in Nat \ {0}, NEW c \in Nat, c % u = 0, n <= c
    PROVE  RoundUp(n, u) <= c
<1> DEFINE q == (n + u - 1) \div u
           k == c \div u
<1>1. q \in Nat /\ k \in Nat /\ c = u * k /\ u * q <= n + u - 1
  OBVIOUS
<1>2. u * q < u * (k + 1)
  BY <1>1
<1> HIDE DEF q, k
<1>3. q < k + 1
  BY <1>1, <1>2
<1>4. q * u <= k * u
  BY <1>1, <1>3
<1> QED
  BY <1>1, <1>4 DEF RoundUp, q

\* A multiple of a multiple is a multiple.
LEMMA MultipleOf ==
    ASSUME NEW n \in Nat, NEW u \in Nat \ {0}, NEW v \in Nat \ {0}, n % u = 0, u % v = 0
    PROVE  n % v = 0
<1> DEFINE q == n \div u
           k == u \div v
<1>1. q \in Nat /\ k \in Nat /\ n = q * u /\ u = k * v
  OBVIOUS
<1> HIDE DEF q, k
<1>2. n = (q * k) * v
  BY <1>1
<1>3. \A j \in Nat : (j * v) % v = 0
  OBVIOUS
<1>4. q * k \in Nat
  BY <1>1
<1> QED
  BY <1>2, <1>3, <1>4

\* Two multiples are the unit apart, or more.
LEMMA MultiplesApart ==
    ASSUME NEW m \in Nat, NEW n \in Nat, NEW u \in Nat \ {0}, m % u = 0, n % u = 0, m < n
    PROVE  m + u <= n
<1> DEFINE q == n \div u
           k == m \div u
<1>1. q \in Nat /\ k \in Nat /\ n = u * q /\ m = u * k
  OBVIOUS
<1> HIDE DEF q, k
<1>2. k < q
  <2>1. SUFFICES ASSUME q <= k
                 PROVE  FALSE
    BY <1>1
  <2>2. u * q <= u * k
    BY <1>1, <2>1
  <2> QED
    BY <1>1, <2>2
<1>3. u * (k + 1) <= u * q
  BY <1>1, <1>2
<1>4. u * (k + 1) = u * k + u
  BY <1>1
<1> QED
  BY <1>1, <1>3, <1>4

\* The larger and the smaller of two numbers.
LEMMA OfTwo ==
    ASSUME NEW m \in Nat, NEW n \in Nat
    PROVE  /\ Max({m, n}) = IF m <= n THEN n ELSE m
           /\ Min({m, n}) = IF m <= n THEN m ELSE n
<1>1. PICK x \in {m, n} : \A y \in {m, n} : y <= x
  OBVIOUS
<1>2. Max({m, n}) \in {m, n} /\ \A y \in {m, n} : y <= Max({m, n})
  BY <1>1 DEF Max
<1>3. Min({m, n}) \in {m, n} /\ \A y \in {m, n} : Min({m, n}) <= y
  BY MinNat
<1> QED
  BY <1>2, <1>3

\* Every size has a list.
LEMMA HasList ==
    ASSUME SizeAssumption, NEW n \in Nat
    PROVE  ListFor(n) \in Lists
<1> DEFINE S == {Len(FreeListSizes) + 1} \cup {k \in DOMAIN FreeListSizes : n <= FreeListSizes[k]}
<1>1. FreeListSizes \in Seq(Nat)
  BY DEF SizeAssumption
<1>2. S \subseteq Lists /\ S \subseteq Nat /\ S # {}
  BY <1>1 DEF Lists
<1>3. Min(S) \in S
  <2> HIDE DEF S
  <2> QED
    BY <1>2, MinNat
<1> QED
  BY <1>2, <1>3 DEF ListFor

\* What the sizes are.
LEMMA Sizes ==
    ASSUME SizeAssumption
    PROVE  /\ HeapHeader \in Nat \ {0} /\ Page \in Nat \ {0} /\ Granule \in Nat \ {0}
           /\ DefSize \in Nat \ {0} /\ Space \in Nat \ {0} /\ Request \subseteq Nat \ {0}
           /\ HeapHeader + 5 <= Granule /\ Granule % Page = 0
           /\ None \notin Nat /\ FreeListSizes \in Seq(Nat)
           /\ ARENA_INUSE = 4 /\ ARENA_FREE = 5 /\ SUBHEAP = 6 /\ HEAP_MIN_BLOCK_SIZE = 7
BY DEF SizeAssumption, ARENA_INUSE, ARENA_FREE, SUBHEAP, HEAP_MIN_BLOCK_SIZE

----------------------------------------------------------------------------
(* Sub-heaps and blocks *)

\* Where something is, and what.
LEMMA PlacedAt ==
    ASSUME NEW S, NEW f \in Placed(S)
    PROVE  DOMAIN f \subseteq Nat /\ \A x \in DOMAIN f : f[x] \in S
BY DEF Placed

\* The fields of a sub-heap.
LEMMA SubFields ==
    ASSUME SizeAssumption, NEW h \in HeapType, NEW s \in DOMAIN h.sub
    PROVE  /\ s \in Nat /\ h.sub[s] \in SubHeap /\ h.sub[s].size \in Nat
           /\ h.sub[s].commitSize \in Nat /\ h.sub[s].headerSize \in Nat \ {0}
           /\ End(h, s) \in Nat /\ First(h, s) \in Nat /\ s < First(h, s)
           /\ End(h, s) = s + h.sub[s].size
<1>1. h.sub \in Placed(SubHeap)
  BY DEF HeapType
<1>2. s \in Nat /\ h.sub[s] \in SubHeap
  BY <1>1, PlacedAt
<1>3. {HeapHeader, SUBHEAP} \subseteq Nat \ {0}
  BY Sizes
<1> QED
  BY <1>2, <1>3 DEF SubHeap, End, First

\* The fields of a block.
LEMMA BlockFields ==
    ASSUME NEW h \in HeapType, NEW a \in DOMAIN h.arena
    PROVE  /\ a \in Nat /\ h.arena[a] \in Block /\ h.arena[a].size \in Nat
           /\ h.arena[a].free \in BOOLEAN /\ h.arena[a].prevFree \in BOOLEAN
           /\ After(h, a) \in Nat /\ a + 4 <= After(h, a)
           /\ h.arena[a].free => After(h, a) = a + h.arena[a].size + 5
           /\ ~h.arena[a].free => After(h, a) = a + h.arena[a].size + 4
<1>1. h.arena \in Placed(Block)
  BY DEF HeapType
<1>2. a \in Nat /\ h.arena[a] \in Block
  BY <1>1, PlacedAt
<1> QED
  BY <1>2 DEF Block, After, ARENA_FREE, ARENA_INUSE

\* An address is in one sub-heap at most.
LEMMA OneSub ==
    ASSUME SizeAssumption, NEW h \in HeapType, SubsApart(h),
           NEW s \in DOMAIN h.sub, NEW t \in DOMAIN h.sub, NEW a \in Nat,
           s <= a, a < End(h, s), t <= a, a < End(h, t)
    PROVE  s = t
<1>1. /\ s \in Nat /\ t \in Nat /\ End(h, s) \in Nat /\ End(h, t) \in Nat
  BY SubFields
<1>2. (s < t => End(h, s) <= t) /\ (t < s => End(h, t) <= s)
  BY DEF SubsApart
<1> QED
  BY <1>1, <1>2

\* The sub-heap that a search for an address finds.
LEMMA SubFound ==
    ASSUME SizeAssumption, NEW h \in HeapType, SubsApart(h),
           NEW s \in DOMAIN h.sub, NEW a \in Nat, s <= a, a < End(h, s)
    PROVE  FindSubHeap(h, a) = s
<1>1. \A t \in DOMAIN h.sub : t <= a /\ a < End(h, t) => t = s
  BY OneSub
<1> QED
  BY <1>1 DEF FindSubHeap

\* Between the places of a sub-heap no sub-heap begins or ends.
LEMMA NoFence ==
    ASSUME SizeAssumption, NEW h \in HeapType, SubsApart(h),
           NEW s \in DOMAIN h.sub, NEW x \in Nat, NEW y \in Nat,
           First(h, s) <= x, y <= End(h, s)
    PROVE  /\ \A f \in Firsts(h) : ~ (x < f /\ f < y)
           /\ \A e \in Ends(h) : ~ (x <= e /\ e < y)
<1>1. s \in Nat /\ First(h, s) \in Nat /\ s < First(h, s) /\ End(h, s) \in Nat
  BY SubFields
<1>2. SUFFICES ASSUME NEW t \in DOMAIN h.sub
               PROVE  /\ ~ (x < First(h, t) /\ First(h, t) < y)
                      /\ ~ (x <= End(h, t) /\ End(h, t) < y)
  BY DEF Firsts, Ends
<1>3. t \in Nat /\ First(h, t) \in Nat /\ t < First(h, t) /\ End(h, t) \in Nat
  BY SubFields
<1>4. First(h, t) + 5 <= End(h, t) /\ First(h, s) + 5 <= End(h, s)
  BY Sizes DEF SubsApart
<1>5. (s < t => End(h, s) <= t) /\ (t < s => End(h, t) <= s)
  BY DEF SubsApart
<1> QED
  BY <1>1, <1>3, <1>4, <1>5

\* Where a block lies: in one sub-heap, which a search for it finds, and at whose end
\* it ends if no block follows.
LEMMA BlockPlace ==
    ASSUME SizeAssumption, NEW h \in HeapType, SubsApart(h), Filled(h),
           NEW a \in DOMAIN h.arena, NEW s, s = FindSubHeap(h, a)
    PROVE  /\ s \in DOMAIN h.sub /\ First(h, s) <= a /\ After(h, a) <= End(h, s)
           /\ After(h, a) \in DOMAIN h.arena <=> After(h, a) < End(h, s)
           /\ After(h, a) \notin DOMAIN h.arena <=> After(h, a) = End(h, s)
<1>1. PICK t \in DOMAIN h.sub : First(h, t) <= a /\ After(h, a) <= End(h, t)
  BY DEF Filled
<1>2. a \in Nat /\ After(h, a) \in Nat /\ a + 4 <= After(h, a)
  BY BlockFields
<1>3. t \in Nat /\ First(h, t) \in Nat /\ t < First(h, t) /\ End(h, t) \in Nat
  BY SubFields
<1>4. s = t
  <2>1. t <= a /\ a < End(h, t)
    BY <1>1, <1>2, <1>3
  <2>2. FindSubHeap(h, a) = t
    BY <1>2, <2>1, SubFound
  <2> QED
    BY <2>2
<1>5. After(h, a) \in DOMAIN h.arena => After(h, a) < End(h, t)
  <2>1. SUFFICES ASSUME After(h, a) \in DOMAIN h.arena, After(h, a) = End(h, t)
                 PROVE  FALSE
    BY <1>1, <1>2, <1>3
  <2>2. PICK u \in DOMAIN h.sub : First(h, u) <= End(h, t) /\ After(h, End(h, t)) <= End(h, u)
    BY <2>1 DEF Filled
  <2>3. u \in Nat /\ First(h, u) \in Nat /\ u < First(h, u) /\ End(h, u) \in Nat
    BY SubFields
  <2>4. End(h, t) < After(h, End(h, t)) /\ After(h, End(h, t)) \in Nat
    BY <2>1, <1>3, BlockFields
  <2>5. (u < t => End(h, u) <= t) /\ (t < u => End(h, t) <= u)
    BY DEF SubsApart
  <2>6. t < End(h, t)
    BY <1>1, <1>2, <1>3
  <2> QED
    BY <2>2, <2>3, <2>4, <2>5, <2>6, <1>3
<1>6. After(h, a) \notin DOMAIN h.arena => After(h, a) = End(h, t)
  <2>1. SUFFICES ASSUME After(h, a) \in Ends(h), After(h, a) < End(h, t)
                 PROVE  FALSE
    BY <1>1, <1>2, <1>3 DEF Filled
  <2>2. \A e \in Ends(h) : ~ (First(h, t) <= e /\ e < End(h, t))
    BY <1>3, NoFence
  <2> QED
    BY <2>1, <2>2, <1>1, <1>2, <1>3
<1> QED
  BY <1>1, <1>2, <1>3, <1>4, <1>5, <1>6

\* A block before the end of a sub-heap does not reach beyond it.
LEMMA BeforeEnd ==
    ASSUME SizeAssumption, NEW h \in HeapType, SubsApart(h), Filled(h),
           NEW b \in DOMAIN h.arena, NEW s \in DOMAIN h.sub, b < End(h, s)
    PROVE  After(h, b) <= End(h, s)
<1>1. PICK t \in DOMAIN h.sub : First(h, t) <= b /\ After(h, b) <= End(h, t)
  BY DEF Filled
<1>2. b \in Nat /\ After(h, b) \in Nat
  BY BlockFields
<1>3. /\ t \in Nat /\ First(h, t) \in Nat /\ t < First(h, t) /\ End(h, t) \in Nat
      /\ s \in Nat /\ First(h, s) \in Nat /\ s < First(h, s) /\ End(h, s) \in Nat
  BY SubFields
<1>4. First(h, s) + 5 <= End(h, s)
  BY Sizes DEF SubsApart
<1>5. (s < t => End(h, s) <= t) /\ (t < s => End(h, t) <= s)
  BY DEF SubsApart
<1> QED
  BY <1>1, <1>2, <1>3, <1>4, <1>5

----------------------------------------------------------------------------
(* Blocks made anew *)

\* The sub-heaps stay; how much of them is committed may change.
SameSubs(h, g) ==
    /\ DOMAIN g.sub = DOMAIN h.sub
    /\ \A s \in DOMAIN h.sub : End(g, s) = End(h, s) /\ First(g, s) = First(h, s)

\* In place of the blocks from x up to y there is one now, or one in use and a free
\* one behind it, at m.  The block behind them knows if there is a free one before it.
Rebuilt(h, g, x, y, m) ==
    /\ DOMAIN g.arena = {a \in DOMAIN h.arena : a <= x \/ y <= a} \cup {m}
    /\ \A a \in DOMAIN g.arena \ {x, y, m} : g.arena[a] = h.arena[a]
    /\ g.arena[x].prevFree <=> h.arena[x].prevFree
    /\ g.arena[x].prevFree => g.arena[x].back = h.arena[x].back
    /\ g.arena[x].free => m = x /\ ~h.arena[x].prevFree
    /\ m # x => /\ x < m /\ m < y /\ After(g, x) = m
                /\ g.arena[m].free /\ ~g.arena[m].prevFree
    /\ After(g, m) = y
    /\ y \in DOMAIN h.arena =>
          /\ g.arena[y].size = h.arena[y].size
          /\ g.arena[y].free <=> h.arena[y].free
          /\ g.arena[y].prevFree <=> g.arena[m].free
          /\ g.arena[m].free => g.arena[y].back = m /\ ~h.arena[y].free

\* The places of blocks from x to y in the sub-heap s.
Region(h, s, x, y) ==
    /\ s \in DOMAIN h.sub /\ x \in DOMAIN h.arena /\ First(h, s) <= x /\ x < y
    /\ y <= End(h, s) /\ y \in DOMAIN h.arena \cup {End(h, s)}

\* What is outside stays where it is, and what begins before y ends there.
LEMMA Outside ==
    ASSUME SizeAssumption, NEW h \in HeapType, SubsApart(h), Filled(h),
           NEW g \in HeapType, SameSubs(h, g), NEW s, NEW x, NEW y, NEW m,
           Region(h, s, x, y), Rebuilt(h, g, x, y, m)
    PROVE  /\ x \in Nat /\ y \in Nat /\ m \in Nat /\ x <= m /\ m < y
           /\ x \in DOMAIN g.arena /\ m \in DOMAIN g.arena
           /\ \A a \in DOMAIN g.arena \ {x, m} :
                 /\ a \in DOMAIN h.arena /\ After(g, a) = After(h, a) /\ (a < x \/ y <= a)
                 /\ g.arena[a].size = h.arena[a].size /\ (g.arena[a].free <=> h.arena[a].free)
           /\ \A a \in DOMAIN h.arena : a < x \/ y <= a => a \in DOMAIN g.arena \ {x, m}
           /\ \A b \in DOMAIN h.arena : b < y => After(h, b) <= y
           /\ Firsts(g) = Firsts(h) /\ Ends(g) = Ends(h) /\ y \in DOMAIN h.arena \cup Ends(h)
<1>1. x \in Nat /\ End(h, s) \in Nat
  BY SubFields, BlockFields DEF Region
<1>2. y \in Nat /\ x < y
  BY <1>1, BlockFields DEF Region
<1>3. x \in DOMAIN h.arena
  BY DEF Region
<1>4. x <= m /\ m < y /\ m \in Nat
  <2>1. m \in DOMAIN g.arena
    BY DEF Rebuilt
  <2>2. m \in Nat
    BY <2>1, BlockFields
  <2> QED
    BY <1>1, <1>2, <2>2 DEF Rebuilt
<1>5. x \in DOMAIN g.arena /\ m \in DOMAIN g.arena
  BY <1>1, <1>3 DEF Rebuilt
<1>6. ASSUME NEW a \in DOMAIN g.arena \ {x, m}
      PROVE  /\ a \in DOMAIN h.arena /\ After(g, a) = After(h, a) /\ (a < x \/ y <= a)
             /\ g.arena[a].size = h.arena[a].size /\ (g.arena[a].free <=> h.arena[a].free)
  <2>1. a \in DOMAIN h.arena /\ (a <= x \/ y <= a)
    BY DEF Rebuilt
  <2>2. a \in Nat
    BY BlockFields
  <2>3. a = y \/ g.arena[a] = h.arena[a]
    BY DEF Rebuilt
  <2>4. g.arena[a].size = h.arena[a].size /\ (g.arena[a].free <=> h.arena[a].free)
    BY <2>1, <2>3 DEF Rebuilt
  <2> QED
    BY <1>1, <2>1, <2>2, <2>4 DEF After
<1>7. ASSUME NEW a \in DOMAIN h.arena, a < x \/ y <= a
      PROVE  a \in DOMAIN g.arena \ {x, m}
  <2>1. a \in Nat
    BY BlockFields
  <2>2. a # x /\ a # m
    BY <1>1, <1>2, <1>4, <1>7, <2>1
  <2>3. a \in DOMAIN g.arena
    BY <1>1, <1>7, <2>1 DEF Rebuilt
  <2> QED
    BY <2>2, <2>3
<1>8. ASSUME NEW b \in DOMAIN h.arena, b < y
      PROVE  After(h, b) <= y
  BY <1>8, BeforeEnd DEF Region, Filled
<1>9. Firsts(g) = Firsts(h) /\ Ends(g) = Ends(h)
  BY DEF SameSubs, Firsts, Ends
<1>10. y \in DOMAIN h.arena \cup Ends(h)
  BY DEF Region, Ends
<1> QED
  BY <1>1, <1>2, <1>4, <1>5, <1>6, <1>7, <1>8, <1>9, <1>10

\* Blocks that are made anew fill their sub-heap.
LEMMA RebuiltFilled ==
    ASSUME SizeAssumption, NEW h \in HeapType, SubsApart(h), Filled(h),
           NEW g \in HeapType, SameSubs(h, g), NEW s, NEW x, NEW y, NEW m,
           Region(h, s, x, y), Rebuilt(h, g, x, y, m)
    PROVE  Filled(g)
<1> DEFINE D == DOMAIN h.arena
           G == DOMAIN g.arena
<1>1. \A a \in D : a \in Nat /\ After(h, a) \in Nat /\ a < After(h, a)
  BY BlockFields
<1>2. \A a \in G : a \in Nat /\ After(g, a) \in Nat /\ a < After(g, a)
  BY BlockFields
<1>3. /\ x \in Nat /\ y \in Nat /\ m \in Nat /\ x <= m /\ m < y /\ x \in G /\ m \in G
      /\ Firsts(g) = Firsts(h) /\ Ends(g) = Ends(h) /\ y \in D \cup Ends(h)
  BY Outside
<1>4. \A a \in G \ {x, m} : a \in D /\ After(g, a) = After(h, a) /\ (a < x \/ y <= a)
  BY Outside
<1>5. \A a \in D : a < x \/ y <= a => a \in G \ {x, m}
  BY Outside
<1>6. \A b \in D : b < y => After(h, b) <= y
  BY Outside
<1>7. After(g, m) = y /\ (m # x => After(g, x) = m)
  BY DEF Rebuilt
<1>8. x \in D /\ s \in DOMAIN h.sub /\ First(h, s) <= x /\ y <= End(h, s)
  BY DEF Region
<1>9. First(h, s) \in Nat /\ End(h, s) \in Nat
  BY <1>8, SubFields
<1>10. /\ \A f \in Firsts(h) : ~ (x < f /\ f < y)
       /\ \A e \in Ends(h) : ~ (x <= e /\ e < y)
  BY <1>3, <1>8, NoFence
<1>11. /\ \A a \in D : \E t \in DOMAIN h.sub : First(h, t) <= a /\ After(h, a) <= End(h, t)
       /\ \A a, b \in D : a < b => After(h, a) <= b
       /\ \A a \in D : After(h, a) \in D \cup Ends(h)
       /\ \A p \in D \cup Ends(h) : p \in Firsts(h) \/ \E b \in D : After(h, b) = p
       /\ Firsts(h) \subseteq D
  BY DEF Filled
<1> HIDE DEF D, G
<1>12. ASSUME NEW a \in G
       PROVE  \E t \in DOMAIN g.sub : First(g, t) <= a /\ After(g, a) <= End(g, t)
  <2>1. CASE a \in {x, m}
    <3>1. First(h, s) <= a /\ After(g, a) <= End(h, s)
      BY <1>2, <1>3, <1>7, <1>8, <1>9, <2>1
    <3> QED
      BY <1>8, <3>1 DEF SameSubs
  <2>2. CASE a \notin {x, m}
    BY <1>4, <1>11, <2>2 DEF SameSubs
  <2> QED
    BY <2>1, <2>2
<1>13. ASSUME NEW a \in G, NEW b \in G, a < b
       PROVE  After(g, a) <= b
  <2>1. CASE a \in {x, m}
    BY <1>2, <1>3, <1>4, <1>7, <1>13, <2>1
  <2>2. CASE a \notin {x, m} /\ b \in {x, m}
    BY <1>1, <1>3, <1>4, <1>8, <1>11, <1>13, <2>2
  <2>3. CASE a \notin {x, m} /\ b \notin {x, m}
    BY <1>4, <1>11, <1>13, <2>3
  <2> QED
    BY <2>1, <2>2, <2>3
<1>15. ASSUME NEW a \in G
       PROVE  After(g, a) \in G \cup Ends(g)
  <2>1. CASE a \in {x, m}
    BY <1>1, <1>3, <1>5, <1>7, <2>1
  <2>2. CASE a \notin {x, m}
    <3>1. a \in D /\ After(g, a) = After(h, a) /\ (a < x \/ y <= a)
      BY <1>4, <2>2
    <3>2. SUFFICES ASSUME After(h, a) \in D
                   PROVE  After(h, a) \in G
      BY <1>3, <1>11, <3>1
    <3>3. After(h, a) <= x \/ y <= After(h, a)
      BY <1>1, <1>3, <1>8, <1>11, <3>1
    <3>4. After(h, a) < x \/ After(h, a) = x \/ y <= After(h, a)
      BY <1>1, <1>3, <3>1, <3>3
    <3> QED
      BY <1>3, <1>5, <3>2, <3>4
  <2> QED
    BY <2>1, <2>2
<1>16. ASSUME NEW p \in G \cup Ends(g), p \notin Firsts(g)
       PROVE  \E b \in G : After(g, b) = p
  <2>1. CASE p = m /\ m # x
    BY <1>3, <1>7, <2>1
  <2>2. CASE p = y
    BY <1>3, <1>7, <2>2
  <2>3. CASE ~ (p = m /\ m # x) /\ p # y
    <3>1. p \in D \cup Ends(h)
      BY <1>3, <1>4, <1>8, <2>3
    <3>2. PICK b \in D : After(h, b) = p
      BY <1>3, <1>11, <1>16, <3>1
    <3>3. b < x \/ y <= b
      <4>1. SUFFICES ASSUME x <= b, b < y
                     PROVE  FALSE
        BY <1>1, <1>3
      <4>2. x < p /\ p < y /\ p \in Nat
        BY <1>1, <1>3, <1>6, <2>3, <3>2, <4>1
      <4>3. p \notin Ends(h)
        BY <1>10, <4>2, <1>3
      <4>4. p \in G
        BY <1>3, <1>16, <4>3
      <4> QED
        BY <1>3, <1>4, <2>3, <4>2, <4>4
    <3> QED
      BY <1>4, <1>5, <3>2, <3>3
  <2> QED
    BY <2>1, <2>2, <2>3
<1>17. Firsts(g) \subseteq G
  <2>1. SUFFICES ASSUME NEW f \in Firsts(h)
                 PROVE  f \in G
    BY <1>3
  <2>2. f \in D /\ ~ (x < f /\ f < y)
    BY <1>10, <1>11
  <2> QED
    BY <1>1, <1>3, <1>5, <2>2
<1> QED
  BY <1>12, <1>13, <1>15, <1>16, <1>17 DEF Filled, D, G

\* What is said of free neighbours stays true.
LEMMA RebuiltFlagged ==
    ASSUME SizeAssumption, NEW h \in HeapType, SubsApart(h), Filled(h), Flagged(h),
           NEW g \in HeapType, SameSubs(h, g), NEW s, NEW x, NEW y, NEW m,
           Region(h, s, x, y), Rebuilt(h, g, x, y, m)
    PROVE  Flagged(g)
<1> DEFINE D == DOMAIN h.arena
           G == DOMAIN g.arena
<1>1. \A a \in D : a \in Nat /\ After(h, a) \in Nat /\ a < After(h, a)
  BY BlockFields
<1>2. \A a \in G : a \in Nat /\ After(g, a) \in Nat /\ a < After(g, a)
  BY BlockFields
<1>3. /\ x \in Nat /\ y \in Nat /\ m \in Nat /\ x <= m /\ m < y /\ x \in G /\ m \in G
      /\ y \in D \cup Ends(h)
  BY Outside
<1>4. \A a \in G \ {x, m} : /\ a \in D /\ After(g, a) = After(h, a) /\ (a < x \/ y <= a)
                            /\ (g.arena[a].free <=> h.arena[a].free)
  BY Outside
<1>5. \A a \in D : a < x \/ y <= a => a \in G \ {x, m}
  BY Outside
<1>6. \A b \in D : b < y => After(h, b) <= y
  BY Outside
<1>7. \A a, b \in D : a < b => After(h, a) <= b
  BY DEF Filled
<1>8. \A a \in G \ {x, y, m} : g.arena[a] = h.arena[a]
  BY DEF Rebuilt
<1>9. /\ After(g, m) = y /\ (m # x => After(g, x) = m /\ g.arena[m].free /\ ~g.arena[m].prevFree)
      /\ (g.arena[x].prevFree <=> h.arena[x].prevFree)
      /\ (g.arena[x].prevFree => g.arena[x].back = h.arena[x].back)
      /\ (g.arena[x].free => m = x /\ ~h.arena[x].prevFree)
  BY DEF Rebuilt
<1>10. y \in D => /\ (g.arena[y].free <=> h.arena[y].free)
                  /\ (g.arena[y].prevFree <=> g.arena[m].free)
                  /\ (g.arena[m].free => g.arena[y].back = m /\ ~h.arena[y].free)
  BY DEF Rebuilt
<1>11. \A a \in D : h.arena[a].prevFree =>
           /\ h.arena[a].back \in D /\ h.arena[h.arena[a].back].free
           /\ After(h, h.arena[a].back) = a
  BY DEF Flagged
<1>12. \A a \in D : h.arena[a].free /\ After(h, a) \in D =>
           /\ h.arena[After(h, a)].prevFree /\ h.arena[After(h, a)].back = a
           /\ ~h.arena[After(h, a)].free
  BY DEF Flagged
<1>13. x \in D
  BY DEF Region
<1> HIDE DEF D, G
<1>14. ASSUME NEW a \in G, g.arena[a].prevFree
       PROVE  /\ g.arena[a].back \in G /\ g.arena[g.arena[a].back].free
              /\ After(g, g.arena[a].back) = a
  <2>1. CASE a = x
    <3> DEFINE c == h.arena[x].back
    <3>1. c \in D /\ h.arena[c].free /\ After(h, c) = x /\ g.arena[x].back = c
      BY <1>9, <1>11, <1>13, <1>14, <2>1
    <3> HIDE DEF c
    <3>2. c < x
      BY <1>1, <3>1
    <3>3. c \in G \ {x, m}
      BY <1>5, <3>1, <3>2
    <3> QED
      BY <1>4, <2>1, <3>1, <3>3
  <2>2. CASE a = y
    <3>1. a \in D
      BY <1>3, <1>4, <2>2
    <3> QED
      BY <1>3, <1>9, <1>10, <1>14, <2>2, <3>1
  <2>3. CASE a \notin {x, y, m}
    <3> DEFINE c == h.arena[a].back
    <3>1. a \in D /\ g.arena[a] = h.arena[a] /\ (a < x \/ y < a) /\ a \in Nat
      BY <1>2, <1>3, <1>4, <1>8, <2>3
    <3>2. c \in D /\ h.arena[c].free /\ After(h, c) = a /\ g.arena[a].back = c
      BY <1>11, <1>14, <3>1
    <3> HIDE DEF c
    <3>3. c < x \/ y <= c
      BY <1>1, <1>3, <1>6, <3>1, <3>2
    <3>4. c \in G \ {x, m}
      BY <1>5, <3>2, <3>3
    <3> QED
      BY <1>4, <3>2, <3>4
  <2>4. CASE a = m /\ m # x
    BY <1>9, <1>14, <2>4
  <2> QED
    BY <2>1, <2>2, <2>3, <2>4
<1>15. ASSUME NEW a \in G, g.arena[a].free, After(g, a) \in G
       PROVE  /\ g.arena[After(g, a)].prevFree /\ g.arena[After(g, a)].back = a
              /\ ~g.arena[After(g, a)].free
  <2>1. CASE a \in {x, m}
    <3>1. a = m /\ After(g, a) = y
      BY <1>9, <1>15, <2>1
    <3>2. y \in D
      BY <1>3, <1>4, <1>15, <3>1
    <3> QED
      BY <1>10, <1>15, <3>1, <3>2
  <2>2. CASE a \notin {x, m}
    <3> DEFINE n == After(h, a)
    <3>1. a \in D /\ After(g, a) = n /\ (a < x \/ y <= a) /\ h.arena[a].free
      BY <1>4, <1>15, <2>2
    <3>2. n \in Nat /\ a < n /\ a \in Nat
      BY <1>1, <3>1
    <3>3. n <= x \/ y < n
      BY <1>3, <1>7, <1>13, <3>1, <3>2
    <3>4. n \in D
      BY <1>3, <1>4, <1>13, <1>15, <3>1, <3>2, <3>3
    <3>5. h.arena[n].prevFree /\ h.arena[n].back = a /\ ~h.arena[n].free
      BY <1>12, <3>1, <3>4
    <3> HIDE DEF n
    <3>6. CASE n = x
      BY <1>9, <3>1, <3>5, <3>6
    <3>7. CASE n # x
      <4>1. n \in G \ {x, y, m}
        BY <1>3, <1>15, <3>1, <3>2, <3>3, <3>7
      <4> QED
        BY <1>8, <3>1, <3>5, <4>1
    <3> QED
      BY <3>6, <3>7
  <2> QED
    BY <2>1, <2>2
<1> QED
  BY <1>14, <1>15 DEF Flagged, D, G

----------------------------------------------------------------------------
(* The free lists *)

\* Two lists behind each other.
LEMMA Joined ==
    ASSUME NEW p \in Seq(Nat), NEW q \in Seq(Nat)
    PROVE  /\ p \o q \in Seq(Nat) /\ Len(p \o q) = Len(p) + Len(q)
           /\ \A j \in 1 .. Len(p) + Len(q) :
                 (p \o q)[j] = IF j <= Len(p) THEN p[j] ELSE q[j - Len(p)]
OBVIOUS

\* An element is taken out of a list that has it once.
LEMMA WithoutOne ==
    ASSUME NEW l \in Seq(Nat), IsInjective(l), NEW a
    PROVE  /\ RemoveFirst(l, a) \in Seq(Nat) /\ IsInjective(RemoveFirst(l, a))
           /\ ToSet(RemoveFirst(l, a)) = ToSet(l) \ {a}
<1>1. CASE ~ \E i \in 1 .. Len(l) : l[i] = a
  <2>1. RemoveFirst(l, a) = l
    BY <1>1 DEF RemoveFirst
  <2>2. a \notin ToSet(l)
    BY <1>1 DEF ToSet
  <2> QED
    BY <2>1, <2>2
<1>2. CASE \E i \in 1 .. Len(l) : l[i] = a
  <2> DEFINE I == {i \in 1 .. Len(l) : l[i] = a}
             r == RemoveAt(l, Min(I))
  <2>1. RemoveFirst(l, a) = r
    BY <1>2 DEF RemoveFirst, SelectInSeq
  <2>2. Min(I) \in I
    <3>1. I \subseteq Nat /\ I # {}
      BY <1>2
    <3> HIDE DEF I
    <3> QED
      BY <3>1, MinNat
  <2> DEFINE i == Min(I)
  <2>3. i \in 1 .. Len(l) /\ l[i] = a
    BY <2>2
  <2> HIDE DEF i
  <2>4. r = SubSeq(l, 1, i - 1) \o SubSeq(l, i + 1, Len(l))
    BY DEF RemoveAt, i
  <2> HIDE DEF r
  <2>5. /\ r \in Seq(Nat) /\ Len(r) = Len(l) - 1 /\ Len(l) \in Nat /\ Len(r) \in Nat
        /\ \A j \in 1 .. Len(r) : r[j] = IF j < i THEN l[j] ELSE l[j + 1]
    <3> DEFINE p == SubSeq(l, 1, i - 1)
               q == SubSeq(l, i + 1, Len(l))
    <3>1. Len(l) \in Nat /\ i \in Nat /\ 1 <= i /\ i <= Len(l)
      BY <2>3
    <3>2. p \in Seq(Nat) /\ Len(p) = i - 1 /\ \A j \in 1 .. i - 1 : p[j] = l[j]
      BY <3>1
    <3>3. /\ q \in Seq(Nat) /\ Len(q) = Len(l) - i
          /\ \A j \in 1 .. Len(l) - i : q[j] = l[i + j]
      BY <3>1
    <3> HIDE DEF p, q
    <3>4. r = p \o q
      BY <2>4 DEF p, q
    <3>5. /\ r \in Seq(Nat) /\ Len(r) = Len(p) + Len(q)
          /\ \A j \in 1 .. Len(r) : r[j] = IF j <= Len(p) THEN p[j] ELSE q[j - Len(p)]
      <4>1. p \in Seq(Nat) /\ q \in Seq(Nat) /\ Len(p) + Len(q) \in Nat
        BY <3>2, <3>3
      <4>2. /\ p \o q \in Seq(Nat) /\ Len(p \o q) = Len(p) + Len(q)
            /\ \A j \in 1 .. Len(p) + Len(q) :
                  (p \o q)[j] = IF j <= Len(p) THEN p[j] ELSE q[j - Len(p)]
        BY <4>1, Joined
      <4> QED
        BY <3>4, <4>2
    <3>6. ASSUME NEW j \in 1 .. Len(r)
          PROVE  r[j] = IF j < i THEN l[j] ELSE l[j + 1]
      <4>1. CASE j < i
        BY <3>1, <3>2, <3>5, <4>1
      <4>2. CASE ~ (j < i)
        <5>1. j - (i - 1) \in 1 .. Len(l) - i /\ i + (j - (i - 1)) = j + 1
          BY <3>1, <3>2, <3>3, <3>5, <4>2
        <5>2. r[j] = q[j - (i - 1)]
          BY <3>1, <3>2, <3>5, <4>2
        <5> QED
          BY <3>3, <4>2, <5>1, <5>2
      <4> QED
        BY <4>1, <4>2
    <3> QED
      BY <3>1, <3>2, <3>3, <3>5, <3>6
  <2>6. DOMAIN r = 1 .. Len(r) /\ DOMAIN l = 1 .. Len(l) /\ i \in Nat
    BY <2>3, <2>5
  <2> DEFINE at(n) == IF n < i THEN n ELSE n + 1
  <2>7. ASSUME NEW n \in 1 .. Len(r)
        PROVE  at(n) \in 1 .. Len(l) /\ at(n) # i /\ r[n] = l[at(n)]
    <3>1. at(n) \in 1 .. Len(l) /\ at(n) # i
      BY <2>3, <2>5, <2>6
    <3>2. r[n] = l[at(n)]
      <4>1. CASE n < i
        BY <2>5, <4>1
      <4>2. CASE ~ (n < i)
        BY <2>5, <4>2
      <4> QED
        BY <4>1, <4>2
    <3> QED
      BY <3>1, <3>2
  <2>8. \A n, k \in 1 .. Len(r) : at(n) = at(k) => n = k
    <3>1. Len(r) \in Nat
      BY <2>5
    <3> QED
      BY ONLY <2>6, <3>1
  <2>9. ASSUME NEW n \in 1 .. Len(l), n # i
        PROVE  \E k \in 1 .. Len(r) : at(k) = n
    <3> DEFINE k == IF n < i THEN n ELSE n - 1
    <3>1. k \in 1 .. Len(r) /\ at(k) = n
      <4>1. Len(r) \in Nat /\ Len(l) = Len(r) + 1 /\ i \in 1 .. Len(l)
        BY <2>3, <2>5, <2>6
      <4> QED
        BY ONLY <2>9, <4>1
    <3> QED
      BY <3>1
  <2> HIDE DEF at
  <2>10. \A n, k \in 1 .. Len(l) : l[n] = l[k] => n = k
    BY <2>6 DEF IsInjective
  <2>11. IsInjective(r)
    BY <2>6, <2>7, <2>8, <2>10 DEF IsInjective
  <2>12. \A n \in 1 .. Len(r) : r[n] \in ToSet(l) \ {a}
    BY <2>3, <2>6, <2>7, <2>10 DEF ToSet
  <2>13. \A n \in 1 .. Len(l) : l[n] # a => l[n] \in ToSet(r)
    BY <2>3, <2>6, <2>7, <2>9 DEF ToSet
  <2>14. ToSet(r) = ToSet(l) \ {a}
    <3>1. ToSet(r) \subseteq ToSet(l) \ {a}
      BY <2>6, <2>12 DEF ToSet
    <3>2. ToSet(l) \ {a} \subseteq ToSet(r)
      BY <2>6, <2>13 DEF ToSet
    <3> QED
      BY <3>1, <3>2
  <2> QED
    BY <2>1, <2>5, <2>11, <2>14
<1> QED
  BY <1>1, <1>2

\* An element is put in front of a list that does not have it.
LEMMA WithOne ==
    ASSUME NEW l \in Seq(Nat), IsInjective(l), NEW a \in Nat, a \notin ToSet(l)
    PROVE  /\ <<a>> \o l \in Seq(Nat) /\ IsInjective(<<a>> \o l)
           /\ ToSet(<<a>> \o l) = ToSet(l) \cup {a}
<1> DEFINE r == <<a>> \o l
<1>1. /\ r \in Seq(Nat) /\ Len(r) = Len(l) + 1
      /\ \A j \in 1 .. Len(r) : r[j] = IF j = 1 THEN a ELSE l[j - 1]
  OBVIOUS
<1> HIDE DEF r
<1>2. /\ DOMAIN r = 1 .. Len(r) /\ DOMAIN l = 1 .. Len(l)
      /\ Len(l) \in Nat /\ Len(r) \in Nat
  BY <1>1
<1>3. \A n \in 1 .. Len(l) : l[n] # a
  BY <1>2 DEF ToSet
<1>4. \A n \in 1 .. Len(l) : n + 1 \in 1 .. Len(r) /\ r[n + 1] = l[n]
  <2> TAKE n \in 1 .. Len(l)
  <2>1. n + 1 \in 1 .. Len(r) /\ n + 1 # 1 /\ n + 1 - 1 = n
    BY <1>1, <1>2
  <2> QED
    BY <1>1, <2>1
<1>5. \A j \in 1 .. Len(r) : j # 1 => j - 1 \in 1 .. Len(l) /\ r[j] = l[j - 1]
  BY <1>1, <1>2
<1>6. 1 \in 1 .. Len(r) /\ r[1] = a
  BY <1>1, <1>2
<1>7. \A n, k \in 1 .. Len(l) : l[n] = l[k] => n = k
  BY <1>2 DEF IsInjective
<1>8. IsInjective(r)
  <2>1. SUFFICES ASSUME NEW j \in 1 .. Len(r), NEW k \in 1 .. Len(r), r[j] = r[k]
                 PROVE  j = k
    BY <1>2 DEF IsInjective
  <2>2. j # 1 => r[j] # a
    BY <1>3, <1>5
  <2>3. k # 1 => r[k] # a
    BY <1>3, <1>5
  <2>4. j = 1 <=> k = 1
    BY <1>6, <2>1, <2>2, <2>3
  <2>5. j # 1 => j - 1 = k - 1
    BY <1>5, <1>7, <2>1, <2>4
  <2> QED
    BY <1>2, <2>4, <2>5
<1>9. ToSet(r) = ToSet(l) \cup {a}
  <2>1. ToSet(r) \subseteq ToSet(l) \cup {a}
    BY <1>2, <1>5, <1>6 DEF ToSet
  <2>2. ToSet(l) \cup {a} \subseteq ToSet(r)
    BY <1>2, <1>4, <1>6 DEF ToSet
  <2> QED
    BY <2>1, <2>2
<1> QED
  BY <1>1, <1>8, <1>9 DEF r

\* A block is taken out of the lists.
LEMMA UnlinkFields ==
    ASSUME NEW h \in HeapType, NEW S, Listed(h, S), NEW a
    PROVE  /\ Unlink(h, a) \in HeapType /\ Unlink(h, a).arena = h.arena
           /\ Unlink(h, a).sub = h.sub /\ Unlink(h, a).top = h.top
           /\ Unlink(h, a).growable = h.growable
           /\ Listed(Unlink(h, a), S \ {a})
<1> DEFINE fl == [k \in Lists |-> RemoveFirst(h.freeList[k], a)]
           g == [h EXCEPT !.freeList = fl]
<1>1. Unlink(h, a) = g
  BY DEF Unlink
<1>2. \A k \in Lists : h.freeList[k] \in Seq(Nat)
  BY DEF HeapType
<1>3. \A k \in Lists : /\ fl[k] \in Seq(Nat) /\ IsInjective(fl[k])
                       /\ ToSet(fl[k]) = ToSet(h.freeList[k]) \ {a}
  BY <1>2, WithoutOne DEF Listed
<1> HIDE DEF fl
<1>4. fl \in [Lists -> Seq(Nat)]
  BY <1>3 DEF fl
<1>5. g \in HeapType /\ g.arena = h.arena /\ g.sub = h.sub /\ g.top = h.top
      /\ g.growable = h.growable /\ g.freeList = fl
  BY <1>4 DEF HeapType
<1> HIDE DEF g
<1>6. Listed(g, S \ {a})
  <2>1. SUFFICES ASSUME NEW k \in Lists
                 PROVE  ToSet(fl[k]) = {b \in S \ {a} : ListFor(h.arena[b].size) = k}
    BY <1>3, <1>5 DEF Listed
  <2>2. ToSet(h.freeList[k]) = {b \in S : ListFor(h.arena[b].size) = k}
    BY DEF Listed
  <2> QED
    BY <1>3, <2>2
<1> QED
  BY <1>1, <1>5, <1>6

\* A block is put into the list for its size.
LEMMA InsertFields ==
    ASSUME SizeAssumption, NEW h \in HeapType, NEW S, Listed(h, S),
           NEW a \in DOMAIN h.arena, a \notin S
    PROVE  /\ Insert(h, a) \in HeapType /\ Insert(h, a).arena = h.arena
           /\ Insert(h, a).sub = h.sub /\ Insert(h, a).top = h.top
           /\ Insert(h, a).growable = h.growable
           /\ Listed(Insert(h, a), S \cup {a})
<1> DEFINE k0 == ListFor(h.arena[a].size)
           fl == [h.freeList EXCEPT ![k0] = <<a>> \o h.freeList[k0]]
           g == [h EXCEPT !.freeList = fl]
<1>1. Insert(h, a) = g
  BY DEF Insert
<1>2. h.freeList \in [Lists -> Seq(Nat)]
  BY DEF HeapType
<1>3. a \in Nat /\ k0 \in Lists
  BY BlockFields, HasList
<1>4. a \notin ToSet(h.freeList[k0])
  BY <1>3 DEF Listed
<1>5. /\ <<a>> \o h.freeList[k0] \in Seq(Nat) /\ IsInjective(<<a>> \o h.freeList[k0])
      /\ ToSet(<<a>> \o h.freeList[k0]) = ToSet(h.freeList[k0]) \cup {a}
  BY <1>2, <1>3, <1>4, WithOne DEF Listed
<1> HIDE DEF k0
<1>6. fl \in [Lists -> Seq(Nat)]
  BY <1>2, <1>3, <1>5
<1>7. g \in HeapType /\ g.arena = h.arena /\ g.sub = h.sub /\ g.top = h.top
      /\ g.growable = h.growable /\ g.freeList = fl
  <2> HIDE DEF fl
  <2> QED
    BY <1>6 DEF HeapType
<1> HIDE DEF g
<1>8. Listed(g, S \cup {a})
  <2>1. SUFFICES ASSUME NEW k \in Lists
                 PROVE  /\ ToSet(fl[k]) = {b \in S \cup {a} : ListFor(h.arena[b].size) = k}
                        /\ IsInjective(fl[k])
    BY <1>7 DEF Listed
  <2>2. /\ ToSet(h.freeList[k]) = {b \in S : ListFor(h.arena[b].size) = k}
        /\ IsInjective(h.freeList[k])
    BY DEF Listed
  <2>3. CASE k = k0
    <3>1. fl[k] = <<a>> \o h.freeList[k0]
      BY <1>2, <1>3, <2>3
    <3>2. ListFor(h.arena[a].size) = k
      BY <2>3 DEF k0
    <3> QED
      BY <1>5, <2>2, <2>3, <3>1, <3>2
  <2>4. CASE k # k0
    <3>1. fl[k] = h.freeList[k]
      BY <1>2, <2>4
    <3>2. ListFor(h.arena[a].size) # k
      BY <2>4 DEF k0
    <3> QED
      BY <2>2, <3>1, <3>2
  <2> QED
    BY <2>3, <2>4
<1> QED
  BY <1>1, <1>7, <1>8

----------------------------------------------------------------------------
(* Free blocks *)

\* Other blocks in a heap.
LEMMA WithBlocks ==
    ASSUME NEW h \in HeapType, NEW f \in Placed(Block), NEW S, Listed(h, S),
           \A a \in S : f[a].size = h.arena[a].size,
           NEW g, g = [h EXCEPT !.arena = f]
    PROVE  /\ g \in HeapType /\ g.arena = f /\ g.sub = h.sub /\ g.top = h.top
           /\ g.growable = h.growable /\ Listed(g, S)
<1>1. /\ g \in HeapType /\ g.arena = f /\ g.sub = h.sub /\ g.top = h.top
      /\ g.growable = h.growable /\ g.freeList = h.freeList
  BY DEF HeapType
<1>2. Listed(g, S)
  <2>1. \A k \in Lists : /\ ToSet(h.freeList[k]) = {a \in S : ListFor(h.arena[a].size) = k}
                         /\ IsInjective(h.freeList[k])
    BY DEF Listed
  <2>2. \A a \in S : ListFor(f[a].size) = ListFor(h.arena[a].size)
    OBVIOUS
  <2>3. \A k \in Lists : {a \in S : ListFor(h.arena[a].size) = k}
                           = {a \in S : ListFor(f[a].size) = k}
    BY <2>2
  <2> QED
    BY <1>1, <2>1, <2>3 DEF Listed
<1> QED
  BY <1>1, <1>2

\* One more at an address, or another.
LEMMA WithPlaced ==
    ASSUME NEW S, NEW f \in Placed(S), NEW x \in Nat, NEW v \in S
    PROVE  With(f, x, v) \in Placed(S)
<1>1. DOMAIN f \subseteq Nat /\ \A y \in DOMAIN f : f[y] \in S
  BY PlacedAt
<1>2. With(f, x, v) \in [DOMAIN f \cup {x} -> S]
  BY <1>1 DEF With
<1>3. DOMAIN f \cup {x} \in SUBSET Nat
  BY <1>1
<1> QED
  BY <1>2, <1>3 DEF Placed

\* One less.
LEMMA RestrictPlaced ==
    ASSUME NEW S, NEW f \in Placed(S), NEW x
    PROVE  LET r == Restrict(f, DOMAIN f \ {x}) IN
           /\ r \in Placed(S) /\ DOMAIN r = DOMAIN f \ {x}
           /\ \A y \in DOMAIN f \ {x} : r[y] = f[y]
<1>1. DOMAIN f \subseteq Nat /\ \A y \in DOMAIN f : f[y] \in S
  BY PlacedAt
<1>2. Restrict(f, DOMAIN f \ {x}) \in [DOMAIN f \ {x} -> S]
  BY <1>1 DEF Restrict
<1>3. DOMAIN f \ {x} \in SUBSET Nat
  BY <1>1
<1> QED
  BY <1>2, <1>3 DEF Restrict, Placed

\* A block goes that is in no list.
LEMMA WithoutArenaFields ==
    ASSUME NEW h \in HeapType, NEW a, NEW S, Listed(h, S), a \notin S, S \subseteq DOMAIN h.arena,
           NEW g, g = WithoutArena(h, a)
    PROVE  /\ g \in HeapType /\ DOMAIN g.arena = DOMAIN h.arena \ {a}
           /\ \A b \in DOMAIN h.arena \ {a} : g.arena[b] = h.arena[b]
           /\ g.sub = h.sub /\ g.top = h.top /\ g.growable = h.growable /\ Listed(g, S)
<1> DEFINE f == Restrict(h.arena, DOMAIN h.arena \ {a})
<1>1. g = [h EXCEPT !.arena = f]
  BY DEF WithoutArena
<1>2. h.arena \in Placed(Block)
  BY DEF HeapType
<1>3. /\ f \in Placed(Block) /\ DOMAIN f = DOMAIN h.arena \ {a}
      /\ \A b \in DOMAIN h.arena \ {a} : f[b] = h.arena[b]
  BY <1>2, RestrictPlaced
<1> HIDE DEF f
<1>4. \A b \in S : f[b].size = h.arena[b].size
  BY <1>3
<1> QED
  BY <1>1, <1>3, <1>4, WithBlocks

\* What HEAP_CreateFreeBlock leaves: a free block at a up to y, which is told of it,
\* instead of the one at n if that was free.
FreeMade(h, g, s, a, n, y, S) ==
    LET gone == IF y = n THEN {} ELSE {n} IN
    /\ g \in HeapType /\ g.sub = h.sub /\ g.top = h.top /\ g.growable = h.growable
    /\ DOMAIN g.arena = (DOMAIN h.arena \ gone) \cup {a}
    /\ g.arena[a] = [size |-> y - a - 5, free |-> TRUE, prevFree |-> FALSE, back |-> None]
    /\ y < End(h, s) => /\ g.arena[y].size = h.arena[y].size
                        /\ g.arena[y].free <=> h.arena[y].free
                        /\ g.arena[y].prevFree /\ g.arena[y].back = a
    /\ \A b \in DOMAIN g.arena :
          b \notin {a} /\ ~ (b = y /\ y < End(h, s)) => g.arena[b] = h.arena[b]
    /\ Listed(g, (S \ gone) \cup {a})

\* CreateFreeBlock makes that free block, whatever lies behind it.
LEMMA CreateFreeBlockFields ==
    ASSUME SizeAssumption, NEW h \in HeapType, NEW s \in DOMAIN h.sub,
           NEW a \in Nat, NEW size \in Nat, 5 <= size,
           NEW n, n = a + size, n < End(h, s) => n \in DOMAIN h.arena,
           NEW y, y = IF n < End(h, s) /\ h.arena[n].free THEN After(h, n) ELSE n,
           y < End(h, s) => y \in DOMAIN h.arena,
           NEW S, Listed(h, S), S \subseteq DOMAIN h.arena, a \notin S,
           NEW g, g = CreateFreeBlock(h, s, a, size)
    PROVE  FreeMade(h, g, s, a, n, y, S)
<1> DEFINE z == a + size
           merged == z < End(h, s) /\ h.arena[z].free
           gone == IF y = n THEN {} ELSE {n}
           whole == size + IF merged THEN h.arena[z].size + ARENA_FREE ELSE 0
           alone == IF merged THEN WithoutArena(Unlink(h, z), z) ELSE h
           e == a + whole
           told == IF e < End(h, s)
                   THEN [alone EXCEPT !.arena[e].prevFree = TRUE, !.arena[e].back = a]
                   ELSE alone
           block == [size |-> whole - ARENA_FREE, free |-> TRUE, prevFree |-> FALSE, back |-> None]
           put == [told EXCEPT !.arena = With(@, a, block)]
<1>1. g = Insert(put, a)
  BY DEF CreateFreeBlock
<1>2. End(h, s) \in Nat /\ n \in Nat /\ a < n
  BY SubFields
<1>3. merged => /\ n \in DOMAIN h.arena /\ h.arena[n].size \in Nat
                /\ After(h, n) = n + h.arena[n].size + 5
  BY BlockFields
<1>4. y = e /\ y \in Nat /\ n <= y /\ whole = y - a /\ (merged <=> y # n)
  <2>1. CASE merged
    <3>1. y = n + h.arena[n].size + 5 /\ whole = size + (h.arena[n].size + 5)
      BY <1>3, <2>1, Sizes
    <3> DEFINE w == h.arena[n].size
    <3>2. w \in Nat /\ y = n + w + 5 /\ whole = size + (w + 5)
      BY <1>3, <2>1, <3>1
    <3>3. a \in Nat /\ size \in Nat /\ n \in Nat /\ n = a + size
      BY <1>2
    <3> HIDE DEF whole, w
    <3>4. y = a + whole /\ y \in Nat /\ n <= y /\ whole = y - a /\ y # n
      BY ONLY <3>2, <3>3
    <3> QED
      BY <2>1, <3>4
  <2>2. CASE ~merged
    <3>1. y = n /\ whole = size
      BY <2>2
    <3> HIDE DEF whole
    <3> QED
      BY <1>2, <2>2, <3>1
  <2> QED
    BY <2>1, <2>2
<1>5. /\ alone \in HeapType /\ DOMAIN alone.arena = DOMAIN h.arena \ gone
      /\ \A b \in DOMAIN alone.arena : alone.arena[b] = h.arena[b]
      /\ alone.sub = h.sub /\ alone.top = h.top /\ alone.growable = h.growable
      /\ Listed(alone, S \ gone)
  <2>1. CASE ~merged
    <3>1. gone = {} /\ alone = h /\ S \ gone = S /\ DOMAIN h.arena \ gone = DOMAIN h.arena
      BY <1>4, <2>1
    <3> HIDE DEF gone, alone
    <3> QED
      BY <3>1
  <2>2. CASE merged
    <3> DEFINE u == Unlink(h, n)
    <3>1. gone = {n} /\ alone = WithoutArena(u, n)
      <4>1. z = n
        OBVIOUS
      <4> QED
        BY <1>4, <2>2, <4>1
    <3>2. /\ u \in HeapType /\ u.arena = h.arena /\ u.sub = h.sub /\ u.top = h.top
          /\ u.growable = h.growable /\ Listed(u, S \ {n})
      BY UnlinkFields
    <3> HIDE DEF gone, alone, u
    <3>3. n \notin S \ {n} /\ S \ {n} \subseteq DOMAIN u.arena
      BY <3>2
    <3>4. /\ alone \in HeapType /\ DOMAIN alone.arena = DOMAIN u.arena \ {n}
          /\ \A b \in DOMAIN u.arena \ {n} : alone.arena[b] = u.arena[b]
          /\ alone.sub = u.sub /\ alone.top = u.top /\ alone.growable = u.growable
          /\ Listed(alone, S \ {n})
      BY <3>1, <3>2, <3>3, WithoutArenaFields
    <3> QED
      BY <3>1, <3>2, <3>4
  <2> HIDE DEF merged, alone, gone
  <2> QED
    BY <2>1, <2>2
<1> HIDE DEF alone
<1>6. /\ told \in HeapType /\ DOMAIN told.arena = DOMAIN alone.arena
      /\ y < End(h, s) => /\ told.arena[y].size = h.arena[y].size
                          /\ told.arena[y].free <=> h.arena[y].free
                          /\ told.arena[y].prevFree /\ told.arena[y].back = a
      /\ \A b \in DOMAIN told.arena : ~ (b = y /\ y < End(h, s)) => told.arena[b] = h.arena[b]
      /\ told.sub = h.sub /\ told.top = h.top /\ told.growable = h.growable
      /\ Listed(told, S \ gone)
  <2>1. CASE ~ (y < End(h, s))
    <3>1. told = alone
      BY <1>4, <2>1
    <3> HIDE DEF told, gone
    <3> QED
      BY <1>5, <2>1, <3>1
  <2>2. CASE y < End(h, s)
    <3> DEFINE f == [alone.arena EXCEPT ![y].prevFree = TRUE, ![y].back = a]
    <3>1. y \in DOMAIN alone.arena
      BY <1>4, <1>5, <2>2
    <3>2. told = [alone EXCEPT !.arena = f]
      BY <1>4, <1>5, <2>2, <3>1 DEF HeapType
    <3>3. alone.arena \in Placed(Block)
      BY <1>5 DEF HeapType
    <3>4. alone.arena[y] \in Block
      BY <3>1, <3>3, PlacedAt
    <3>5. /\ f \in Placed(Block) /\ DOMAIN f = DOMAIN alone.arena
          /\ f[y].size = alone.arena[y].size /\ (f[y].free <=> alone.arena[y].free)
          /\ f[y].prevFree /\ f[y].back = a
          /\ \A b \in DOMAIN f : b # y => f[b] = alone.arena[b]
      <4>1. f = [alone.arena EXCEPT ![y] = [alone.arena[y] EXCEPT !.prevFree = TRUE, !.back = a]]
        BY <3>1
      <4> DEFINE v == [alone.arena[y] EXCEPT !.prevFree = TRUE, !.back = a]
      <4>2. /\ v \in Block /\ v.size = alone.arena[y].size /\ (v.free <=> alone.arena[y].free)
            /\ v.prevFree /\ v.back = a
        BY <3>4 DEF Block
      <4> HIDE DEF v, f
      <4>3. f = [alone.arena EXCEPT ![y] = v]
        BY <4>1 DEF v
      <4>4. f \in Placed(Block)
        BY <3>1, <3>3, <4>2, <4>3 DEF Placed
      <4>5. DOMAIN f = DOMAIN alone.arena /\ f[y] = v /\ \A b \in DOMAIN f : b # y => f[b] = alone.arena[b]
        BY <3>1, <4>3
      <4> QED
        BY <4>2, <4>4, <4>5
    <3> HIDE DEF f, told, gone
    <3>6. \A b \in S \ gone : f[b].size = alone.arena[b].size
      <4>1. S \ gone \subseteq DOMAIN f
        BY <1>5, <3>5
      <4> QED
        BY <3>5, <4>1
    <3>7. /\ told \in HeapType /\ told.arena = f /\ told.sub = alone.sub /\ told.top = alone.top
          /\ told.growable = alone.growable /\ Listed(told, S \ gone)
      BY <1>5, <3>2, <3>5, <3>6, WithBlocks, SMTT(20)
    <3>8. alone.arena[y] = h.arena[y]
      BY <1>5, <3>1
    <3>9. /\ told.arena[y].size = h.arena[y].size
          /\ told.arena[y].free <=> h.arena[y].free
          /\ told.arena[y].prevFree /\ told.arena[y].back = a
      BY <3>5, <3>7, <3>8
    <3>10. \A b \in DOMAIN told.arena : b # y => told.arena[b] = h.arena[b]
      BY <1>5, <3>5, <3>7
    <3> QED
      BY <1>5, <2>2, <3>5, <3>7, <3>9, <3>10
  <2> QED
    BY <2>1, <2>2
<1> HIDE DEF told
<1>7. /\ put \in HeapType /\ DOMAIN put.arena = DOMAIN told.arena \cup {a}
      /\ put.arena[a] = block /\ \A b \in DOMAIN told.arena : b # a => put.arena[b] = told.arena[b]
      /\ put.sub = told.sub /\ put.top = told.top /\ put.growable = told.growable
      /\ Listed(put, S \ gone)
  <2> DEFINE f == With(told.arena, a, block)
  <2>1. put = [told EXCEPT !.arena = f]
    BY <1>6 DEF HeapType
  <2>2. block \in Block
    <3>1. whole - ARENA_FREE \in Nat
      <4> HIDE DEF whole
      <4> QED
        BY <1>2, <1>4, Sizes, SMTT(20)
    <3> HIDE DEF whole
    <3> QED
      BY <3>1 DEF Block
  <2>3. told.arena \in Placed(Block)
    BY <1>6 DEF HeapType
  <2> HIDE DEF block, gone, put
  <2>4. /\ f \in Placed(Block) /\ DOMAIN f = DOMAIN told.arena \cup {a} /\ f[a] = block
        /\ \A b \in DOMAIN told.arena \ {a} : f[b] = told.arena[b]
    <3> HIDE DEF f
    <3>1. f \in Placed(Block)
      BY <2>2, <2>3, WithPlaced DEF f
    <3>2. /\ DOMAIN f = DOMAIN told.arena \cup {a} /\ f[a] = block
          /\ \A b \in DOMAIN told.arena : b # a => f[b] = told.arena[b]
      BY DEF f, With
    <3> QED
      BY <3>1, <3>2
  <2> HIDE DEF f
  <2>5. \A b \in S \ gone : f[b].size = told.arena[b].size
    <3>1. S \ gone \subseteq DOMAIN told.arena \ {a}
      BY <1>5, <1>6
    <3> QED
      BY <2>4, <3>1
  <2>6. /\ put \in HeapType /\ put.arena = f /\ put.sub = told.sub /\ put.top = told.top
        /\ put.growable = told.growable /\ Listed(put, S \ gone)
    BY <1>6, <2>1, <2>4, <2>5, WithBlocks
  <2> QED
    BY <2>4, <2>6
<1> HIDE DEF put
<1>8. /\ g \in HeapType /\ g.arena = put.arena /\ g.sub = put.sub /\ g.top = put.top
      /\ g.growable = put.growable /\ Listed(g, (S \ gone) \cup {a})
  <2>1. a \in DOMAIN put.arena /\ a \notin S \ gone
    BY <1>7
  <2> DEFINE T == S \ gone
  <2>2. put \in HeapType /\ Listed(put, T) /\ a \notin T
    BY <1>7
  <2> HIDE DEF gone, block, T
  <2>3. /\ Insert(put, a) \in HeapType /\ Insert(put, a).arena = put.arena
        /\ Insert(put, a).sub = put.sub /\ Insert(put, a).top = put.top
        /\ Insert(put, a).growable = put.growable
        /\ Listed(Insert(put, a), T \cup {a})
    BY <2>1, <2>2, InsertFields
  <2> QED
    BY <1>1, <2>3 DEF T
<1>9. block = [size |-> y - a - 5, free |-> TRUE, prevFree |-> FALSE, back |-> None]
  BY <1>4, Sizes
<1>10. y < End(h, s) => y # a /\ y \in DOMAIN put.arena
  BY <1>2, <1>4, <1>5, <1>6, <1>7
<1>11. DOMAIN g.arena = (DOMAIN h.arena \ gone) \cup {a}
  BY <1>5, <1>6, <1>7, <1>8
<1> HIDE DEF block
<1>12. \A b \in DOMAIN g.arena : b # a => b \in DOMAIN told.arena /\ g.arena[b] = told.arena[b]
  BY <1>7, <1>8
<1>13. y < End(h, s) => y \in DOMAIN told.arena /\ g.arena[y] = told.arena[y]
  BY <1>7, <1>8, <1>10
<1> HIDE DEF gone
<1>14. /\ g.arena[a] = [size |-> y - a - 5, free |-> TRUE, prevFree |-> FALSE, back |-> None]
       /\ y < End(h, s) => /\ g.arena[y].size = h.arena[y].size
                           /\ g.arena[y].free <=> h.arena[y].free
                           /\ g.arena[y].prevFree /\ g.arena[y].back = a
       /\ \A b \in DOMAIN g.arena : b \notin {a} /\ ~ (b = y /\ y < End(h, s))
                                      => g.arena[b] = h.arena[b]
  BY <1>6, <1>7, <1>8, <1>9, <1>12, <1>13
<1>15. g.sub = h.sub /\ g.top = h.top /\ g.growable = h.growable
  BY <1>6, <1>7, <1>8
<1> QED
  BY <1>8, <1>11, <1>14, <1>15 DEF FreeMade, gone

----------------------------------------------------------------------------
(* What is freed *)

InUse(h) == {a \in DOMAIN h.arena : ~h.arena[a].free}

\* A heap is whole after blocks were made anew and are listed.
LEMMA RebuiltWhole ==
    ASSUME SizeAssumption, NEW h, Whole(h), NEW g \in HeapType, SameSubs(h, g), SubsApart(g),
           NEW s, NEW x, NEW y, NEW m, Region(h, s, x, y), Rebuilt(h, g, x, y, m),
           Listed(g, FreeBlocks(g))
    PROVE  Whole(g)
<1>1. h \in HeapType /\ SubsApart(h) /\ Filled(h) /\ Flagged(h)
  BY DEF Whole
<1>2. Filled(g)
  BY <1>1, RebuiltFilled
<1>3. Flagged(g)
  BY <1>1, RebuiltFlagged
<1> QED
  BY <1>2, <1>3 DEF Whole

\* A heap with the same sub-heaps.
LEMMA SubsSame ==
    ASSUME NEW h, NEW g, g.sub = h.sub
    PROVE  /\ \A s : End(g, s) = End(h, s) /\ First(g, s) = First(h, s)
           /\ SameSubs(h, g)
           /\ SubsApart(h) /\ h.top <= g.top /\ h.top \in Nat /\ g.top \in Nat
                /\ (\A s \in DOMAIN h.sub : End(h, s) \in Nat) => SubsApart(g)
<1>1. \A s : End(g, s) = End(h, s) /\ First(g, s) = First(h, s)
  BY DEF End, First
<1>2. SameSubs(h, g)
  BY <1>1 DEF SameSubs
<1>3. ASSUME SubsApart(h), h.top <= g.top, h.top \in Nat, g.top \in Nat,
             \A s \in DOMAIN h.sub : End(h, s) \in Nat
      PROVE  SubsApart(g)
  <2>1. \A s \in DOMAIN h.sub : End(h, s) <= g.top
    BY <1>3 DEF SubsApart
  <2> QED
    BY <1>1, <1>3, <2>1 DEF SubsApart
<1> QED
  BY <1>1, <1>2, <1>3

\* The block behind another is in the same sub-heap, and the one behind that begins
\* where it ends.
LEMMA NextPlace ==
    ASSUME SizeAssumption, NEW h, Whole(h), NEW a \in DOMAIN h.arena,
           NEW s, s = FindSubHeap(h, a), NEW n, n = After(h, a)
    PROVE  /\ s \in DOMAIN h.sub /\ s \in Nat /\ First(h, s) \in Nat /\ End(h, s) \in Nat
           /\ First(h, s) <= a /\ n <= End(h, s) /\ n \in Nat /\ a \in Nat /\ a + 4 <= n
           /\ n < End(h, s) => n \in DOMAIN h.arena
           /\ n \in DOMAIN h.arena => /\ n < End(h, s) /\ FindSubHeap(h, n) = s
           /\ n \notin DOMAIN h.arena => n = End(h, s)
           /\ \A b \in DOMAIN h.arena : a < b => n <= b
<1>1. h \in HeapType /\ SubsApart(h) /\ Filled(h)
  BY DEF Whole
<1>2. /\ s \in DOMAIN h.sub /\ First(h, s) <= a /\ n <= End(h, s)
      /\ n \in DOMAIN h.arena <=> n < End(h, s)
      /\ n \notin DOMAIN h.arena <=> n = End(h, s)
  BY <1>1, BlockPlace
<1>3. s \in Nat /\ First(h, s) \in Nat /\ s < First(h, s) /\ End(h, s) \in Nat
  BY <1>1, <1>2, SubFields
<1>4. a \in Nat /\ n \in Nat /\ a + 4 <= n
  BY <1>1, BlockFields
<1>5. n \in DOMAIN h.arena => FindSubHeap(h, n) = s
  <2>1. n \in DOMAIN h.arena => s <= n /\ n < End(h, s)
    BY <1>2, <1>3, <1>4
  <2> QED
    BY <1>1, <1>2, <1>4, <2>1, SubFound
<1>6. \A b \in DOMAIN h.arena : a < b => n <= b
  BY <1>1 DEF Filled
<1> QED
  BY <1>2, <1>3, <1>4, <1>5, <1>6

\* The free block that a block in use is made part of begins here,
Left(h, a) == IF h.arena[a].prevFree THEN h.arena[a].back ELSE a

\* and this is the heap then, before its end is released.
Freed(h, s, a) ==
    LET size == h.arena[a].size + ARENA_INUSE
        prev == h.arena[a].back
    IN  IF h.arena[a].prevFree
        THEN CreateFreeBlock(WithoutArena(Unlink(h, prev), a), s, prev,
                             size + h.arena[prev].size + ARENA_FREE)
        ELSE CreateFreeBlock(h, s, a, size)

\* The free block that a block in use becomes, with the free ones around it.
LEMMA FreedRebuilt ==
    ASSUME SizeAssumption, NEW h, Whole(h), NEW a \in InUse(h), 7 <= h.arena[a].size,
           NEW s, s = FindSubHeap(h, a), NEW x, x = Left(h, a), NEW g, g = Freed(h, s, a)
    PROVE  /\ \E y : Region(h, s, x, y) /\ Rebuilt(h, g, x, y, x)
           /\ g \in HeapType /\ g.sub = h.sub /\ g.top = h.top /\ g.growable = h.growable
           /\ x \in DOMAIN h.arena /\ x \in DOMAIN g.arena /\ g.arena[x].free
           /\ Listed(g, FreeBlocks(g))
           /\ InUse(g) = InUse(h) \ {a}
           /\ \A b \in InUse(g) : g.arena[b].size = h.arena[b].size
<1> DEFINE D == DOMAIN h.arena
           n == After(h, a)
           S == FreeBlocks(h) \ {x}
           h1 == IF h.arena[a].prevFree THEN WithoutArena(Unlink(h, x), a) ELSE h
           size == n - x
<1>1. h \in HeapType /\ SubsApart(h) /\ Filled(h) /\ Flagged(h) /\ Listed(h, FreeBlocks(h))
  BY DEF Whole
<1>2. a \in D /\ ~h.arena[a].free
  BY DEF InUse
<1>3. /\ s \in DOMAIN h.sub /\ s \in Nat /\ First(h, s) \in Nat /\ End(h, s) \in Nat
      /\ First(h, s) <= a /\ n <= End(h, s) /\ n \in Nat /\ a \in Nat /\ a + 4 <= n
      /\ n < End(h, s) => n \in D
      /\ n \in D => /\ n < End(h, s) /\ FindSubHeap(h, n) = s
      /\ n \notin D => n = End(h, s)
      /\ \A b \in D : a < b => n <= b
  BY <1>2, NextPlace
<1>4. h.arena[a].size \in Nat /\ n = a + h.arena[a].size + 4
  BY <1>1, <1>2, BlockFields
<1> HIDE DEF n
<1>5. /\ x \in D /\ x \in Nat /\ x <= a /\ First(h, s) <= x
      /\ \A b \in D : x < b => a <= b
      /\ x = a \/ (h.arena[a].prevFree /\ x = h.arena[a].back /\ h.arena[x].free
                     /\ After(h, x) = a /\ a = x + h.arena[x].size + 5 /\ h.arena[x].size \in Nat)
      /\ ~h.arena[x].prevFree
  <2>1. CASE ~h.arena[a].prevFree
    <3>1. x = a
      BY <2>1 DEF Left
    <3> QED
      BY <1>1, <1>2, <1>3, <2>1, <3>1, BlockFields
  <2>2. CASE h.arena[a].prevFree
    <3>1. x = h.arena[a].back
      BY <2>2 DEF Left
    <3>2. x \in D /\ h.arena[x].free /\ After(h, x) = a
      BY <1>1, <1>2, <2>2, <3>1 DEF Flagged
    <3>3. x \in Nat /\ h.arena[x].size \in Nat /\ a = x + h.arena[x].size + 5
      BY <1>1, <3>2, BlockFields
    <3>4. \A b \in D : x < b => a <= b
      BY <1>1, <3>2 DEF Filled
    <3>5. First(h, s) <= x
      <4> DEFINE u == FindSubHeap(h, x)
      <4>1. /\ u \in DOMAIN h.sub /\ u \in Nat /\ First(h, u) \in Nat /\ First(h, u) <= x
            /\ a \in D => FindSubHeap(h, a) = u
        <5> HIDE DEF u, D
        <5> QED
          BY <3>2, NextPlace DEF u, D
      <4> QED
        BY <1>2, <4>1
    <3>6. ~h.arena[x].prevFree
      <4>1. SUFFICES ASSUME h.arena[x].prevFree
                     PROVE  FALSE
        OBVIOUS
      <4> DEFINE w == h.arena[x].back
      <4>2. w \in D /\ h.arena[w].free /\ After(h, w) = x
        BY <1>1, <3>2, <4>1 DEF Flagged
      <4> HIDE DEF w
      <4>3. ~h.arena[x].free
        BY <1>1, <3>2, <4>2 DEF Flagged
      <4> QED
        BY <3>2, <4>3
    <3>7. x <= a
      BY <1>3, <3>3, SMTT(20)
    <3> QED
      BY <2>2, <3>1, <3>2, <3>3, <3>4, <3>5, <3>6, <3>7
  <2> QED
    BY <2>1, <2>2
<1>6. Region(h, s, x, n)
  BY <1>3, <1>5 DEF Region
<1>7. /\ h1 \in HeapType /\ h1.sub = h.sub /\ h1.top = h.top /\ h1.growable = h.growable
      /\ DOMAIN h1.arena = D \ ({a} \ {x})
      /\ \A b \in DOMAIN h1.arena : h1.arena[b] = h.arena[b]
      /\ Listed(h1, S) /\ S \subseteq DOMAIN h1.arena /\ x \notin S
  <2>1. CASE ~h.arena[a].prevFree
    <3>1. h1 = h /\ x = a
      BY <2>1 DEF Left
    <3>2. S = FreeBlocks(h) /\ S \subseteq D
      BY <1>2, <3>1 DEF FreeBlocks
    <3> HIDE DEF h1, S
    <3> QED
      BY <1>1, <1>2, <3>1, <3>2 DEF FreeBlocks
  <2>2. CASE h.arena[a].prevFree
    <3> DEFINE u == Unlink(h, x)
    <3>1. /\ u \in HeapType /\ u.arena = h.arena /\ u.sub = h.sub /\ u.top = h.top
          /\ u.growable = h.growable /\ Listed(u, S)
      BY <1>1, UnlinkFields
    <3>2. h1 = WithoutArena(u, a)
      BY <2>2
    <3>3. a \notin S /\ S \subseteq DOMAIN u.arena
      BY <1>2, <3>1 DEF FreeBlocks
    <3>4. x # a
      BY <1>2, <1>5, <2>2 DEF Left
    <3>5. x \notin S /\ S \subseteq D \ {a}
      BY <1>2, <3>3 DEF FreeBlocks
    <3> HIDE DEF u, h1, S
    <3>6. /\ h1 \in HeapType /\ DOMAIN h1.arena = DOMAIN u.arena \ {a}
          /\ \A b \in DOMAIN u.arena \ {a} : h1.arena[b] = u.arena[b]
          /\ h1.sub = u.sub /\ h1.top = u.top /\ h1.growable = u.growable /\ Listed(h1, S)
      BY <3>1, <3>2, <3>3, WithoutArenaFields
    <3>7. D \ ({a} \ {x}) = D \ {a}
      BY <3>4
    <3> QED
      BY <3>1, <3>5, <3>6, <3>7
  <2> QED
    BY <2>1, <2>2
<1>8. g = CreateFreeBlock(h1, s, x, size) /\ size \in Nat /\ 5 <= size /\ n = x + size
  <2> DEFINE p == h.arena[a].size
             q == h.arena[x].size
  <2>1. size \in Nat /\ 5 <= size /\ n = x + size
    <3>1. p \in Nat /\ 7 <= p /\ n = a + p + 4
      BY <1>4
    <3>2. a \in Nat /\ x \in Nat /\ x <= a
      BY <1>3, <1>5
    <3> HIDE DEF p
    <3> QED
      BY <3>1, <3>2
  <2>2. CASE ~h.arena[a].prevFree
    <3>1. x = a /\ h1 = h
      BY <2>2 DEF Left
    <3>2. size = h.arena[a].size + ARENA_INUSE
      <4>1. p \in Nat /\ a \in Nat /\ n = a + p + 4
        BY <1>3, <1>4
      <4>2. size = p + ARENA_INUSE
        <5> HIDE DEF p
        <5> QED
          BY <3>1, <4>1, Sizes
      <4> QED
        BY <4>2
    <3>3. g = CreateFreeBlock(h, s, a, h.arena[a].size + ARENA_INUSE)
      BY <2>2 DEF Freed
    <3> HIDE DEF size, h1
    <3> QED
      BY <2>1, <3>1, <3>2, <3>3
  <2>3. CASE h.arena[a].prevFree
    <3>1. x = h.arena[a].back /\ x # a
      BY <1>2, <1>5, <2>3 DEF Left
    <3>2. size = h.arena[a].size + ARENA_INUSE + h.arena[x].size + ARENA_FREE
      <4>1. p \in Nat /\ a \in Nat /\ n = a + p + 4
        BY <1>3, <1>4
      <4>2. q \in Nat /\ x \in Nat /\ a = x + q + 5
        BY <1>5, <3>1
      <4>3. size = p + ARENA_INUSE + q + ARENA_FREE
        <5> HIDE DEF p, q
        <5> QED
          BY <4>1, <4>2 DEF ARENA_INUSE, ARENA_FREE
      <4> QED
        BY <4>3
    <3>3. g = CreateFreeBlock(h1, s, x, h.arena[a].size + ARENA_INUSE + h.arena[x].size + ARENA_FREE)
      BY <2>3, <3>1 DEF Freed
    <3> HIDE DEF size, h1
    <3> QED
      BY <2>1, <3>2, <3>3
  <2> QED
    BY <2>2, <2>3
<1> DEFINE y == IF n < End(h1, s) /\ h1.arena[n].free THEN After(h1, n) ELSE n
           gone == IF y = n THEN {} ELSE {n}
<1>9. /\ End(h1, s) = End(h, s) /\ s \in DOMAIN h1.sub
      /\ n < End(h, s) => n \in DOMAIN h1.arena
  <2> HIDE DEF h1, S
  <2>1. h1.sub = h.sub
    BY <1>7
  <2>2. End(h1, s) = End(h, s)
    BY <2>1, SubsSame
  <2>3. n < End(h, s) => n \in D /\ n # a
    BY <1>3
  <2> QED
    BY <1>3, <1>7, <2>1, <2>2, <2>3
<1>10. \/ y = n /\ (n \in D => ~h.arena[n].free)
       \/ n \in D /\ h.arena[n].free /\ y = After(h, n) /\ n < y
  <2> HIDE DEF h1
  <2>1. n \in DOMAIN h1.arena => h1.arena[n] = h.arena[n] /\ After(h1, n) = After(h, n)
    BY <1>7 DEF After
  <2>2. n \in D => n \in DOMAIN h1.arena /\ n < End(h1, s)
    BY <1>3, <1>7, <1>9
  <2>3. n \in D => n < After(h, n)
    BY <1>1, <1>3, BlockFields
  <2> QED
    BY <1>7, <1>9, <2>1, <2>2, <2>3
<1>11. /\ y \in Nat /\ n <= y /\ y <= End(h, s)
       /\ (y < End(h, s) => y \in D) /\ (y \notin D => y = End(h, s))
       /\ (y \in D => y < End(h, s) /\ ~h.arena[y].free)
       /\ (y # n => \A b \in D : n < b => y <= b)
  <2> HIDE DEF y
  <2>1. CASE y = n /\ (n \in D => ~h.arena[n].free)
    BY <1>3, <2>1
  <2>2. CASE n \in D /\ h.arena[n].free /\ y = After(h, n) /\ n < y
    <3>1. /\ y \in Nat /\ y <= End(h, s) /\ (y < End(h, s) => y \in D)
          /\ (y \in D => y < End(h, s)) /\ (y \notin D => y = End(h, s))
          /\ \A b \in D : n < b => y <= b
      <4> DEFINE u == FindSubHeap(h, n)
      <4>1. u = s
        BY <1>3, <2>2
      <4> HIDE DEF D
      <4>2. /\ y <= End(h, u) /\ y \in Nat /\ (y < End(h, u) => y \in D)
            /\ (y \in D => y < End(h, u)) /\ (y \notin D => y = End(h, u))
            /\ \A b \in D : n < b => y <= b
        <5> HIDE DEF u
        <5> QED
          BY <2>2, NextPlace DEF u, D
      <4> HIDE DEF u
      <4> QED
        BY <4>1, <4>2
    <3>2. y \in D => ~h.arena[y].free
      BY <1>1, <2>2 DEF Flagged
    <3> QED
      BY <1>3, <2>2, <3>1, <3>2
  <2> QED
    BY <1>10, <2>1, <2>2
<1>12. /\ g \in HeapType /\ g.sub = h.sub /\ g.top = h.top /\ g.growable = h.growable
       /\ DOMAIN g.arena = ((D \ ({a} \ {x})) \ gone) \cup {x}
       /\ g.arena[x] = [size |-> y - x - 5, free |-> TRUE, prevFree |-> FALSE, back |-> None]
       /\ y < End(h, s) => /\ g.arena[y].size = h.arena[y].size
                           /\ g.arena[y].free <=> h.arena[y].free
                           /\ g.arena[y].prevFree /\ g.arena[y].back = x
       /\ \A b \in DOMAIN g.arena : b # x /\ ~ (b = y /\ y < End(h, s)) => g.arena[b] = h.arena[b]
       /\ Listed(g, (S \ gone) \cup {x})
  <2>1. y < End(h1, s) => y \in DOMAIN h1.arena /\ h1.arena[y] = h.arena[y]
    <3> HIDE DEF h1, y
    <3> QED
      BY <1>3, <1>5, <1>7, <1>9, <1>11
  <2>2. n < End(h1, s) => n \in DOMAIN h1.arena
    <3> HIDE DEF h1
    <3> QED
      BY <1>9
  <2>3. /\ g \in HeapType /\ g.sub = h1.sub /\ g.top = h1.top /\ g.growable = h1.growable
        /\ DOMAIN g.arena = (DOMAIN h1.arena \ gone) \cup {x}
        /\ g.arena[x] = [size |-> y - x - 5, free |-> TRUE, prevFree |-> FALSE, back |-> None]
        /\ y < End(h1, s) => /\ g.arena[y].size = h1.arena[y].size
                             /\ g.arena[y].free <=> h1.arena[y].free
                             /\ g.arena[y].prevFree /\ g.arena[y].back = x
        /\ \A b \in DOMAIN g.arena : b \notin {x} /\ ~ (b = y /\ y < End(h1, s))
                                         => g.arena[b] = h1.arena[b]
        /\ Listed(g, (S \ gone) \cup {x})
    <3>1. y = IF n < End(h1, s) /\ h1.arena[n].free THEN After(h1, n) ELSE n
      OBVIOUS
    <3>2. y < End(h1, s) => y \in DOMAIN h1.arena
      BY <2>1
    <3>3. FreeMade(h1, g, s, x, n, y, S)
      <4> HIDE DEF h1, y, S, size
      <4> QED
        BY <1>5, <1>7, <1>8, <1>9, <2>2, <3>1, <3>2, CreateFreeBlockFields
    <3> HIDE DEF h1, y, S
    <3> QED
      BY <3>3 DEF FreeMade
  <2> HIDE DEF h1, y, S, gone
  <2> QED
    BY <1>7, <1>9, <2>1, <2>3
<1> HIDE DEF h1, y
<1>13. Region(h, s, x, y)
  BY <1>3, <1>5, <1>11 DEF Region
<1>14. DOMAIN g.arena = {b \in D : b <= x \/ y <= b} \cup {x}
  <2>1. \A b \in D : b \in Nat
    BY <1>1, BlockFields
  <2>2. ASSUME NEW b \in D, b # x
        PROVE  b \in (D \ ({a} \ {x})) \ gone <=> b <= x \/ y <= b
    <3>1. b \in Nat
      BY <2>1
    <3>2. b < x \/ b = a \/ b = n \/ (a < b /\ n < b)
      BY <1>3, <1>5, <2>2, <3>1
    <3>3. CASE b < x
      BY <1>3, <1>5, <1>11, <3>1, <3>3
    <3>4. CASE b = a
      BY <1>3, <1>5, <1>11, <2>2, <3>4
    <3>5. CASE b = n
      BY <1>3, <1>5, <1>11, <3>5
    <3>6. CASE a < b /\ n < b
      <4>1. y <= b
        BY <1>3, <1>11, <3>1, <3>6
      <4>2. b # a /\ b # n
        BY <1>3, <3>1, <3>6
      <4> QED
        BY <4>1, <4>2
    <3> QED
      BY <3>2, <3>3, <3>4, <3>5, <3>6
  <2> HIDE DEF gone, D
  <2> QED
    BY <1>5, <1>12, <2>2
<1>15. Rebuilt(h, g, x, y, x)
  <2>1. After(g, x) = y
    BY <1>3, <1>5, <1>11, <1>12, Sizes DEF After
  <2>2. g.arena[x].free /\ ~g.arena[x].prevFree
    BY <1>12
  <2>3. y \in D => /\ g.arena[y].size = h.arena[y].size
                   /\ g.arena[y].free <=> h.arena[y].free
                   /\ g.arena[y].prevFree /\ g.arena[y].back = x /\ ~h.arena[y].free
    BY <1>11, <1>12
  <2>4. \A b \in DOMAIN g.arena \ {x, y} : g.arena[b] = h.arena[b]
    BY <1>12
  <2> QED
    BY <1>5, <1>14, <2>1, <2>2, <2>3, <2>4 DEF Rebuilt
<1>16. x \in DOMAIN g.arena /\ g.arena[x].free
  BY <1>12
<1>17. \A b \in DOMAIN g.arena : b # x =>
           /\ b \in D \ {a} /\ b \notin gone /\ (g.arena[b].free <=> h.arena[b].free)
           /\ g.arena[b].size = h.arena[b].size
  <2> HIDE DEF gone
  <2>1. \A b \in DOMAIN g.arena : b # x => b \in D \ {a} /\ b \notin gone
    BY <1>12
  <2> QED
    BY <1>11, <1>12, <2>1
<1>18. \A b \in D : b \notin {a, x} /\ b \notin gone => b \in DOMAIN g.arena
  <2> HIDE DEF gone
  <2> QED
    BY <1>12
<1>19. gone \subseteq FreeBlocks(h)
  BY <1>10, <1>11 DEF FreeBlocks
<1> HIDE DEF gone
<1>20. FreeBlocks(g) = (S \ gone) \cup {x}
  BY <1>2, <1>16, <1>17, <1>18 DEF FreeBlocks
<1>21. x = a \/ x \notin InUse(h)
  BY <1>5 DEF InUse
<1>22. InUse(g) = InUse(h) \ {a}
  BY <1>16, <1>17, <1>18, <1>19, <1>21 DEF InUse, FreeBlocks
<1>23. \A b \in InUse(g) : g.arena[b].size = h.arena[b].size
  BY <1>16, <1>17 DEF InUse
<1>24. Listed(g, FreeBlocks(g))
  BY <1>12, <1>20
<1> QED
  BY <1>5, <1>12, <1>13, <1>15, <1>16, <1>22, <1>23, <1>24

----------------------------------------------------------------------------
(* What is released *)

\* These blocks in use keep their size and, as far as they reach, stay committed.
Kept(h, g, B) ==
    /\ B \subseteq InUse(g)
    /\ \A b \in B :
          /\ g.arena[b].size = h.arena[b].size
          /\ \A u \in Nat : u <= After(h, b) /\ u <= CommittedTo(h, b) => u <= CommittedTo(g, b)

\* A heap after another, of which these blocks are in use still and no others are.
Follows(h, g, B) ==
    /\ Whole(g) /\ InUse(g) = B /\ Kept(h, g, B) /\ g.top = h.top /\ g.growable = h.growable

\* The arenas of the free blocks are in committed memory.
FreeCommitted(h) == \A b \in FreeBlocks(h) : b + 5 <= CommittedTo(h, b)

\* No block becomes free, and arenas of free blocks stay committed.
FreeKept(h, g) ==
    \A b \in FreeBlocks(g) :
        b \in FreeBlocks(h) /\ (b + 5 <= CommittedTo(h, b) => b + 5 <= CommittedTo(g, b))

\* A sub-heap is found for the same reason.
LEMMA FoundSame ==
    ASSUME NEW h, NEW g, g.sub = h.sub
    PROVE  /\ \A a : FindSubHeap(g, a) = FindSubHeap(h, a)
           /\ \A a : CommittedTo(g, a) = CommittedTo(h, a)
BY DEF FindSubHeap, End, CommittedTo

\* Less of a sub-heap is committed, or more.
Recommitted(h, s, c) == [h EXCEPT !.sub[s].commitSize = c]

CommitMade(h, g, s, c) ==
    /\ Whole(g) /\ g.arena = h.arena /\ g.top = h.top /\ g.growable = h.growable
    /\ g.freeList = h.freeList
    /\ SameSubs(h, g) /\ g.sub[s].commitSize = c
    /\ \A t \in DOMAIN h.sub : t # s => g.sub[t] = h.sub[t]
    /\ \A a \in DOMAIN h.arena : FindSubHeap(g, a) = FindSubHeap(h, a)

\* As long as whole pages of the sub-heap are committed, the heap stays whole.
LEMMA CommitFields ==
    ASSUME SizeAssumption, NEW h, Whole(h), NEW s \in DOMAIN h.sub,
           NEW c \in Nat, c <= h.sub[s].size, c % Page = 0,
           NEW g, g = Recommitted(h, s, c)
    PROVE  CommitMade(h, g, s, c)
<1>1. h \in HeapType /\ SubsApart(h) /\ Filled(h) /\ Flagged(h) /\ Listed(h, FreeBlocks(h))
  BY DEF Whole
<1> DEFINE v == [h.sub[s] EXCEPT !.commitSize = c]
           f == [h.sub EXCEPT ![s] = v]
<1>2. g = [h EXCEPT !.sub = f]
  BY DEF Recommitted
<1>3. h.sub \in Placed(SubHeap) /\ h.sub[s] \in SubHeap
  BY <1>1, SubFields DEF HeapType
<1>4. v \in SubHeap /\ v.commitSize = c /\ v.size = h.sub[s].size /\ v.headerSize = h.sub[s].headerSize
  BY <1>3 DEF SubHeap
<1> HIDE DEF v
<1>5. f \in Placed(SubHeap)
  BY <1>3, <1>4 DEF Placed
<1>6. DOMAIN f = DOMAIN h.sub /\ f[s] = v /\ \A t \in DOMAIN h.sub : t # s => f[t] = h.sub[t]
  OBVIOUS
<1> HIDE DEF f
<1>7. /\ g \in HeapType /\ g.arena = h.arena /\ g.top = h.top /\ g.growable = h.growable
      /\ g.freeList = h.freeList /\ g.sub = f
  BY <1>1, <1>2, <1>5 DEF HeapType
<1>8. \A t \in DOMAIN h.sub : g.sub[t].size = h.sub[t].size /\ g.sub[t].headerSize = h.sub[t].headerSize
  BY <1>4, <1>6, <1>7
<1>9. SameSubs(h, g)
  BY <1>6, <1>7, <1>8 DEF SameSubs, End, First
<1>10. SubsApart(g)
  <2>1. SUFFICES ASSUME NEW t \in DOMAIN h.sub
                 PROVE  /\ Granule <= t /\ End(g, t) <= g.top
                        /\ First(g, t) + ARENA_FREE <= End(g, t)
                        /\ g.sub[t].commitSize <= g.sub[t].size
                        /\ g.sub[t].size % Page = 0 /\ g.sub[t].commitSize % Page = 0
                        /\ \A u \in DOMAIN h.sub : t < u => End(g, t) <= u
    BY <1>9 DEF SubsApart, SameSubs
  <2>2. g.sub[t].commitSize <= g.sub[t].size /\ g.sub[t].commitSize % Page = 0
    <3>1. CASE t = s
      BY <1>4, <1>6, <1>7, <3>1
    <3>2. CASE t # s
      BY <1>1, <1>6, <1>7, <3>2 DEF SubsApart
    <3> QED
      BY <3>1, <3>2
  <2>3. End(g, t) = End(h, t) /\ First(g, t) = First(h, t) /\ g.sub[t].size = h.sub[t].size
    BY <1>8, <1>9 DEF SameSubs
  <2> QED
    BY <1>1, <1>7, <2>2, <2>3 DEF SubsApart
<1>11. \A a : After(g, a) = After(h, a)
  BY <1>7 DEF After
<1>12. Ends(g) = Ends(h) /\ Firsts(g) = Firsts(h)
  BY <1>9 DEF Ends, Firsts, SameSubs
<1>13. Filled(g)
  BY <1>1, <1>7, <1>9, <1>11, <1>12 DEF Filled, SameSubs
<1>14. Flagged(g)
  BY <1>1, <1>7, <1>11 DEF Flagged
<1>15. Listed(g, FreeBlocks(g))
  BY <1>1, <1>7 DEF Listed, FreeBlocks
<1>16. \A a \in DOMAIN h.arena : FindSubHeap(g, a) = FindSubHeap(h, a)
  <2>1. \A a \in DOMAIN h.arena, t \in DOMAIN h.sub : t <= a /\ a < End(g, t) <=> t <= a /\ a < End(h, t)
    BY <1>9 DEF SameSubs
  <2> QED
    BY <1>6, <1>7, <2>1 DEF FindSubHeap
<1> QED
  BY <1>4, <1>6, <1>7, <1>9, <1>10, <1>13, <1>14, <1>15, <1>16 DEF Whole, CommitMade

\* The end of a sub-heap behind a free block is decommitted.
LEMMA DecommitKept ==
    ASSUME SizeAssumption, NEW h, Whole(h), NEW x \in FreeBlocks(h),
           NEW s, s = FindSubHeap(h, x), After(h, x) = End(h, s),
           NEW g, g = Decommit(h, s, x + ARENA_FREE)
    PROVE  Follows(h, g, InUse(h)) /\ FreeKept(h, g)
<1>1. h \in HeapType /\ SubsApart(h) /\ Filled(h)
  BY DEF Whole
<1>2. x \in DOMAIN h.arena
  BY DEF FreeBlocks
<1>3. /\ s \in DOMAIN h.sub /\ s \in Nat /\ First(h, s) \in Nat /\ End(h, s) \in Nat
      /\ First(h, s) <= x /\ x \in Nat
  BY <1>2, NextPlace
<1>4. s < First(h, s) /\ h.sub[s].commitSize \in Nat
  BY <1>1, <1>3, SubFields
<1> DEFINE r == RoundUp((x + ARENA_FREE) - s, Page)
           c == Min({h.sub[s].commitSize, r})
<1>5. r \in Nat /\ x + 5 - s <= r /\ r % Page = 0
  <2>1. (x + ARENA_FREE) - s \in Nat /\ (x + ARENA_FREE) - s = x + 5 - s
    BY <1>3, <1>4 DEF ARENA_FREE
  <2> QED
    BY <2>1, Sizes, RoundUpUp
<1> HIDE DEF r
<1>6. c \in Nat /\ (c = h.sub[s].commitSize \/ c = r) /\ c <= h.sub[s].commitSize
      /\ \A u \in Nat : u <= h.sub[s].commitSize /\ u <= r => u <= c
  <2> DEFINE k == h.sub[s].commitSize
  <2>1. k \in Nat
    BY <1>4
  <2> HIDE DEF k
  <2>2. Min({k, r}) = IF k <= r THEN k ELSE r
    BY <1>5, <2>1, OfTwo
  <2>3. c = IF k <= r THEN k ELSE r
    BY <2>2 DEF k
  <2> HIDE DEF c
  <2>4. c \in Nat /\ (c = k \/ c = r) /\ c <= k /\ \A u \in Nat : u <= k /\ u <= r => u <= c
    BY <1>5, <2>1, <2>3
  <2> QED
    BY <2>4 DEF k
<1>7. g = Recommitted(h, s, c)
  BY DEF Decommit, Recommitted, r
<1> HIDE DEF c
<1>8. c % Page = 0 /\ c <= h.sub[s].size
  <2>1. h.sub[s].commitSize % Page = 0 /\ h.sub[s].commitSize <= h.sub[s].size /\ h.sub[s].size \in Nat
    BY <1>1, <1>3, SubFields DEF SubsApart
  <2> QED
    BY <1>4, <1>5, <1>6, <2>1
<1>9. /\ Whole(g) /\ g.arena = h.arena /\ g.top = h.top /\ g.growable = h.growable
      /\ g.sub[s].commitSize = c
      /\ \A t \in DOMAIN h.sub : t # s => g.sub[t] = h.sub[t]
      /\ \A a \in DOMAIN h.arena : FindSubHeap(g, a) = FindSubHeap(h, a)
  BY <1>3, <1>6, <1>7, <1>8, CommitFields DEF CommitMade
<1>10. ASSUME NEW b \in DOMAIN h.arena \ {x}, NEW u \in Nat, u <= After(h, b), u <= CommittedTo(h, b)
       PROVE  u <= CommittedTo(g, b)
  <2> DEFINE t == FindSubHeap(h, b)
  <2>1. b \in DOMAIN h.arena /\ b # x
    OBVIOUS
  <2>2. t \in DOMAIN h.sub /\ After(h, b) <= End(h, t) /\ b \in Nat
    BY <2>1, NextPlace
  <2>3. FindSubHeap(g, b) = t
    BY <1>9, <2>1
  <2>4. CASE t # s
    BY <1>9, <1>10, <2>2, <2>3, <2>4 DEF CommittedTo
  <2>5. CASE t = s
    <3>1. b < x
      <4>1. SUFFICES ASSUME x < b
                     PROVE  FALSE
        BY <1>3, <2>1, <2>2
      <4>2. End(h, s) <= b
        BY <1>1, <1>2, <2>1, <4>1 DEF Filled
      <4>3. b < After(h, b) /\ After(h, b) \in Nat
        BY <1>1, <2>1, BlockFields
      <4> QED
        BY <1>3, <2>2, <2>5, <4>2, <4>3
    <3>2. After(h, b) <= x /\ After(h, b) \in Nat
      BY <1>1, <1>2, <2>1, <3>1, BlockFields DEF Filled
    <3>3. u <= s + h.sub[s].commitSize
      BY <1>10, <2>5 DEF CommittedTo
    <3>4. u <= s + c
      BY <1>3, <1>4, <1>5, <1>6, <1>10, <3>2, <3>3
    <3> HIDE DEF t
    <3> QED
      BY <1>9, <2>3, <2>5, <3>4 DEF CommittedTo
  <2> QED
    BY <2>4, <2>5
<1>11. \A b \in InUse(h) : b \in DOMAIN h.arena \ {x}
  BY DEF InUse, FreeBlocks
<1>12. FreeKept(h, g)
  <2>1. SUFFICES ASSUME NEW b \in FreeBlocks(h), b + 5 <= CommittedTo(h, b)
                 PROVE  b + 5 <= CommittedTo(g, b)
    BY <1>9 DEF FreeKept, FreeBlocks
  <2>2. b \in DOMAIN h.arena /\ h.arena[b].free
    BY DEF FreeBlocks
  <2>3. CASE b # x
    <3>1. b \in Nat /\ b + 5 \in Nat /\ b + 5 <= After(h, b)
      <4>1. b \in Nat /\ h.arena[b].size \in Nat /\ After(h, b) = b + h.arena[b].size + 5
        BY <1>1, <2>2, BlockFields
      <4> QED
        BY <4>1
    <3> QED
      BY <1>10, <2>1, <2>2, <2>3, <3>1
  <2>4. CASE b = x
    <3>1. x + 5 <= s + h.sub[s].commitSize
      BY <2>1, <2>4 DEF CommittedTo
    <3> DEFINE k == h.sub[s].commitSize
               u == x + 5 - s
    <3>2. u \in Nat /\ u <= r /\ u <= k /\ k \in Nat
      BY <1>3, <1>4, <1>5, <3>1
    <3>3. u <= c
      <4> HIDE DEF u
      <4> QED
        BY <1>6, <3>2
    <3>4. CommittedTo(g, x) = s + c
      BY <1>2, <1>9 DEF CommittedTo
    <3> HIDE DEF k
    <3>5. x + 5 <= s + c
      BY <1>3, <1>6, <3>3
    <3> QED
      BY <2>4, <3>4, <3>5
  <2> QED
    BY <2>3, <2>4
<1> QED
  BY <1>9, <1>10, <1>11, <1>12 DEF Follows, Kept, InUse

\* A sub-heap of which nothing is in use goes, and its one block with it.
LEMMA RemovedKept ==
    ASSUME SizeAssumption, NEW h, Whole(h), NEW x \in FreeBlocks(h),
           NEW s, s = FindSubHeap(h, x), After(h, x) = End(h, s), x = First(h, s),
           NEW k, k = WithoutArena(Unlink(h, x), x),
           NEW g, g = [k EXCEPT !.sub = Restrict(@, DOMAIN @ \ {s})]
    PROVE  Follows(h, g, InUse(h)) /\ FreeKept(h, g)
<1> DEFINE D == DOMAIN h.arena
<1>1. h \in HeapType /\ SubsApart(h) /\ Filled(h) /\ Flagged(h) /\ Listed(h, FreeBlocks(h))
  BY DEF Whole
<1>2. x \in D
  BY DEF FreeBlocks
<1>3. /\ s \in DOMAIN h.sub /\ s \in Nat /\ First(h, s) \in Nat /\ End(h, s) \in Nat
      /\ First(h, s) <= x /\ x \in Nat /\ After(h, x) \in Nat /\ x + 4 <= After(h, x)
      /\ (After(h, x) \in D => After(h, x) < End(h, s))
  BY <1>2, NextPlace
<1>4. s < First(h, s)
  BY <1>1, <1>3, SubFields
<1>5. /\ k \in HeapType /\ DOMAIN k.arena = D \ {x}
      /\ \A b \in D \ {x} : k.arena[b] = h.arena[b]
      /\ k.sub = h.sub /\ k.top = h.top /\ k.growable = h.growable
      /\ Listed(k, FreeBlocks(h) \ {x})
  <2> DEFINE u == Unlink(h, x)
             S == FreeBlocks(h) \ {x}
  <2>1. /\ u \in HeapType /\ u.arena = h.arena /\ u.sub = h.sub /\ u.top = h.top
        /\ u.growable = h.growable /\ Listed(u, S)
    BY <1>1, UnlinkFields
  <2>2. k = WithoutArena(u, x)
    OBVIOUS
  <2>3. x \notin S /\ S \subseteq DOMAIN u.arena
    BY <2>1 DEF FreeBlocks
  <2> HIDE DEF u, S
  <2>4. /\ k \in HeapType /\ DOMAIN k.arena = DOMAIN u.arena \ {x}
        /\ \A b \in DOMAIN u.arena \ {x} : k.arena[b] = u.arena[b]
        /\ k.sub = u.sub /\ k.top = u.top /\ k.growable = u.growable /\ Listed(k, S)
    BY <2>1, <2>2, <2>3, WithoutArenaFields
  <2> QED
    BY <2>1, <2>4 DEF S
<1> DEFINE f == Restrict(k.sub, DOMAIN k.sub \ {s})
<1>6. f \in Placed(SubHeap) /\ DOMAIN f = DOMAIN h.sub \ {s} /\ \A t \in DOMAIN f : f[t] = h.sub[t]
  <2>1. k.sub \in Placed(SubHeap)
    BY <1>5 DEF HeapType
  <2>2. DOMAIN f = DOMAIN k.sub \ {s} /\ \A t \in DOMAIN f : f[t] = k.sub[t]
    BY DEF Restrict
  <2>3. f \in Placed(SubHeap)
    <3> DEFINE p == k.sub
    <3> HIDE DEF p
    <3>1. p \in Placed(SubHeap)
      BY <2>1 DEF p
    <3>2. Restrict(p, DOMAIN p \ {s}) \in Placed(SubHeap)
      BY <3>1, RestrictPlaced
    <3> QED
      BY <3>2 DEF p
  <2> QED
    BY <1>5, <2>2, <2>3
<1>7. g = [k EXCEPT !.sub = f]
  OBVIOUS
<1> HIDE DEF f
<1>8. /\ g \in HeapType /\ g.arena = k.arena /\ g.sub = f /\ g.top = h.top
      /\ g.growable = h.growable /\ g.freeList = k.freeList
  BY <1>5, <1>6, <1>7 DEF HeapType
<1>9. \A t \in DOMAIN g.sub : /\ t \in DOMAIN h.sub /\ t # s /\ g.sub[t] = h.sub[t]
                              /\ End(g, t) = End(h, t) /\ First(g, t) = First(h, t)
  BY <1>6, <1>8 DEF End, First
<1>10. DOMAIN g.arena = D \ {x} /\ \A b \in D \ {x} : g.arena[b] = h.arena[b] /\ After(g, b) = After(h, b)
  BY <1>5, <1>8 DEF After
<1>11. SubsApart(g)
  BY <1>1, <1>8, <1>9 DEF SubsApart
<1> DEFINE At(b) == FindSubHeap(h, b)
<1>12. ASSUME NEW b \in D \ {x}
       PROVE  /\ At(b) \in DOMAIN g.sub /\ First(h, At(b)) <= b /\ After(h, b) <= End(h, At(b))
              /\ b \in Nat /\ b < After(h, b) /\ After(h, b) \in Nat
              /\ (After(h, b) \notin D => After(h, b) = End(h, At(b)))
              /\ After(h, b) # x
  <2> HIDE DEF D
  <2> DEFINE t == At(b)
  <2>1. /\ t \in DOMAIN h.sub /\ First(h, t) <= b /\ After(h, b) <= End(h, t)
        /\ b \in Nat /\ b + 4 <= After(h, b) /\ After(h, b) \in Nat
        /\ (After(h, b) \notin D => After(h, b) = End(h, t))
    <3> HIDE DEF At
    <3> QED
      BY NextPlace DEF At, D
  <2> HIDE DEF At
  <2>2. t \in Nat /\ First(h, t) \in Nat /\ t < First(h, t) /\ End(h, t) \in Nat
    BY <1>1, <2>1, SubFields
  <2>3. t # s
    <3>1. SUFFICES ASSUME t = s
                   PROVE  FALSE
      OBVIOUS
    <3>2. x < b
      BY <1>3, <2>1, <3>1
    <3>3. After(h, x) <= b
      BY <1>1, <1>2, <3>2 DEF Filled, D
    <3>4. End(h, s) <= b /\ After(h, b) <= End(h, s)
      BY <2>1, <3>1, <3>3
    <3> QED
      BY <1>3, <2>1, <3>4
  <2>4. (t < s => End(h, t) <= s) /\ (s < t => End(h, s) <= t)
    BY <1>1, <1>3, <2>1 DEF SubsApart
  <2>5. After(h, b) # x
    BY <1>3, <1>4, <2>1, <2>2, <2>3, <2>4
  <2>6. t \in DOMAIN g.sub
    BY <1>6, <1>8, <2>1, <2>3
  <2> HIDE DEF t
  <2> QED
    BY <2>1, <2>2, <2>5, <2>6 DEF t
<1> HIDE DEF At
<1>13. Filled(g)
  <2>1. \A b \in DOMAIN g.arena : \E t \in DOMAIN g.sub : First(g, t) <= b /\ After(g, b) <= End(g, t)
    <3> TAKE b \in DOMAIN g.arena
    <3>1. At(b) \in DOMAIN g.sub /\ First(h, At(b)) <= b /\ After(h, b) <= End(h, At(b))
      BY <1>10, <1>12
    <3>2. First(g, At(b)) <= b /\ After(g, b) <= End(g, At(b))
      BY <1>9, <1>10, <3>1
    <3> QED
      BY <3>1, <3>2
  <2>2. \A b, c \in DOMAIN g.arena : b < c => After(g, b) <= c
    BY <1>1, <1>10 DEF Filled
  <2>3. \A b \in DOMAIN g.arena : After(g, b) \in DOMAIN g.arena \cup Ends(g)
    <3> TAKE b \in DOMAIN g.arena
    <3>1. /\ At(b) \in DOMAIN g.sub /\ After(h, b) # x
          /\ (After(h, b) \notin D => After(h, b) = End(h, At(b)))
      BY <1>10, <1>12
    <3>2. After(g, b) = After(h, b) /\ End(g, At(b)) = End(h, At(b))
      BY <1>9, <1>10, <3>1
    <3> QED
      BY <1>10, <3>1, <3>2 DEF Ends
  <2>4. ASSUME NEW p \in DOMAIN g.arena \cup Ends(g)
        PROVE  p \in Firsts(g) \/ \E b \in DOMAIN g.arena : After(g, b) = p
    <3>1. p \in D \cup Ends(h) /\ p # x /\ p # After(h, x)
      <4>1. CASE p \in DOMAIN g.arena
        BY <1>3, <1>10, <1>12, <4>1, <1>1, BlockFields
      <4>2. CASE p \in Ends(g)
        <5>1. PICK t \in DOMAIN g.sub : p = End(h, t)
          BY <1>9, <4>2 DEF Ends
        <5>2. t \in DOMAIN h.sub /\ t # s
          BY <1>9
        <5>3. t \in Nat /\ First(h, t) \in Nat /\ t < First(h, t) /\ End(h, t) \in Nat
          BY <1>1, <5>2, SubFields
        <5>4. First(h, t) + 5 <= End(h, t) /\ First(h, s) + 5 <= End(h, s)
          BY <1>1, <1>3, <5>2, Sizes DEF SubsApart
        <5>5. (t < s => End(h, t) <= s) /\ (s < t => End(h, s) <= t)
          BY <1>1, <1>3, <5>2 DEF SubsApart
        <5>6. p # x /\ p # After(h, x)
          BY <1>3, <1>4, <5>1, <5>2, <5>3, <5>4, <5>5
        <5> QED
          BY <5>1, <5>2, <5>6 DEF Ends
      <4> QED
        BY <4>1, <4>2
    <3>2. p \in Firsts(h) \/ \E b \in D : After(h, b) = p
      BY <1>1, <3>1 DEF Filled
    <3>3. CASE p \in Firsts(h)
      <4>1. PICK t \in DOMAIN h.sub : p = First(h, t)
        BY <3>3 DEF Firsts
      <4>2. t \in DOMAIN g.sub
        BY <1>6, <1>8, <3>1, <4>1
      <4> QED
        BY <1>9, <4>1, <4>2 DEF Firsts
    <3>4. CASE \E b \in D : After(h, b) = p
      BY <1>10, <3>1, <3>4
    <3> QED
      BY <3>2, <3>3, <3>4
  <2>5. Firsts(g) \subseteq DOMAIN g.arena
    <3>1. SUFFICES ASSUME NEW t \in DOMAIN g.sub
                   PROVE  First(h, t) \in D /\ First(h, t) # x
      BY <1>9, <1>10, ZenonT(40) DEF Firsts
    <3>2. t \in DOMAIN h.sub /\ t # s
      BY <1>9
    <3>3. t \in Nat /\ First(h, t) \in Nat /\ t < First(h, t) /\ End(h, t) \in Nat
      BY <1>1, <3>2, SubFields
    <3>4. First(h, t) + 5 <= End(h, t) /\ First(h, s) + 5 <= End(h, s)
      BY <1>1, <1>3, <3>2, Sizes DEF SubsApart
    <3>5. (t < s => End(h, t) <= s) /\ (s < t => End(h, s) <= t)
      BY <1>1, <1>3, <3>2 DEF SubsApart
    <3>6. First(h, t) \in D
      BY <1>1, <3>2 DEF Filled, Firsts
    <3> QED
      BY <1>3, <1>4, <3>2, <3>3, <3>4, <3>5, <3>6
  <2> QED
    BY <2>1, <2>2, <2>3, <2>4, <2>5 DEF Filled
<1>14. Flagged(g)
  <2>1. SUFFICES ASSUME NEW b \in D \ {x}
                 PROVE  /\ h.arena[b].prevFree =>
                             /\ h.arena[b].back \in D \ {x}
                             /\ g.arena[h.arena[b].back].free
                             /\ After(g, h.arena[b].back) = b
                        /\ h.arena[b].free /\ After(h, b) \in D \ {x} =>
                             /\ h.arena[After(h, b)].prevFree
                             /\ h.arena[After(h, b)].back = b
                             /\ ~h.arena[After(h, b)].free
    BY <1>10 DEF Flagged
  <2>2. h.arena[b].prevFree =>
          h.arena[b].back \in D /\ h.arena[h.arena[b].back].free /\ After(h, h.arena[b].back) = b
    BY <1>1 DEF Flagged
  <2>3. h.arena[b].prevFree => h.arena[b].back # x
    BY <1>3, <2>2
  <2>4. h.arena[b].free /\ After(h, b) \in D =>
          /\ h.arena[After(h, b)].prevFree /\ h.arena[After(h, b)].back = b
          /\ ~h.arena[After(h, b)].free
    BY <1>1 DEF Flagged
  <2> QED
    BY <1>10, <2>2, <2>3, <2>4
<1>15. FreeBlocks(g) = FreeBlocks(h) \ {x}
  BY <1>10 DEF FreeBlocks
<1>16. Listed(g, FreeBlocks(g))
  BY <1>5, <1>8, <1>15 DEF Listed
<1>17. InUse(g) = InUse(h) /\ \A b \in InUse(h) : b \in D \ {x}
  BY <1>10 DEF InUse, FreeBlocks
<1>18. ASSUME NEW b \in D \ {x}
       PROVE  CommittedTo(g, b) = CommittedTo(h, b)
  <2>1. At(b) \in DOMAIN g.sub /\ At(b) <= b /\ b < End(g, At(b))
    <3>1. /\ At(b) \in DOMAIN h.sub /\ End(g, At(b)) = End(h, At(b)) /\ At(b) \in DOMAIN g.sub
          /\ First(h, At(b)) <= b /\ After(h, b) <= End(h, At(b))
          /\ b \in Nat /\ b < After(h, b) /\ After(h, b) \in Nat
      BY <1>9, <1>12
    <3>2. At(b) \in Nat /\ First(h, At(b)) \in Nat /\ At(b) < First(h, At(b)) /\ End(h, At(b)) \in Nat
      BY <1>1, <3>1, SubFields
    <3> QED
      BY <3>1, <3>2
  <2>2. FindSubHeap(g, b) = At(b)
    BY <1>8, <1>11, <1>12, <2>1, SubFound
  <2> QED
    BY <1>9, <2>1, <2>2 DEF CommittedTo, At
<1>19. FreeKept(h, g)
  <2>1. \A b \in FreeBlocks(g) : b \in D \ {x} /\ b \in FreeBlocks(h)
    BY <1>15 DEF FreeBlocks
  <2> QED
    BY <1>18, <2>1 DEF FreeKept
<1> QED
  BY <1>8, <1>10, <1>11, <1>13, <1>14, <1>16, <1>17, <1>18, <1>19 DEF Whole, Follows, Kept

\* What is behind a free block is released, or the whole sub-heap.
LEMMA ReleaseKept ==
    ASSUME SizeAssumption, NEW h, Whole(h), NEW x \in FreeBlocks(h),
           NEW s, s = FindSubHeap(h, x), NEW g, g = Release(h, s, x)
    PROVE  Follows(h, g, InUse(h)) /\ FreeKept(h, g)
<1>1. x \in DOMAIN h.arena
  BY DEF FreeBlocks
<1>2. After(h, x) <= End(h, s) /\ After(h, x) \in Nat /\ End(h, s) \in Nat
  BY <1>1, NextPlace
<1>3. CASE After(h, x) < End(h, s)
  <2>1. g = h
    BY <1>3 DEF Release
  <2> QED
    BY <2>1 DEF Follows, Kept, FreeKept
<1>4. CASE After(h, x) = End(h, s)
  <2>1. ~ (After(h, x) < End(h, s))
    BY <1>2, <1>4
  <2>2. CASE x = First(h, s) /\ s # Granule
    <3> DEFINE k == WithoutArena(Unlink(h, x), x)
    <3>1. g = [k EXCEPT !.sub = Restrict(@, DOMAIN @ \ {s})]
      BY <2>1, <2>2 DEF Release, First
    <3> HIDE DEF k
    <3> QED
      BY <1>4, <2>2, <3>1, RemovedKept DEF k
  <2>3. CASE ~ (x = First(h, s) /\ s # Granule)
    <3>1. g = Decommit(h, s, x + ARENA_FREE)
      BY <2>1, <2>3 DEF Release, First
    <3> QED
      BY <1>4, <3>1, DecommitKept
  <2> QED
    BY <2>2, <2>3
<1> QED
  BY <1>2, <1>3, <1>4

\* A block in use becomes free, with what can be released behind it.
LEMMA MadeFree ==
    ASSUME SizeAssumption, NEW h, Whole(h), NEW a \in InUse(h), 7 <= h.arena[a].size,
           NEW s, s = FindSubHeap(h, a), NEW g, g = MakeInUseBlockFree(h, s, a)
    PROVE  /\ Follows(h, g, InUse(h) \ {a})
           /\ FreeCommitted(h) /\ a + 5 <= CommittedTo(h, a) => FreeCommitted(g)
<1> DEFINE x == Left(h, a)
           k == Freed(h, s, a)
<1>1. g = Release(k, s, x)
  BY DEF MakeInUseBlockFree, Freed, Left
<1> HIDE DEF x, k
<1>2. /\ \E y : Region(h, s, x, y) /\ Rebuilt(h, k, x, y, x)
      /\ k \in HeapType /\ k.sub = h.sub /\ k.top = h.top /\ k.growable = h.growable
      /\ x \in DOMAIN h.arena /\ x \in DOMAIN k.arena /\ k.arena[x].free
      /\ Listed(k, FreeBlocks(k)) /\ InUse(k) = InUse(h) \ {a}
      /\ \A b \in InUse(k) : k.arena[b].size = h.arena[b].size
  BY FreedRebuilt DEF x, k
<1>3. PICK y : Region(h, s, x, y) /\ Rebuilt(h, k, x, y, x)
  BY <1>2
<1>4. h \in HeapType /\ SubsApart(h)
  BY DEF Whole
<1>5. SameSubs(h, k) /\ SubsApart(k)
  <2>1. \A t \in DOMAIN h.sub : End(h, t) \in Nat
    BY <1>4, SubFields
  <2>2. h.top \in Nat /\ k.top \in Nat /\ h.top <= k.top
    BY <1>2, <1>4 DEF HeapType
  <2> QED
    BY <1>2, <1>4, <2>1, <2>2, SubsSame
<1>6. Whole(k)
  BY <1>2, <1>3, <1>5, RebuiltWhole
<1>7. x \in FreeBlocks(k)
  BY <1>2 DEF FreeBlocks
<1>8. s = FindSubHeap(k, x)
  <2>1. FindSubHeap(k, x) = FindSubHeap(h, x)
    BY <1>2, FoundSame
  <2>2. s \in DOMAIN h.sub /\ First(h, s) <= x /\ x < y /\ y <= End(h, s)
        /\ y \in DOMAIN h.arena \cup {End(h, s)}
    BY <1>3 DEF Region
  <2>3. s \in Nat /\ First(h, s) \in Nat /\ s < First(h, s) /\ End(h, s) \in Nat
    BY <1>4, <2>2, SubFields
  <2>4. x \in Nat /\ (y \in DOMAIN h.arena => y \in Nat)
    BY <1>2, <1>4, BlockFields
  <2>5. s <= x /\ x < End(h, s)
    BY <2>2, <2>3, <2>4
  <2> QED
    BY <1>4, <2>1, <2>2, <2>4, <2>5, SubFound
<1>9. Follows(k, g, InUse(k)) /\ FreeKept(k, g)
  BY <1>1, <1>6, <1>7, <1>8, ReleaseKept
<1>10. \A b \in InUse(k) : After(k, b) = After(h, b) /\ CommittedTo(k, b) = CommittedTo(h, b)
  <2>1. \A b \in InUse(k) : ~k.arena[b].free /\ ~h.arena[b].free
    BY <1>2 DEF InUse
  <2>2. \A b \in InUse(k) : After(k, b) = After(h, b)
    BY <1>2, <2>1 DEF After
  <2>3. \A b : CommittedTo(k, b) = CommittedTo(h, b)
    BY <1>2, FoundSame
  <2> QED
    BY <2>2, <2>3
<1>11. ASSUME FreeCommitted(h), a + 5 <= CommittedTo(h, a)
       PROVE  FreeCommitted(g)
  <2>1. x + 5 <= CommittedTo(h, x)
    <3>1. CASE h.arena[a].prevFree
      <4>1. x \in FreeBlocks(h)
        BY <3>1 DEF x, Left, Whole, Flagged, InUse, FreeBlocks
      <4> QED
        BY <1>11, <4>1 DEF FreeCommitted
    <3>2. CASE ~h.arena[a].prevFree
      <4>1. x = a
        BY <3>2 DEF x, Left
      <4> QED
        BY <1>11, <4>1
    <3> QED
      BY <3>1, <3>2
  <2>2. \A b \in DOMAIN k.arena \ {x} : b \in DOMAIN h.arena /\ (k.arena[b].free <=> h.arena[b].free)
    BY <1>2, <1>3, <1>4, <1>5, Outside DEF Whole
  <2>3. \A b \in FreeBlocks(k) : b = x \/ b \in FreeBlocks(h)
    BY <2>2 DEF FreeBlocks
  <2>4. \A b : CommittedTo(k, b) = CommittedTo(h, b)
    BY <1>2, FoundSame
  <2>5. \A b \in FreeBlocks(k) : b + 5 <= CommittedTo(k, b)
    BY <1>11, <2>1, <2>3, <2>4 DEF FreeCommitted
  <2> QED
    BY <1>9, <2>5 DEF FreeKept, FreeCommitted
<1> QED
  BY <1>2, <1>9, <1>10, <1>11 DEF Follows, Kept

----------------------------------------------------------------------------
(* What is taken and resized *)

\* No block begins where a sub-heap ends.
LEMMA EndNoBlock ==
    ASSUME SizeAssumption, NEW h \in HeapType, SubsApart(h), Filled(h), NEW s \in DOMAIN h.sub
    PROVE  End(h, s) \notin DOMAIN h.arena
<1>1. SUFFICES ASSUME End(h, s) \in DOMAIN h.arena
               PROVE  FALSE
  OBVIOUS
<1>2. PICK u \in DOMAIN h.sub : First(h, u) <= End(h, s) /\ After(h, End(h, s)) <= End(h, u)
  BY <1>1 DEF Filled
<1>3. /\ u \in Nat /\ First(h, u) \in Nat /\ u < First(h, u) /\ End(h, u) \in Nat
      /\ s \in Nat /\ First(h, s) \in Nat /\ s < First(h, s) /\ End(h, s) \in Nat
  BY SubFields
<1>4. End(h, s) < After(h, End(h, s)) /\ After(h, End(h, s)) \in Nat
  BY <1>1, <1>3, BlockFields
<1>5. (u < s => End(h, u) <= s) /\ (s < u => End(h, s) <= u)
  BY DEF SubsApart
<1>6. First(h, s) + 5 <= End(h, s)
  BY Sizes DEF SubsApart
<1> QED
  BY <1>2, <1>3, <1>4, <1>5, <1>6

\* A region is made larger by the free block behind it.
LEMMA FreeBehind ==
    ASSUME SizeAssumption, NEW h, Whole(h), NEW s, NEW x, NEW n, Region(h, s, x, n),
           NEW y, y = IF n < End(h, s) /\ h.arena[n].free THEN After(h, n) ELSE n
    PROVE  /\ Region(h, s, x, y) /\ x \in Nat /\ n \in Nat /\ y \in Nat /\ x < n /\ n <= y
           /\ n \in DOMAIN h.arena <=> n < End(h, s)
           /\ y \in DOMAIN h.arena <=> y < End(h, s)
           /\ y \in DOMAIN h.arena => ~h.arena[y].free
           /\ y # n => /\ n \in FreeBlocks(h) /\ \A b \in DOMAIN h.arena : n < b => y <= b
<1>1. h \in HeapType /\ SubsApart(h) /\ Filled(h) /\ Flagged(h)
  BY DEF Whole
<1>2. /\ s \in DOMAIN h.sub /\ x \in DOMAIN h.arena /\ First(h, s) <= x /\ x < n
      /\ n <= End(h, s) /\ n \in DOMAIN h.arena \cup {End(h, s)}
  BY DEF Region
<1>3. s \in Nat /\ First(h, s) \in Nat /\ s < First(h, s) /\ End(h, s) \in Nat
  BY <1>1, <1>2, SubFields
<1>4. x \in Nat /\ n \in Nat
  BY <1>1, <1>2, <1>3, BlockFields
<1>5. n \in DOMAIN h.arena <=> n < End(h, s)
  <2>1. n \in DOMAIN h.arena => n # End(h, s)
    BY <1>1, <1>2, EndNoBlock
  <2> QED
    BY <1>2, <1>3, <1>4, <2>1
<1>6. CASE ~ (n < End(h, s) /\ h.arena[n].free)
  BY <1>2, <1>4, <1>5, <1>6
<1>7. CASE n < End(h, s) /\ h.arena[n].free
  <2>1. n \in DOMAIN h.arena /\ y = After(h, n)
    BY <1>5, <1>7
  <2>2. FindSubHeap(h, n) = s
    <3>1. s <= n /\ n < End(h, s)
      BY <1>2, <1>3, <1>4, <1>7
    <3> QED
      BY <1>1, <1>2, <1>4, <3>1, SubFound
  <2>3. /\ y <= End(h, s) /\ y \in Nat /\ n + 4 <= y
        /\ y < End(h, s) => y \in DOMAIN h.arena
        /\ y \in DOMAIN h.arena => y < End(h, s)
        /\ y \notin DOMAIN h.arena => y = End(h, s)
        /\ \A b \in DOMAIN h.arena : n < b => y <= b
    BY <2>1, <2>2, NextPlace
  <2>4. y \in DOMAIN h.arena => ~h.arena[y].free
    BY <1>1, <1>7, <2>1 DEF Flagged
  <2>5. n \in FreeBlocks(h)
    BY <1>7, <2>1 DEF FreeBlocks
  <2>6. Region(h, s, x, y)
    BY <1>2, <1>4, <2>3 DEF Region
  <2> QED
    BY <1>2, <1>4, <1>5, <2>3, <2>4, <2>5, <2>6
<1> QED
  BY <1>6, <1>7

\* The block at x is in use now and reaches up to y; only the one at y may not know.
Opened(h, g, s, x, y) ==
    /\ g \in HeapType /\ g.sub = h.sub /\ g.top = h.top /\ g.growable = h.growable
    /\ Region(h, s, x, y)
    /\ DOMAIN g.arena = {b \in DOMAIN h.arena : b <= x \/ y <= b}
    /\ \A b \in DOMAIN g.arena \ {x} : g.arena[b] = h.arena[b]
    /\ ~g.arena[x].free /\ After(g, x) = y
    /\ g.arena[x].prevFree <=> h.arena[x].prevFree
    /\ g.arena[x].back = h.arena[x].back
    /\ Listed(g, FreeBlocks(g))

\* The block at y is told.
Closed(h, k, s, y) ==
    IF y < End(h, s) THEN [k EXCEPT !.arena[y].prevFree = FALSE, !.arena[y].back = None]
    ELSE k

\* The block stays as large as it is, and the one behind it knows.
LEMMA OpenedWhole ==
    ASSUME SizeAssumption, NEW h, Whole(h), NEW k, NEW s, NEW x, NEW y, Opened(h, k, s, x, y),
           NEW g, g = Closed(h, k, s, y)
    PROVE  /\ Whole(g) /\ g.sub = h.sub /\ g.top = h.top /\ g.growable = h.growable
           /\ InUse(g) = InUse(k) /\ \A b \in InUse(g) : g.arena[b].size = k.arena[b].size
           /\ FreeBlocks(g) = FreeBlocks(k)
<1>1. h \in HeapType /\ SubsApart(h) /\ Filled(h) /\ Flagged(h)
  BY DEF Whole
<1>2. /\ k \in HeapType /\ k.sub = h.sub /\ k.top = h.top /\ k.growable = h.growable
      /\ Region(h, s, x, y)
      /\ DOMAIN k.arena = {b \in DOMAIN h.arena : b <= x \/ y <= b}
      /\ \A b \in DOMAIN k.arena \ {x} : k.arena[b] = h.arena[b]
      /\ ~k.arena[x].free /\ After(k, x) = y
      /\ k.arena[x].prevFree <=> h.arena[x].prevFree
      /\ k.arena[x].back = h.arena[x].back
      /\ Listed(k, FreeBlocks(k))
  BY DEF Opened
<1>3. /\ x \in Nat /\ y \in Nat /\ x < y /\ (y \in DOMAIN h.arena <=> y < End(h, s))
      /\ x \in DOMAIN h.arena
  <2>1. s \in DOMAIN h.sub /\ x \in DOMAIN h.arena /\ x < y /\ y <= End(h, s)
        /\ y \in DOMAIN h.arena \cup {End(h, s)}
    BY <1>2 DEF Region
  <2>2. End(h, s) \in Nat /\ End(h, s) \notin DOMAIN h.arena
    BY <1>1, <2>1, SubFields, EndNoBlock
  <2>3. x \in Nat /\ (y \in DOMAIN h.arena => y \in Nat)
    BY <1>1, <2>1, BlockFields
  <2> QED
    BY <2>1, <2>2, <2>3
<1>4. x \in DOMAIN k.arena /\ (y \in DOMAIN h.arena => y \in DOMAIN k.arena)
  BY <1>2, <1>3
<1>5. /\ g \in HeapType /\ g.sub = h.sub /\ g.top = h.top /\ g.growable = h.growable
      /\ DOMAIN g.arena = DOMAIN k.arena
      /\ \A b \in DOMAIN g.arena \ {y} : g.arena[b] = k.arena[b]
      /\ y \in DOMAIN h.arena => /\ g.arena[y].size = h.arena[y].size
                                 /\ g.arena[y].free <=> h.arena[y].free
                                 /\ ~g.arena[y].prevFree
      /\ Listed(g, FreeBlocks(k))
  <2>1. CASE ~ (y < End(h, s))
    <3>1. g = k
      BY <2>1 DEF Closed
    <3> QED
      BY <1>2, <1>3, <2>1, <3>1
  <2>2. CASE y < End(h, s)
    <3>1. y \in DOMAIN k.arena /\ y # x /\ k.arena[y] = h.arena[y]
      BY <1>2, <1>3, <1>4, <2>2
    <3>2. k.arena \in Placed(Block) /\ k.arena[y] \in Block
      BY <1>2, <3>1, PlacedAt DEF HeapType
    <3> DEFINE v == [k.arena[y] EXCEPT !.prevFree = FALSE, !.back = None]
               f == [k.arena EXCEPT ![y] = v]
    <3>3. v \in Block /\ v.size = k.arena[y].size /\ (v.free <=> k.arena[y].free) /\ ~v.prevFree
      BY <3>2 DEF Block
    <3>4. g = [k EXCEPT !.arena = f]
      <4>1. g = [k EXCEPT !.arena[y].prevFree = FALSE, !.arena[y].back = None]
        BY <2>2 DEF Closed
      <4> QED
        BY <1>2, <3>1, <4>1 DEF HeapType
    <3> HIDE DEF v
    <3>5. f \in Placed(Block)
      BY <3>1, <3>2, <3>3 DEF Placed
    <3>6. DOMAIN f = DOMAIN k.arena /\ f[y] = v /\ \A b \in DOMAIN k.arena : b # y => f[b] = k.arena[b]
      BY <3>1
    <3> HIDE DEF f
    <3>7. \A b \in FreeBlocks(k) : f[b].size = k.arena[b].size
      BY <3>3, <3>6 DEF FreeBlocks
    <3>8. /\ g \in HeapType /\ g.arena = f /\ g.sub = k.sub /\ g.top = k.top
          /\ g.growable = k.growable /\ Listed(g, FreeBlocks(k))
      BY <1>2, <3>4, <3>5, <3>7, WithBlocks
    <3> QED
      BY <1>2, <3>1, <3>3, <3>6, <3>8
  <2> QED
    BY <2>1, <2>2
<1>6. \A b \in DOMAIN k.arena : /\ g.arena[b].size = k.arena[b].size
                                /\ g.arena[b].free <=> k.arena[b].free
  <2> TAKE b \in DOMAIN k.arena
  <2>1. CASE b # y
    BY <1>5, <2>1
  <2>2. CASE b = y
    <3>1. y \in DOMAIN h.arena /\ y # x
      BY <1>2, <1>3, <2>2
    <3>2. k.arena[y] = h.arena[y]
      BY <1>2, <2>2, <3>1
    <3> QED
      BY <1>5, <2>2, <3>1, <3>2
  <2> QED
    BY <2>1, <2>2
<1>7. FreeBlocks(g) = FreeBlocks(k) /\ InUse(g) = InUse(k)
  BY <1>5, <1>6 DEF FreeBlocks, InUse
<1>8. g.arena[x] = k.arena[x]
  BY <1>3, <1>4, <1>5
<1>9. Rebuilt(h, g, x, y, x)
  <2>1. After(g, x) = y
    BY <1>2, <1>8 DEF After
  <2>2. DOMAIN g.arena = {b \in DOMAIN h.arena : b <= x \/ y <= b} \cup {x}
    BY <1>2, <1>3, <1>5
  <2>3. \A b \in DOMAIN g.arena \ {x, y} : g.arena[b] = h.arena[b]
    BY <1>2, <1>5
  <2>4. ~g.arena[x].free
    BY <1>2, <1>8
  <2> QED
    BY <1>2, <1>5, <1>8, <2>1, <2>2, <2>3, <2>4 DEF Rebuilt
<1>10. SameSubs(h, g) /\ SubsApart(g)
  <2>1. \A t \in DOMAIN h.sub : End(h, t) \in Nat
    BY <1>1, SubFields
  <2>2. h.top \in Nat /\ g.top \in Nat /\ h.top <= g.top /\ g.sub = h.sub
    BY <1>1, <1>5 DEF HeapType
  <2>3. SubsApart(h)
    BY <1>1
  <2> QED
    BY <2>1, <2>2, <2>3, SubsSame
<1>11. Whole(g)
  BY <1>2, <1>5, <1>7, <1>9, <1>10, RebuiltWhole
<1> QED
  BY <1>5, <1>6, <1>7, <1>11 DEF InUse

\* No block becomes free by it.
LEMMA OpenedFree ==
    ASSUME NEW h, NEW k, NEW s, NEW x, NEW y, Opened(h, k, s, x, y)
    PROVE  FreeBlocks(k) \subseteq FreeBlocks(h)
BY DEF Opened, FreeBlocks

\* What the block has more than size words becomes a free block, if it is enough for one.
\* The block ends before the place up to which it has to be committed.
LEMMA ShrunkWhole ==
    ASSUME SizeAssumption, NEW h, Whole(h), NEW k, NEW s, NEW x, NEW n, Opened(h, k, s, x, n),
           NEW size \in Nat, size <= k.arena[x].size, NEW g, g = ShrinkBlock(k, s, x, size)
    PROVE  /\ Whole(g) /\ g.sub = h.sub /\ g.top = h.top /\ g.growable = h.growable
           /\ InUse(g) = InUse(k) /\ \A b \in InUse(g) \ {x} : g.arena[b].size = k.arena[b].size
           /\ size <= g.arena[x].size /\ After(g, x) <= n /\ After(g, x) < Reach(x, size)
           /\ After(g, x) = n \/ After(g, x) = x + size + 4
           /\ \A b \in FreeBlocks(g) : b \in FreeBlocks(k) \/ (b = x + size + 4 /\ b + 7 <= n)
<1> DEFINE D == DOMAIN h.arena
           old == k.arena[x].size
           m == x + ARENA_INUSE + size
           y == IF n < End(h, s) /\ h.arena[n].free THEN After(h, n) ELSE n
           gone == IF y = n THEN {} ELSE {n}
           c == CreateFreeBlock(k, s, m, old - size)
           f == [c.arena EXCEPT ![x].size = size]
<1>1. h \in HeapType /\ SubsApart(h) /\ Filled(h) /\ Flagged(h)
  BY DEF Whole
<1>2. /\ k \in HeapType /\ k.sub = h.sub /\ k.top = h.top /\ k.growable = h.growable
      /\ Region(h, s, x, n)
      /\ DOMAIN k.arena = {b \in D : b <= x \/ n <= b}
      /\ \A b \in DOMAIN k.arena \ {x} : k.arena[b] = h.arena[b]
      /\ ~k.arena[x].free /\ After(k, x) = n
      /\ k.arena[x].prevFree <=> h.arena[x].prevFree
      /\ k.arena[x].back = h.arena[x].back
      /\ Listed(k, FreeBlocks(k))
  BY DEF Opened
<1>3. /\ Region(h, s, x, y) /\ x \in Nat /\ n \in Nat /\ y \in Nat /\ x < n /\ n <= y
      /\ n \in D <=> n < End(h, s)
      /\ y \in D <=> y < End(h, s)
      /\ y \in D => ~h.arena[y].free
      /\ y # n => n \in FreeBlocks(h) /\ \A b \in D : n < b => y <= b
  BY <1>2, FreeBehind
<1>4. s \in DOMAIN h.sub /\ x \in D
  BY <1>2 DEF Region
<1>5. x \in DOMAIN k.arena /\ (n \in D => n \in DOMAIN k.arena) /\ (y \in D => y \in DOMAIN k.arena)
  BY <1>3, <1>4, <1>2
<1>6. old \in Nat /\ n = x + old + 4
  BY <1>2, <1>5, BlockFields
<1>7. End(k, s) = End(h, s)
  BY <1>2, SubsSame
<1>8. CASE ~ (old >= size + HEAP_MIN_BLOCK_SIZE)
  <2>1. x + ARENA_INUSE + old = n
    <3> HIDE DEF old
    <3> QED
      BY <1>3, <1>6, Sizes
  <2>2. g = Closed(h, k, s, n)
    BY <1>7, <1>8, <2>1 DEF ShrinkBlock, Closed
  <2>3. /\ Whole(g) /\ g.sub = h.sub /\ g.top = h.top /\ g.growable = h.growable
        /\ InUse(g) = InUse(k) /\ \A b \in InUse(g) : g.arena[b].size = k.arena[b].size
        /\ FreeBlocks(g) = FreeBlocks(k)
    BY <2>2, OpenedWhole
  <2>4. x \in InUse(k)
    BY <1>2, <1>5 DEF InUse
  <2>5. ~g.arena[x].free /\ g.arena[x].size = old
    BY <2>3, <2>4 DEF InUse
  <2>6. After(g, x) = n
    BY <1>2, <2>5 DEF After
  <2>7. n < Reach(x, size)
    <3>1. x \in Nat /\ n \in Nat
      BY <1>3
    <3> HIDE DEF old, y
    <3>2. old \in Nat /\ ~ (size + 7 <= old) /\ n = x + old + 4
      BY <1>6, <1>8, Sizes
    <3> QED
      BY <3>1, <3>2 DEF Reach, ARENA_INUSE, ARENA_FREE, HEAP_MIN_BLOCK_SIZE
  <2> QED
    BY <1>3, <2>3, <2>5, <2>6, <2>7
<1>9. CASE old >= size + HEAP_MIN_BLOCK_SIZE
  <2>1. /\ m \in Nat /\ old - size \in Nat /\ 5 <= old - size /\ n = m + (old - size)
        /\ x < m /\ m < n /\ m = x + size + 4
    <3>1. x \in Nat /\ n \in Nat
      BY <1>3
    <3> HIDE DEF old, y
    <3>2. old \in Nat /\ size + 7 <= old /\ n = x + old + 4
      BY <1>6, <1>9, Sizes
    <3> QED
      BY <3>1, <3>2 DEF ARENA_INUSE
  <2> HIDE DEF m
  <2>2. m \notin DOMAIN k.arena
    <3>1. ~ (m <= x) /\ ~ (n <= m)
      <4> HIDE DEF y
      <4> QED
        BY <1>3, <2>1
    <3> QED
      BY <1>2, <3>1
  <2>3. /\ n < End(k, s) => n \in DOMAIN k.arena
        /\ y = IF n < End(k, s) /\ k.arena[n].free THEN After(k, n) ELSE n
        /\ y < End(k, s) => y \in DOMAIN k.arena
    <3>1. n \in D => k.arena[n] = h.arena[n] /\ After(k, n) = After(h, n)
      BY <1>2, <1>3, <1>5 DEF After
    <3> QED
      BY <1>3, <1>5, <1>7, <3>1
  <2>4. FreeMade(k, c, s, m, n, y, FreeBlocks(k))
    <3> DEFINE F == FreeBlocks(k)
               d == old - size
    <3>1. F \subseteq DOMAIN k.arena /\ m \notin F /\ Listed(k, F)
      BY <1>2, <2>2 DEF FreeBlocks
    <3>2. s \in DOMAIN k.sub /\ c = CreateFreeBlock(k, s, m, d) /\ d \in Nat /\ 5 <= d /\ n = m + d
      BY <1>2, <1>4, <2>1
    <3> HIDE DEF F, y, c, d
    <3>3. FreeMade(k, c, s, m, n, y, F)
      BY <1>2, <2>1, <2>3, <3>1, <3>2, CreateFreeBlockFields
    <3> QED
      BY <3>3 DEF F
  <2> HIDE DEF y, c
  <2>5. /\ c \in HeapType /\ c.sub = h.sub /\ c.top = h.top /\ c.growable = h.growable
        /\ DOMAIN c.arena = (DOMAIN k.arena \ gone) \cup {m}
        /\ c.arena[m] = [size |-> y - m - 5, free |-> TRUE, prevFree |-> FALSE, back |-> None]
        /\ y \in D => /\ c.arena[y].size = k.arena[y].size
                      /\ c.arena[y].free <=> k.arena[y].free
                      /\ c.arena[y].prevFree /\ c.arena[y].back = m
        /\ \A b \in DOMAIN c.arena : b \notin {m} /\ ~ (b = y /\ y \in D) => c.arena[b] = k.arena[b]
        /\ Listed(c, (FreeBlocks(k) \ gone) \cup {m})
    BY <1>2, <1>3, <1>7, <2>4 DEF FreeMade
  <2> HIDE DEF gone
  <2>6. gone \subseteq {n} /\ (y # n => gone = {n}) /\ (y = n => gone = {})
    BY DEF gone
  <2>7. x \in DOMAIN c.arena /\ x # m /\ x # y /\ c.arena[x] = k.arena[x]
    <3>1. x # m /\ x # y /\ x # n
      BY <1>3, <2>1
    <3>2. x \in DOMAIN k.arena \ gone
      BY <1>5, <2>6, <3>1
    <3> QED
      BY <2>5, <3>1, <3>2
  <2>8. g = [c EXCEPT !.arena = f]
    <3>1. g = [c EXCEPT !.arena[x].size = size]
      BY <1>9 DEF ShrinkBlock, c, m
    <3> QED
      BY <2>5, <2>7, <3>1 DEF HeapType
  <2>9. /\ f \in Placed(Block) /\ DOMAIN f = DOMAIN c.arena
        /\ f[x].size = size /\ ~f[x].free /\ (f[x].prevFree <=> k.arena[x].prevFree)
        /\ f[x].back = k.arena[x].back
        /\ \A b \in DOMAIN f : b # x => f[b] = c.arena[b]
    <3> DEFINE v == [c.arena[x] EXCEPT !.size = size]
    <3>1. c.arena \in Placed(Block) /\ c.arena[x] \in Block
      BY <2>5, <2>7, PlacedAt DEF HeapType
    <3>2. /\ v \in Block /\ v.size = size /\ (v.free <=> c.arena[x].free)
          /\ (v.prevFree <=> c.arena[x].prevFree) /\ v.back = c.arena[x].back
      BY <3>1 DEF Block
    <3>3. f = [c.arena EXCEPT ![x] = v]
      OBVIOUS
    <3> HIDE DEF v, f
    <3>4. f \in Placed(Block)
      BY <2>7, <3>1, <3>2, <3>3 DEF Placed
    <3>5. DOMAIN f = DOMAIN c.arena /\ f[x] = v /\ \A b \in DOMAIN f : b # x => f[b] = c.arena[b]
      BY <2>7, <3>3
    <3> QED
      BY <1>2, <2>7, <3>2, <3>4, <3>5
  <2> HIDE DEF f
  <2>10. x \notin (FreeBlocks(k) \ gone) \cup {m}
    BY <1>2, <2>7 DEF FreeBlocks
  <2>11. (FreeBlocks(k) \ gone) \cup {m} \subseteq DOMAIN c.arena
    BY <2>5 DEF FreeBlocks
  <2>12. /\ g \in HeapType /\ g.arena = f /\ g.sub = c.sub /\ g.top = c.top /\ g.growable = c.growable
         /\ Listed(g, (FreeBlocks(k) \ gone) \cup {m})
    <3> DEFINE T == (FreeBlocks(k) \ gone) \cup {m}
    <3>1. \A b \in T : f[b].size = c.arena[b].size
      BY <2>9, <2>10, <2>11
    <3>2. Listed(c, T)
      BY <2>5
    <3> HIDE DEF T
    <3>3. /\ g \in HeapType /\ g.arena = f /\ g.sub = c.sub /\ g.top = c.top /\ g.growable = c.growable
          /\ Listed(g, T)
      BY <2>5, <2>8, <2>9, <3>1, <3>2, WithBlocks
    <3> QED
      BY <3>3 DEF T
  <2>13. DOMAIN g.arena = {b \in D : b <= x \/ y <= b} \cup {m}
    <3>1. \A b \in D : b \in Nat
      BY <1>1, BlockFields
    <3>2. ASSUME NEW b \in D
          PROVE  (b <= x \/ n <= b) /\ b \notin gone <=> b <= x \/ y <= b
      <4>1. CASE y = n
        BY <2>6, <4>1
      <4>2. CASE y # n
        <5>1. b \in Nat /\ y \in Nat /\ n \in Nat /\ x \in Nat /\ x < n /\ n < y
              /\ (n < b => y <= b) /\ (b \in gone <=> b = n)
          BY <1>3, <2>6, <3>1, <4>2
        <5> QED
          BY <5>1
      <4> QED
        BY <4>1, <4>2
    <3>3. DOMAIN k.arena \ gone = {b \in D : b <= x \/ y <= b}
      BY <1>2, <3>2
    <3> QED
      BY <2>5, <2>9, <2>12, <3>3
  <2>14. \A b \in DOMAIN g.arena \ {x, y, m} :
             b \in DOMAIN k.arena /\ g.arena[b] = k.arena[b] /\ g.arena[b] = h.arena[b]
    BY <1>2, <2>5, <2>9, <2>12
  <2>15. y \in D => /\ y \in DOMAIN k.arena /\ y # m /\ k.arena[y] = h.arena[y]
                    /\ g.arena[y].size = h.arena[y].size
                    /\ g.arena[y].free <=> h.arena[y].free
                    /\ g.arena[y].prevFree /\ g.arena[y].back = m /\ ~h.arena[y].free
    <3>1. y \in D => y \in DOMAIN k.arena /\ y # m /\ y # x
      BY <1>3, <1>5, <2>1
    <3>2. y \in D => k.arena[y] = h.arena[y]
      BY <1>2, <3>1
    <3>3. y \in D => y \in DOMAIN f
      BY <2>6, <2>5, <2>9, <3>1
    <3>4. y \in D => g.arena[y] = c.arena[y]
      BY <2>9, <2>12, <3>1, <3>3
    <3> QED
      BY <1>3, <2>5, <3>1, <3>2, <3>4
  <2>16. g.arena[m] = [size |-> y - m - 5, free |-> TRUE, prevFree |-> FALSE, back |-> None]
    <3>1. m \in DOMAIN f /\ m # x
      BY <2>1, <2>5, <2>7, <2>9
    <3> QED
      BY <2>5, <2>9, <2>12, <3>1
  <2>17. g.arena[m].free /\ ~g.arena[m].prevFree /\ After(g, m) = y
    <3>1. g.arena[m].size = y - m - 5 /\ g.arena[m].free /\ ~g.arena[m].prevFree
      BY <2>16
    <3>2. After(g, m) = m + (y - m - 5) + 5
      BY <3>1, Sizes DEF After
    <3> QED
      BY <1>3, <2>1, <3>1, <3>2
  <2>18. /\ g.arena[x].size = size /\ ~g.arena[x].free /\ After(g, x) = m
         /\ g.arena[x].prevFree <=> h.arena[x].prevFree
         /\ g.arena[x].back = h.arena[x].back
    <3>1. g.arena[x].size = size /\ ~g.arena[x].free
      BY <2>9, <2>12
    <3>2. After(g, x) = m
      BY <1>3, <2>1, <3>1, Sizes DEF After
    <3> QED
      BY <1>2, <2>9, <2>12, <3>1, <3>2
  <2>19. Rebuilt(h, g, x, y, m)
    <3>1. \A b \in DOMAIN g.arena \ {x, y, m} : g.arena[b] = h.arena[b]
      BY <2>14
    <3>2. x < m /\ m < y /\ m # x
      BY <1>3, <2>1
    <3> QED
      BY <2>13, <2>15, <2>17, <2>18, <3>1, <3>2 DEF Rebuilt
  <2>20. x \in DOMAIN g.arena /\ m \in DOMAIN g.arena
    BY <2>5, <2>7, <2>9, <2>12
  <2>21. \A b \in DOMAIN g.arena \ {x, m} :
            /\ b \in DOMAIN k.arena /\ b \notin gone /\ g.arena[b].size = k.arena[b].size
            /\ g.arena[b].free <=> k.arena[b].free
    <3> TAKE b \in DOMAIN g.arena \ {x, m}
    <3>1. b \in DOMAIN k.arena /\ b \notin gone
      BY <2>5, <2>9, <2>12
    <3>2. CASE b = y
      BY <1>2, <2>15, <3>1, <3>2
    <3>3. CASE b # y
      BY <2>14, <3>1, <3>3
    <3> QED
      BY <3>1, <3>2, <3>3
  <2>22. \A b \in DOMAIN k.arena \ gone : b \in DOMAIN g.arena /\ b # m
    BY <2>2, <2>5, <2>9, <2>12
  <2>23. gone \subseteq FreeBlocks(k)
    <3>1. y # n => n \in DOMAIN k.arena /\ k.arena[n].free
      BY <1>2, <1>3, <1>5 DEF FreeBlocks
    <3> QED
      BY <2>6, <3>1 DEF FreeBlocks
  <2>24. FreeBlocks(g) = (FreeBlocks(k) \ gone) \cup {m}
    BY <1>2, <2>17, <2>18, <2>20, <2>21, <2>22 DEF FreeBlocks
  <2>25. InUse(g) = InUse(k)
    BY <1>2, <1>5, <2>17, <2>18, <2>20, <2>21, <2>22, <2>23 DEF InUse, FreeBlocks
  <2>26. SameSubs(h, g) /\ SubsApart(g)
    <3>1. \A t \in DOMAIN h.sub : End(h, t) \in Nat
      BY <1>1, SubFields
    <3>2. h.top \in Nat /\ g.top \in Nat /\ h.top <= g.top /\ g.sub = h.sub
      BY <1>1, <2>5, <2>12 DEF HeapType
    <3>3. SubsApart(h)
      BY <1>1
    <3> QED
      BY <3>1, <3>2, <3>3, SubsSame
  <2>27. Whole(g)
    BY <1>3, <2>12, <2>19, <2>24, <2>26, RebuiltWhole
  <2>28. m <= n /\ m < Reach(x, size) /\ m = x + size + 4
    BY <1>3, <2>1 DEF Reach, ARENA_INUSE, ARENA_FREE, HEAP_MIN_BLOCK_SIZE
  <2>29. size <= g.arena[x].size
    BY <2>18
  <2>30. \A b \in InUse(g) \ {x} : g.arena[b].size = k.arena[b].size
    BY <2>17, <2>21 DEF InUse
  <2>31. m + 7 <= n
    <3>1. x \in Nat /\ n \in Nat
      BY <1>3
    <3> HIDE DEF old, y
    <3>2. old \in Nat /\ size + 7 <= old /\ n = x + old + 4
      BY <1>6, <1>9, Sizes
    <3> QED
      BY <2>1, <3>1, <3>2
  <2>32. \A b \in FreeBlocks(g) : b \in FreeBlocks(k) \/ (b = x + size + 4 /\ b + 7 <= n)
    BY <2>24, <2>28, <2>31
  <2> QED
    BY <2>5, <2>12, <2>18, <2>25, <2>27, <2>28, <2>29, <2>30, <2>32
<1> QED
  BY <1>8, <1>9

\* The place of a block, and nothing else in it.
LEMMA OwnRegion ==
    ASSUME SizeAssumption, NEW h, Whole(h), NEW a \in DOMAIN h.arena,
           NEW s, s = FindSubHeap(h, a), NEW n, n = After(h, a)
    PROVE  /\ Region(h, s, a, n) /\ a \in Nat /\ n \in Nat /\ a < n
           /\ DOMAIN h.arena = {b \in DOMAIN h.arena : b <= a \/ n <= b}
<1>1. /\ s \in DOMAIN h.sub /\ First(h, s) <= a /\ n <= End(h, s) /\ n \in Nat /\ a \in Nat
      /\ a + 4 <= n /\ (n \notin DOMAIN h.arena => n = End(h, s))
      /\ \A b \in DOMAIN h.arena : a < b => n <= b
  BY NextPlace
<1>2. \A b \in DOMAIN h.arena : b \in Nat
  <2>1. h \in HeapType
    BY DEF Whole
  <2> QED
    BY <2>1, BlockFields
<1>3. \A b \in DOMAIN h.arena : b <= a \/ n <= b
  BY <1>1, <1>2
<1> QED
  BY <1>1, <1>3 DEF Region

\* A free block as Take opens it.
Taken(h, a) ==
    [Unlink(h, a) EXCEPT !.arena[a].free = FALSE,
                         !.arena[a].size = @ + ARENA_FREE - ARENA_INUSE]

\* The free block that is taken is such a block, one word larger.
LEMMA TakenOpened ==
    ASSUME SizeAssumption, NEW h, Whole(h), NEW a \in FreeBlocks(h),
           NEW s, s = FindSubHeap(h, a), NEW k, k = Taken(h, a)
    PROVE  /\ Opened(h, k, s, a, After(h, a)) /\ InUse(k) = InUse(h) \cup {a}
           /\ k.arena[a].size = h.arena[a].size + 1
           /\ \A b \in InUse(h) : k.arena[b].size = h.arena[b].size
<1>1. h \in HeapType /\ Listed(h, FreeBlocks(h))
  BY DEF Whole
<1>2. a \in DOMAIN h.arena /\ h.arena[a].free
  BY DEF FreeBlocks
<1> DEFINE n == After(h, a)
           u == Unlink(h, a)
           S == FreeBlocks(h) \ {a}
           v == [h.arena[a] EXCEPT !.free = FALSE, !.size = @ + ARENA_FREE - ARENA_INUSE]
           f == [h.arena EXCEPT ![a] = v]
<1>3. /\ Region(h, s, a, n) /\ a \in Nat /\ n \in Nat /\ a < n
      /\ DOMAIN h.arena = {b \in DOMAIN h.arena : b <= a \/ n <= b}
  BY <1>2, OwnRegion
<1>4. h.arena \in Placed(Block) /\ h.arena[a] \in Block /\ h.arena[a].size \in Nat
      /\ n = a + h.arena[a].size + 5
  BY <1>1, <1>2, BlockFields DEF HeapType
<1> HIDE DEF n
<1>5. /\ u \in HeapType /\ u.arena = h.arena /\ u.sub = h.sub /\ u.top = h.top
      /\ u.growable = h.growable /\ Listed(u, S)
  BY <1>1, UnlinkFields
<1> HIDE DEF u
<1>6. k = [u EXCEPT !.arena = f]
  <2>1. k = [u EXCEPT !.arena[a].free = FALSE, !.arena[a].size = @ + ARENA_FREE - ARENA_INUSE]
    BY DEF Taken, u
  <2> QED
    BY <1>2, <1>4, <1>5, <2>1 DEF HeapType, Block
<1>7. /\ v \in Block /\ v.size = h.arena[a].size + 1 /\ ~v.free
      /\ (v.prevFree <=> h.arena[a].prevFree) /\ v.back = h.arena[a].back
  <2> DEFINE r == h.arena[a]
             p == r.size
             z == p + ARENA_FREE - ARENA_INUSE
  <2>1. p \in Nat /\ r \in Block
    BY <1>4
  <2>2. z = p + 1 /\ z \in Nat
    <3> HIDE DEF p
    <3> QED
      BY <2>1 DEF ARENA_FREE, ARENA_INUSE
  <2>3. v = [r EXCEPT !.free = FALSE, !.size = z]
    OBVIOUS
  <2> HIDE DEF z, v, r
  <2> QED
    BY <2>1, <2>2, <2>3 DEF Block, r
<1> HIDE DEF v
<1>8. f \in Placed(Block)
  BY <1>2, <1>4, <1>7 DEF Placed
<1>9. DOMAIN f = DOMAIN h.arena /\ f[a] = v /\ \A b \in DOMAIN h.arena : b # a => f[b] = h.arena[b]
  BY <1>2
<1> HIDE DEF f
<1>10. \A b \in S : f[b].size = u.arena[b].size
  BY <1>5, <1>9 DEF FreeBlocks
<1> HIDE DEF S
<1>11. /\ k \in HeapType /\ k.arena = f /\ k.sub = u.sub /\ k.top = u.top
       /\ k.growable = u.growable /\ Listed(k, S)
  BY <1>5, <1>6, <1>8, <1>10, WithBlocks
<1>12. FreeBlocks(k) = S /\ InUse(k) = InUse(h) \cup {a}
  BY <1>2, <1>7, <1>9, <1>11 DEF FreeBlocks, InUse, S
<1>13. After(k, a) = n
  <2> DEFINE p == h.arena[a].size
  <2>1. k.arena[a].size = p + 1 /\ ~k.arena[a].free /\ p \in Nat /\ n = a + p + 5
    BY <1>4, <1>7, <1>9, <1>11
  <2> HIDE DEF p
  <2>2. After(k, a) = a + (p + 1) + 4
    BY <2>1 DEF After, ARENA_INUSE
  <2> QED
    BY <1>3, <2>1, <2>2
<1>14. Opened(h, k, s, a, n)
  BY <1>3, <1>5, <1>7, <1>9, <1>11, <1>12, <1>13 DEF Opened
<1> QED
  BY <1>2, <1>7, <1>9, <1>11, <1>12, <1>14 DEF n, InUse

\* A block is taken for size words.
LEMMA TakeWhole ==
    ASSUME SizeAssumption, NEW h, Whole(h), NEW a \in FreeBlocks(h),
           NEW s, s = FindSubHeap(h, a), NEW size \in Nat, size <= h.arena[a].size,
           NEW g, g = Take(h, s, a, size)
    PROVE  /\ Whole(g) /\ g.sub = h.sub /\ g.top = h.top /\ g.growable = h.growable
           /\ InUse(g) = InUse(h) \cup {a}
           /\ \A b \in InUse(h) : g.arena[b].size = h.arena[b].size
           /\ size <= g.arena[a].size /\ After(g, a) <= After(h, a) /\ After(g, a) < Reach(a, size)
           /\ After(g, a) = After(h, a) \/ After(g, a) = a + size + 4
           /\ \A b \in FreeBlocks(g) :
                 b \in FreeBlocks(h) \/ (b = a + size + 4 /\ b + 7 <= After(h, a))
<1> DEFINE k == Taken(h, a)
           n == After(h, a)
<1>1. /\ Opened(h, k, s, a, n) /\ InUse(k) = InUse(h) \cup {a}
      /\ k.arena[a].size = h.arena[a].size + 1
      /\ \A b \in InUse(h) : k.arena[b].size = h.arena[b].size
  BY TakenOpened
<1>2. g = ShrinkBlock(k, s, a, size)
  BY DEF Take, Taken
<1>3. size <= k.arena[a].size
  <2> DEFINE p == h.arena[a].size
  <2>1. p \in Nat
    BY BlockFields DEF Whole, FreeBlocks
  <2>2. k.arena[a].size = p + 1 /\ size <= p
    BY <1>1
  <2> HIDE DEF p, k
  <2> QED
    BY <2>1, <2>2
<1> HIDE DEF k, n
<1>4. /\ Whole(g) /\ g.sub = h.sub /\ g.top = h.top /\ g.growable = h.growable
      /\ InUse(g) = InUse(k) /\ \A b \in InUse(g) \ {a} : g.arena[b].size = k.arena[b].size
      /\ size <= g.arena[a].size /\ After(g, a) <= n /\ After(g, a) < Reach(a, size)
      /\ After(g, a) = n \/ After(g, a) = a + size + 4
      /\ \A b \in FreeBlocks(g) : b \in FreeBlocks(k) \/ (b = a + size + 4 /\ b + 7 <= n)
  BY <1>1, <1>2, <1>3, ShrunkWhole
<1>5. a \notin InUse(h)
  BY DEF InUse, FreeBlocks
<1>6. FreeBlocks(k) \subseteq FreeBlocks(h)
  BY <1>1, OpenedFree
<1> QED
  BY <1>1, <1>4, <1>5, <1>6 DEF n

\* A block in use as Shrink finds it.
LEMMA InUseOpened ==
    ASSUME SizeAssumption, NEW h, Whole(h), NEW a \in InUse(h), NEW s, s = FindSubHeap(h, a)
    PROVE  Opened(h, h, s, a, After(h, a))
<1>1. h \in HeapType /\ Listed(h, FreeBlocks(h))
  BY DEF Whole
<1>2. a \in DOMAIN h.arena /\ ~h.arena[a].free
  BY DEF InUse
<1>3. /\ Region(h, s, a, After(h, a))
      /\ DOMAIN h.arena = {b \in DOMAIN h.arena : b <= a \/ After(h, a) <= b}
  BY <1>2, OwnRegion
<1> QED
  BY <1>1, <1>2, <1>3 DEF Opened

\* A block in use and the free one behind it as Grow joins them.
Merged(h, a, n) ==
    [WithoutArena(Unlink(h, n), n) EXCEPT !.arena[a].size = @ + h.arena[n].size + ARENA_FREE]

\* So is a block that took over the free one behind it.
LEMMA MergedOpened ==
    ASSUME SizeAssumption, NEW h, Whole(h), NEW a \in InUse(h), NEW s, s = FindSubHeap(h, a),
           NEW n \in FreeBlocks(h), n = After(h, a), NEW k, k = Merged(h, a, n)
    PROVE  /\ Opened(h, k, s, a, After(h, n)) /\ InUse(k) = InUse(h)
           /\ k.arena[a].size = h.arena[a].size + h.arena[n].size + 5
           /\ \A b \in InUse(h) \ {a} : k.arena[b].size = h.arena[b].size
<1>1. h \in HeapType /\ Listed(h, FreeBlocks(h))
  BY DEF Whole
<1>2. a \in DOMAIN h.arena /\ ~h.arena[a].free /\ n \in DOMAIN h.arena /\ h.arena[n].free
  BY DEF InUse, FreeBlocks
<1> DEFINE y == After(h, n)
           u == WithoutArena(Unlink(h, n), n)
           S == FreeBlocks(h) \ {n}
           v == [h.arena[a] EXCEPT !.size = @ + h.arena[n].size + ARENA_FREE]
           f == [u.arena EXCEPT ![a] = v]
<1>3. /\ Region(h, s, a, n) /\ a \in Nat /\ n \in Nat /\ a < n
      /\ DOMAIN h.arena = {b \in DOMAIN h.arena : b <= a \/ n <= b}
  BY <1>2, OwnRegion
<1>4. /\ Region(h, s, n, y) /\ y \in Nat /\ n < y
      /\ DOMAIN h.arena = {b \in DOMAIN h.arena : b <= n \/ y <= b}
  <2>1. s = FindSubHeap(h, n)
    BY <1>2, NextPlace
  <2> QED
    BY <1>2, <2>1, OwnRegion
<1>5. /\ h.arena[a] \in Block /\ h.arena[a].size \in Nat /\ n = a + h.arena[a].size + 4
      /\ h.arena[n].size \in Nat /\ y = n + h.arena[n].size + 5
  BY <1>1, <1>2, BlockFields
<1> HIDE DEF y
<1>6. Region(h, s, a, y)
  BY <1>3, <1>4 DEF Region
<1>7. /\ u \in HeapType /\ DOMAIN u.arena = DOMAIN h.arena \ {n}
      /\ \A b \in DOMAIN h.arena \ {n} : u.arena[b] = h.arena[b]
      /\ u.sub = h.sub /\ u.top = h.top /\ u.growable = h.growable /\ Listed(u, S)
  <2> DEFINE w == Unlink(h, n)
  <2>1. /\ w \in HeapType /\ w.arena = h.arena /\ w.sub = h.sub /\ w.top = h.top
        /\ w.growable = h.growable /\ Listed(w, S)
    BY <1>1, UnlinkFields
  <2>2. n \notin S /\ S \subseteq DOMAIN w.arena /\ u = WithoutArena(w, n)
    BY <2>1 DEF FreeBlocks
  <2> HIDE DEF w, S, u
  <2>3. /\ u \in HeapType /\ DOMAIN u.arena = DOMAIN w.arena \ {n}
        /\ \A b \in DOMAIN w.arena \ {n} : u.arena[b] = w.arena[b]
        /\ u.sub = w.sub /\ u.top = w.top /\ u.growable = w.growable /\ Listed(u, S)
    BY <2>1, <2>2, WithoutArenaFields
  <2> QED
    BY <2>1, <2>3
<1> HIDE DEF u
<1>8. a \in DOMAIN u.arena /\ a # n /\ u.arena[a] = h.arena[a] /\ u.arena \in Placed(Block)
  BY <1>2, <1>7 DEF HeapType
<1>9. k = [u EXCEPT !.arena = f]
  <2>1. k = [u EXCEPT !.arena[a].size = @ + h.arena[n].size + ARENA_FREE]
    BY DEF Merged, u
  <2> QED
    BY <1>5, <1>7, <1>8, <2>1 DEF HeapType, Block
<1>10. /\ v \in Block /\ v.size = h.arena[a].size + h.arena[n].size + 5 /\ ~v.free
       /\ (v.prevFree <=> h.arena[a].prevFree) /\ v.back = h.arena[a].back
  <2> DEFINE r == h.arena[a]
             p == r.size
             q == h.arena[n].size
             z == p + q + ARENA_FREE
  <2>1. p \in Nat /\ q \in Nat /\ r \in Block /\ ~r.free
    BY <1>2, <1>5
  <2>2. z = p + q + 5 /\ z \in Nat
    <3> HIDE DEF p, q
    <3> QED
      BY <2>1 DEF ARENA_FREE
  <2>3. v = [r EXCEPT !.size = z]
    OBVIOUS
  <2> HIDE DEF z, v, r, q
  <2> QED
    BY <2>1, <2>2, <2>3 DEF Block, r, q
<1> HIDE DEF v
<1>11. f \in Placed(Block)
  BY <1>8, <1>10 DEF Placed
<1>12. DOMAIN f = DOMAIN u.arena /\ f[a] = v /\ \A b \in DOMAIN u.arena : b # a => f[b] = u.arena[b]
  BY <1>8
<1> HIDE DEF f
<1>13. \A b \in S : f[b].size = u.arena[b].size
  BY <1>2, <1>7, <1>12 DEF FreeBlocks
<1> HIDE DEF S
<1>14. /\ k \in HeapType /\ k.arena = f /\ k.sub = u.sub /\ k.top = u.top
       /\ k.growable = u.growable /\ Listed(k, S)
  BY <1>7, <1>9, <1>11, <1>13, WithBlocks
<1>15. FreeBlocks(k) = S /\ InUse(k) = InUse(h)
  <2>1. DOMAIN k.arena = DOMAIN h.arena \ {n}
    BY <1>7, <1>12, <1>14
  <2>2. ASSUME NEW b \in DOMAIN k.arena
        PROVE  k.arena[b].free <=> h.arena[b].free
    <3>1. CASE b = a
      BY <1>2, <1>10, <1>12, <1>14, <3>1
    <3>2. CASE b # a
      BY <1>7, <1>12, <1>14, <3>2
    <3> QED
      BY <3>1, <3>2
  <2> QED
    BY <1>2, <2>1, <2>2 DEF FreeBlocks, InUse, S
<1>16. After(k, a) = y
  <2> DEFINE p == h.arena[a].size
             q == h.arena[n].size
  <2>1. /\ k.arena[a].size = p + q + 5 /\ ~k.arena[a].free
        /\ p \in Nat /\ n = a + p + 4 /\ q \in Nat /\ y = n + q + 5
    BY <1>5, <1>10, <1>12, <1>14
  <2> HIDE DEF p, q
  <2>2. After(k, a) = a + (p + q + 5) + 4
    BY <2>1 DEF After, ARENA_INUSE
  <2> QED
    BY <1>3, <2>1, <2>2
<1>17. DOMAIN k.arena = {b \in DOMAIN h.arena : b <= a \/ y <= b}
  <2>1. \A b \in DOMAIN h.arena : b \in Nat /\ (b <= a \/ n <= b) /\ (b <= n \/ y <= b)
    BY <1>1, <1>3, <1>4, BlockFields
  <2>2. \A b \in DOMAIN h.arena : b # n <=> b <= a \/ y <= b
    <3> TAKE b \in DOMAIN h.arena
    <3>1. b \in Nat /\ (b <= a \/ n <= b) /\ (b <= n \/ y <= b)
      BY <2>1
    <3> QED
      BY <1>3, <1>4, <3>1
  <2> QED
    BY <1>7, <1>12, <1>14, <2>2
<1>18. \A b \in DOMAIN k.arena \ {a} : k.arena[b] = h.arena[b]
  BY <1>7, <1>12, <1>14
<1>19. Opened(h, k, s, a, y)
  BY <1>6, <1>7, <1>8, <1>10, <1>12, <1>14, <1>15, <1>16, <1>17, <1>18 DEF Opened
<1>20. \A b \in InUse(h) \ {a} : k.arena[b].size = h.arena[b].size
  BY <1>15, <1>18 DEF InUse
<1> QED
  BY <1>10, <1>12, <1>14, <1>15, <1>19, <1>20 DEF y

----------------------------------------------------------------------------
(* What is committed *)

\* More of a sub-heap is committed: what is asked for, as far as it has it.
LEMMA CommitWhole ==
    ASSUME SizeAssumption, NEW h, Whole(h), NEW s \in DOMAIN h.sub, NEW upto \in Nat, s <= upto,
           NEW g, g = Commit(h, s, upto)
    PROVE  /\ Whole(g) /\ g.arena = h.arena /\ g.top = h.top /\ g.growable = h.growable
           /\ g.freeList = h.freeList /\ SameSubs(h, g)
           /\ \A a \in DOMAIN h.arena : /\ FindSubHeap(g, a) = FindSubHeap(h, a)
                                        /\ CommittedTo(h, a) <= CommittedTo(g, a)
           /\ \A u \in Nat : u <= upto /\ u <= End(h, s) => u <= s + g.sub[s].commitSize
           /\ IsCommitted(h, s, upto) \/ h.sub[s].commitSize < RoundUp(upto - s, Page)
<1>1. h \in HeapType /\ SubsApart(h)
  BY DEF Whole
<1> DEFINE r == RoundUp(upto - s, Page)
           size == h.sub[s].size
           old == h.sub[s].commitSize
           w == Wanted(h, s, upto)
           c == Max({old, w})
<1>2. /\ s \in Nat /\ size \in Nat /\ old \in Nat /\ End(h, s) = s + size
      /\ old <= size /\ size % Page = 0 /\ old % Page = 0
  BY <1>1, SubFields DEF SubsApart
<1>3. r \in Nat /\ upto - s <= r /\ r % Page = 0
  <2>1. upto - s \in Nat
    BY <1>2
  <2> QED
    BY <2>1, Sizes, RoundUpUp
<1>4. g = Recommitted(h, s, c)
  BY DEF Commit, Recommitted
<1>5. w = IF r <= size THEN r ELSE size
  <2> HIDE DEF r, size
  <2>1. Min({r, size}) = IF r <= size THEN r ELSE size
    BY <1>2, <1>3, OfTwo
  <2> QED
    BY <2>1 DEF Wanted, r, size
<1> HIDE DEF w
<1>6. w \in Nat /\ w % Page = 0 /\ w <= size /\ (w = size \/ w = r)
  BY <1>2, <1>3, <1>5
<1>7. c = IF old <= w THEN w ELSE old
  <2> HIDE DEF old
  <2>1. Max({old, w}) = IF old <= w THEN w ELSE old
    BY <1>2, <1>6, OfTwo
  <2> QED
    BY <2>1
<1> HIDE DEF c
<1>8. c \in Nat /\ c % Page = 0 /\ c <= size /\ old <= c /\ w <= c
  <2> HIDE DEF old, size
  <2> QED
    BY <1>2, <1>6, <1>7
<1>9. /\ Whole(g) /\ g.arena = h.arena /\ g.top = h.top /\ g.growable = h.growable
      /\ g.freeList = h.freeList
      /\ SameSubs(h, g) /\ g.sub[s].commitSize = c
      /\ \A t \in DOMAIN h.sub : t # s => g.sub[t] = h.sub[t]
      /\ \A a \in DOMAIN h.arena : FindSubHeap(g, a) = FindSubHeap(h, a)
  <2>1. c \in Nat /\ c <= h.sub[s].size /\ c % Page = 0
    BY <1>8
  <2>2. CommitMade(h, g, s, c)
    BY <1>4, <2>1, CommitFields
  <2> QED
    BY <2>2 DEF CommitMade
<1>10. ASSUME NEW u \in Nat, u <= upto, u <= End(h, s)
       PROVE  u <= s + c
  <2> HIDE DEF r, size, old
  <2> QED
    BY <1>2, <1>3, <1>6, <1>8, <1>10
<1>11. IsCommitted(h, s, upto) \/ old < r
  <2>1. IsCommitted(h, s, upto) <=> w <= old
    BY DEF IsCommitted, w
  <2> HIDE DEF r, size, old
  <2> QED
    BY <1>2, <1>3, <1>6, <2>1, <1>5
<1>12. ASSUME NEW a \in DOMAIN h.arena
       PROVE  CommittedTo(h, a) <= CommittedTo(g, a)
  <2> DEFINE t == FindSubHeap(h, a)
  <2>1. t \in DOMAIN h.sub
    BY NextPlace
  <2>2. t \in Nat /\ h.sub[t].commitSize \in Nat
    BY <1>1, <2>1, SubFields
  <2>3. CommittedTo(h, a) = t + h.sub[t].commitSize /\ CommittedTo(g, a) = t + g.sub[t].commitSize
    BY <1>9 DEF CommittedTo
  <2> HIDE DEF t
  <2>4. CASE t = s
    <3>1. CommittedTo(h, a) = s + old /\ CommittedTo(g, a) = s + c
      BY <1>9, <2>3, <2>4
    <3> HIDE DEF old
    <3> QED
      BY <1>2, <1>8, <3>1
  <2>5. CASE t # s
    BY <1>9, <2>1, <2>2, <2>3, <2>5
  <2> QED
    BY <2>4, <2>5
<1> QED
  BY <1>9, <1>10, <1>11, <1>12

\* Where a block has to be committed, it does not matter when it is joined.
LEMMA CommitMerged ==
    ASSUME SizeAssumption, NEW h, Whole(h), NEW s \in DOMAIN h.sub, NEW upto,
           NEW a \in InUse(h), NEW n \in FreeBlocks(h)
    PROVE  Commit(Merged(h, a, n), s, upto) = Merged(Commit(h, s, upto), a, n)
<1>1. h \in HeapType /\ a \in DOMAIN h.arena /\ a # n
  BY DEF Whole, InUse, FreeBlocks
<1> DEFINE c == Max({h.sub[s].commitSize, Wanted(h, s, upto)})
           fs == [h.sub EXCEPT ![s].commitSize = c]
           fl == [k \in Lists |-> RemoveFirst(h.freeList[k], n)]
           fa == [Restrict(h.arena, DOMAIN h.arena \ {n})
                     EXCEPT ![a].size = @ + h.arena[n].size + ARENA_FREE]
<1>2. Commit(h, s, upto) = [h EXCEPT !.sub = fs]
  BY DEF Commit
<1>3. Merged(h, a, n) = [[h EXCEPT !.freeList = fl] EXCEPT !.arena = fa]
  BY <1>1 DEF Merged, WithoutArena, Unlink, HeapType
<1>4. /\ Merged(h, a, n).sub = h.sub
      /\ Wanted(Merged(h, a, n), s, upto) = Wanted(h, s, upto)
  <2> HIDE DEF fl, fa
  <2>1. Merged(h, a, n).sub = h.sub
    BY <1>1, <1>3 DEF HeapType
  <2> QED
    BY <2>1 DEF Wanted
<1>5. Commit(Merged(h, a, n), s, upto) = [Merged(h, a, n) EXCEPT !.sub = fs]
  BY <1>4 DEF Commit
<1>6. /\ [h EXCEPT !.sub = fs].arena = h.arena /\ [h EXCEPT !.sub = fs].freeList = h.freeList
      /\ [h EXCEPT !.sub = fs] \in [sub : {fs}, arena : Placed(Block), freeList : [Lists -> Seq(Nat)],
             top : Nat, growable : BOOLEAN]
  <2> HIDE DEF fs
  <2> QED
    BY <1>1 DEF HeapType
<1>7. Merged(Commit(h, s, upto), a, n)
        = [[[h EXCEPT !.sub = fs] EXCEPT !.freeList = fl] EXCEPT !.arena = fa]
  <2> HIDE DEF fs
  <2> QED
    BY <1>2, <1>6, ZenonT(40) DEF Merged, WithoutArena, Unlink
<1> HIDE DEF fs, fl, fa
<1> QED
  BY <1>1, <1>3, <1>5, <1>7 DEF HeapType

\* The block an allocation finds is free and has the size.
LEMMA FitFound ==
    ASSUME SizeAssumption, NEW h, Whole(h), NEW size \in Nat, Fitting(h, size) # {}
    PROVE  FirstFit(h, size) \in FreeBlocks(h) /\ size <= h.arena[FirstFit(h, size)].size
<1>1. h \in HeapType /\ Listed(h, FreeBlocks(h))
  BY DEF Whole
<1>2. ListFor(size) \in Lists /\ Len(FreeListSizes) \in Nat
  BY HasList DEF SizeAssumption
<1>3. Fitting(h, size) \subseteq Lists /\ Fitting(h, size) \subseteq Nat
  BY <1>2 DEF Fitting, Lists
<1> DEFINE k == Min(Fitting(h, size))
           list == h.freeList[k]
           i == Min(Large(h, list, size))
<1>4. k \in Fitting(h, size)
  BY <1>3, MinNat
<1>5. k \in Lists /\ Large(h, list, size) # {}
  <2> HIDE DEF k
  <2> QED
    BY <1>3, <1>4 DEF Fitting
<1> HIDE DEF k
<1>6. list \in Seq(Nat)
  BY <1>1, <1>5 DEF HeapType
<1>7. Large(h, list, size) \subseteq Nat
  BY <1>6 DEF Large
<1>8. i \in Large(h, list, size)
  <2> HIDE DEF list
  <2> QED
    BY <1>5, <1>7, MinNat
<1>9. i \in DOMAIN list /\ h.arena[list[i]].size >= size
  <2> HIDE DEF i
  <2> QED
    BY <1>8 DEF Large
<1>10. list[i] \in ToSet(list)
  <2> HIDE DEF i, list
  <2> QED
    BY <1>9 DEF ToSet
<1>11. list[i] \in FreeBlocks(h)
  <2>1. ToSet(list) \subseteq FreeBlocks(h)
    BY <1>1, <1>5 DEF Listed
  <2> QED
    BY <1>10, <2>1
<1>12. FirstFit(h, size) = list[i]
  BY DEF FirstFit, k
<1>13. h.arena[list[i]].size \in Nat
  BY <1>1, <1>11, BlockFields DEF FreeBlocks
<1> QED
  BY <1>9, <1>11, <1>12, <1>13

----------------------------------------------------------------------------
(* New sub-heaps *)

\* What is committed of a new sub-heap at first.
FirstCommit(commit) == Max({RoundUp(commit, Granule), Granule})

\* It is as large as what is committed of it, or larger by a unit of what is reserved.
Sized(commit, c, size) ==
    /\ c \in Nat /\ size \in Nat /\ c % Page = 0 /\ size % Page = 0
    /\ commit <= c /\ Granule <= c /\ c <= size
    /\ c = size \/ c + Granule <= size

\* TotalSize gives whole pages, and room for what is committed.
LEMMA TotalSizeFields ==
    ASSUME SizeAssumption, NEW commit \in Nat, NEW total \in Nat,
           NEW c, c = FirstCommit(commit), NEW size, size = TotalSize(commit, total)
    PROVE  Sized(commit, c, size)
<1>1. Granule \in Nat \ {0} /\ Page \in Nat \ {0} /\ Granule % Page = 0 /\ Granule % Granule = 0
  BY Sizes
<1> DEFINE r == RoundUp(commit, Granule)
           t == RoundUp(total, Granule)
<1>2. /\ r \in Nat /\ commit <= r /\ r % Granule = 0
      /\ t \in Nat /\ t % Granule = 0
  BY <1>1, RoundUpUp
<1> HIDE DEF r, t
<1>3. c = IF r <= Granule THEN Granule ELSE r
  <2>1. Max({r, Granule}) = IF r <= Granule THEN Granule ELSE r
    BY <1>1, <1>2, OfTwo
  <2> QED
    BY <2>1 DEF FirstCommit, r
<1>4. c \in Nat /\ c % Granule = 0 /\ commit <= c /\ Granule <= c
  BY <1>1, <1>2, <1>3
<1>5. size = IF t <= c THEN c ELSE t
  <2>1. Max({t, c}) = IF t <= c THEN c ELSE t
    BY <1>2, <1>4, OfTwo
  <2>2. size = Max({t, c})
    BY DEF TotalSize, FirstCommit, t
  <2> QED
    BY <2>1, <2>2
<1>6. size \in Nat /\ size % Granule = 0 /\ c <= size
  BY <1>2, <1>4, <1>5
<1>7. c % Page = 0 /\ size % Page = 0
  BY <1>1, <1>4, <1>6, MultipleOf
<1>8. c = size \/ c + Granule <= size
  <2>1. CASE c < size
    BY <1>1, <1>4, <1>6, <2>1, MultiplesApart
  <2> QED
    BY <1>4, <1>6, <2>1
<1> QED
  BY <1>4, <1>6, <1>7, <1>8 DEF Sized

\* What HEAP_CreateSubHeap leaves: one more sub-heap at s, with one free block at x.
SubHeapMade(h, g, s, x, size, c) ==
    /\ Whole(g) /\ g.top = s + size /\ g.growable = h.growable
    /\ x \in FreeBlocks(g) /\ x + g.arena[x].size + 5 = s + size /\ After(g, x) = s + size
    /\ FindSubHeap(g, x) = s /\ CommittedTo(g, x) = s + c
    /\ InUse(g) = InUse(h)
    /\ \A b \in InUse(h) : /\ g.arena[b] = h.arena[b] /\ CommittedTo(g, b) = CommittedTo(h, b)
                           /\ FindSubHeap(g, b) = FindSubHeap(h, b)
    /\ \A b \in FreeBlocks(g) \ {x} : b \in FreeBlocks(h) /\ CommittedTo(g, b) = CommittedTo(h, b)

\* CreateSubHeap adds such a sub-heap and leaves the blocks in use alone.
LEMMA CreateSubHeapFields ==
    ASSUME SizeAssumption, NEW h, Whole(h), NEW commit \in Nat, NEW total \in Nat,
           NEW header \in {HeapHeader, SUBHEAP}, NEW s, s = h.top, Granule <= s,
           NEW size, size = TotalSize(commit, total), header + 5 <= size,
           NEW g, g = CreateSubHeap(h, commit, total, header)
    PROVE  SubHeapMade(h, g, s, s + header, size, FirstCommit(commit))
<1> DEFINE D == DOMAIN h.arena
           c == FirstCommit(commit)
           sub == [size |-> size, headerSize |-> header, commitSize |-> c]
           f == With(h.sub, s, sub)
           k == [[h EXCEPT !.sub = f] EXCEPT !.top = s + size]
           x == s + header
           e == s + size
           S == FreeBlocks(h)
<1>1. h \in HeapType /\ SubsApart(h) /\ Filled(h) /\ Flagged(h) /\ Listed(h, S)
  BY DEF Whole
<1>2. /\ c \in Nat /\ size \in Nat /\ c % Page = 0 /\ size % Page = 0 /\ c <= size
  BY TotalSizeFields DEF Sized
<1>3. s \in Nat /\ header \in Nat /\ 1 <= header /\ x \in Nat /\ e \in Nat
  <2>1. s \in Nat
    BY <1>1 DEF HeapType
  <2>2. header \in Nat /\ 1 <= header
    BY Sizes
  <2> QED
    BY <1>2, <2>1, <2>2
<1>4. g = CreateFreeBlock(k, s, x, size - header)
  BY DEF CreateSubHeap, FirstCommit
<1> HIDE DEF c
<1>5. \A t \in DOMAIN h.sub : /\ t \in Nat /\ First(h, t) \in Nat /\ t < First(h, t)
                              /\ End(h, t) \in Nat /\ End(h, t) <= s /\ t < s
  <2> TAKE t \in DOMAIN h.sub
  <2>1. t \in Nat /\ First(h, t) \in Nat /\ t < First(h, t) /\ End(h, t) \in Nat
    BY <1>1, SubFields
  <2>2. First(h, t) + 5 <= End(h, t) /\ End(h, t) <= s
    BY <1>1, Sizes DEF SubsApart
  <2> QED
    BY <1>3, <2>1, <2>2
<1>6. \A b \in D : b \in Nat /\ After(h, b) \in Nat /\ b < After(h, b) /\ After(h, b) <= s
  <2> TAKE b \in D
  <2>1. b \in Nat /\ After(h, b) \in Nat /\ b < After(h, b)
    BY <1>1, BlockFields
  <2>2. PICK t \in DOMAIN h.sub : First(h, t) <= b /\ After(h, b) <= End(h, t)
    BY <1>1 DEF Filled
  <2> QED
    BY <1>3, <1>5, <2>1, <2>2
<1>7. sub \in SubHeap
  BY <1>2, <1>3 DEF SubHeap
<1>8. /\ sub.size = size /\ sub.headerSize = header /\ sub.commitSize = c
  OBVIOUS
<1> HIDE DEF sub
<1>9. f \in Placed(SubHeap)
  <2>1. h.sub \in Placed(SubHeap)
    BY <1>1 DEF HeapType
  <2> QED
    BY <1>3, <1>7, <2>1, WithPlaced
<1>10. DOMAIN f = DOMAIN h.sub \cup {s} /\ f[s] = sub /\ \A t \in DOMAIN h.sub : f[t] = h.sub[t]
  <2>1. DOMAIN f = DOMAIN h.sub \cup {s} /\ f[s] = sub /\ \A t \in DOMAIN h.sub : t # s => f[t] = h.sub[t]
    BY DEF With
  <2>2. s \notin DOMAIN h.sub
    BY <1>3, <1>5
  <2> QED
    BY <2>1, <2>2
<1> HIDE DEF f, x, e
<1>11. /\ k \in HeapType /\ k.sub = f /\ k.arena = h.arena /\ k.top = e
       /\ k.growable = h.growable /\ k.freeList = h.freeList
  BY <1>1, <1>3, <1>9 DEF HeapType, e
<1> HIDE DEF k
<1>12. /\ End(k, s) = e /\ First(k, s) = x
       /\ \A t \in DOMAIN h.sub : End(k, t) = End(h, t) /\ First(k, t) = First(h, t)
  BY <1>8, <1>10, <1>11 DEF End, First, e, x
<1>13. x \notin D /\ x < e /\ s < x /\ x + 5 <= e /\ size - header \in Nat /\ 5 <= size - header
       /\ e = x + (size - header)
  <2>1. /\ x < e /\ s < x /\ x + 5 <= e /\ size - header \in Nat /\ 5 <= size - header
        /\ e = x + (size - header)
    <3>1. x = s + header /\ e = s + size
      BY DEF x, e
    <3>2. s \in Nat /\ header \in Nat /\ 1 <= header /\ size \in Nat /\ header + 5 <= size
      BY <1>2, <1>3
    <3>3. \A i, j, z \in Nat : 1 <= j /\ j + 5 <= z =>
             /\ i + j < i + z /\ i < i + j /\ i + j + 5 <= i + z
             /\ z - j \in Nat /\ 5 <= z - j /\ i + z = i + j + (z - j)
      OBVIOUS
    <3>4. /\ s + header < s + size /\ s < s + header /\ s + header + 5 <= s + size
          /\ size - header \in Nat /\ 5 <= size - header
          /\ s + size = s + header + (size - header)
      <4> DEFINE t == header
      <4>1. t \in Nat /\ 1 <= t /\ t + 5 <= size /\ s \in Nat /\ size \in Nat
        BY <3>2
      <4> HIDE DEF t
      <4>2. /\ s + t < s + size /\ s < s + t /\ s + t + 5 <= s + size
            /\ size - t \in Nat /\ 5 <= size - t
            /\ s + size = s + t + (size - t)
        BY <3>3, <4>1
      <4> QED
        BY <4>2 DEF t
    <3> QED
      BY <3>1, <3>4
  <2>2. x \notin D
    <3>1. \A b \in D : b # x
      BY <1>3, <1>6, <2>1
    <3> QED
      BY <3>1
  <2> QED
    BY <2>1, <2>2
<1> HIDE DEF S
<1>14. FreeMade(k, g, s, x, e, e, S)
  <2> DEFINE d == size - header
  <2>1. /\ s \in DOMAIN k.sub /\ x \in Nat /\ d \in Nat /\ 5 <= d /\ e = x + d
        /\ g = CreateFreeBlock(k, s, x, d)
    BY <1>3, <1>4, <1>10, <1>11, <1>13
  <2>2. ~ (e < End(k, s))
    BY <1>3, <1>12
  <2>3. Listed(k, S) /\ S \subseteq DOMAIN k.arena /\ x \notin S
    BY <1>1, <1>11, <1>13 DEF Listed, S, FreeBlocks
  <2> HIDE DEF d
  <2>4. e = IF e < End(k, s) /\ k.arena[e].free THEN After(k, e) ELSE e
    BY <2>2
  <2> QED
    BY <1>11, <2>1, <2>2, <2>3, <2>4, CreateFreeBlockFields
<1>15. /\ g \in HeapType /\ g.sub = f /\ g.top = e /\ g.growable = h.growable
       /\ DOMAIN g.arena = D \cup {x}
       /\ g.arena[x] = [size |-> e - x - 5, free |-> TRUE, prevFree |-> FALSE, back |-> None]
       /\ \A b \in D : g.arena[b] = h.arena[b]
       /\ Listed(g, S \cup {x})
  <2>1. ~ (e < End(k, s))
    BY <1>3, <1>12
  <2> QED
    BY <1>11, <1>13, <1>14, <2>1 DEF FreeMade
<1>16. /\ DOMAIN g.sub = DOMAIN h.sub \cup {s} /\ g.sub[s] = sub
       /\ \A t \in DOMAIN h.sub : g.sub[t] = h.sub[t]
       /\ End(g, s) = e /\ First(g, s) = x
       /\ \A t \in DOMAIN h.sub : End(g, t) = End(h, t) /\ First(g, t) = First(h, t)
  <2>1. g.sub = k.sub
    BY <1>11, <1>15
  <2>2. \A t : End(g, t) = End(k, t) /\ First(g, t) = First(k, t)
    BY <2>1 DEF End, First
  <2> QED
    BY <1>10, <1>12, <1>15, <2>2
<1>17. SubsApart(g)
  <2>1. SUFFICES ASSUME NEW t \in DOMAIN g.sub
                 PROVE  /\ Granule <= t /\ End(g, t) <= e
                        /\ First(g, t) + 5 <= End(g, t)
                        /\ g.sub[t].commitSize <= g.sub[t].size
                        /\ g.sub[t].size % Page = 0 /\ g.sub[t].commitSize % Page = 0
                        /\ \A u \in DOMAIN g.sub : t < u => End(g, t) <= u
    BY <1>15, Sizes DEF SubsApart
  <2>2. CASE t = s
    <3>1. \A u \in DOMAIN g.sub : ~ (s < u)
      BY <1>3, <1>5, <1>16
    <3>2. Granule <= s /\ End(g, s) <= e
      BY <1>3, <1>16
    <3>3. First(g, s) + 5 <= End(g, s)
      BY <1>13, <1>16
    <3>4. /\ g.sub[s].commitSize <= g.sub[s].size
          /\ g.sub[s].size % Page = 0 /\ g.sub[s].commitSize % Page = 0
      BY <1>2, <1>8, <1>16
    <3> QED
      BY <2>2, <3>1, <3>2, <3>3, <3>4
  <2>3. CASE t \in DOMAIN h.sub
    <3>1. /\ Granule <= t /\ First(h, t) + 5 <= End(h, t)
          /\ h.sub[t].commitSize <= h.sub[t].size
          /\ h.sub[t].size % Page = 0 /\ h.sub[t].commitSize % Page = 0
          /\ \A u \in DOMAIN h.sub : t < u => End(h, t) <= u
      BY <1>1, <2>3, Sizes DEF SubsApart
    <3>2. \A u \in DOMAIN g.sub : t < u => End(h, t) <= u
      BY <1>5, <1>16, <2>3, <3>1
    <3>3. End(h, t) <= e
      BY <1>3, <1>5, <1>13, <2>3
    <3> QED
      BY <1>16, <2>3, <3>1, <3>2, <3>3
  <2> QED
    BY <1>16, <2>2, <2>3
<1>18. /\ \A b \in D : After(g, b) = After(h, b)
       /\ After(g, x) = e /\ x + g.arena[x].size + 5 = e
       /\ g.arena[x].free /\ ~g.arena[x].prevFree
  <2>1. \A b \in D : After(g, b) = After(h, b)
    BY <1>15 DEF After
  <2>2. g.arena[x].size = e - x - 5 /\ g.arena[x].free /\ ~g.arena[x].prevFree
    BY <1>15
  <2>3. After(g, x) = x + (e - x - 5) + 5
    BY <2>2, Sizes DEF After
  <2> QED
    BY <1>3, <1>13, <2>1, <2>2, <2>3
<1>19. /\ e \notin D \cup {x} /\ Firsts(g) = Firsts(h) \cup {x} /\ Ends(g) = Ends(h) \cup {e}
  <2>1. e \notin D \cup {x}
    BY <1>3, <1>6, <1>13
  <2> QED
    BY <1>16, <2>1 DEF Firsts, Ends
<1>20. Filled(g)
  <2>1. \A a \in DOMAIN g.arena :
           \E t \in DOMAIN g.sub : First(g, t) <= a /\ After(g, a) <= End(g, t)
    <3> TAKE a \in DOMAIN g.arena
    <3>1. CASE a = x
      BY <1>3, <1>16, <1>18, <3>1
    <3>2. CASE a \in D
      <4>1. PICK t \in DOMAIN h.sub : First(h, t) <= a /\ After(h, a) <= End(h, t)
        BY <1>1, <3>2 DEF Filled
      <4> QED
        BY <1>16, <1>18, <3>2, <4>1
    <3> QED
      BY <1>15, <3>1, <3>2
  <2>2. \A a, b \in DOMAIN g.arena : a < b => After(g, a) <= b
    <3> TAKE a, b \in DOMAIN g.arena
    <3>1. CASE a \in D /\ b \in D
      BY <1>1, <1>18, <3>1 DEF Filled
    <3>2. CASE a = x
      BY <1>3, <1>6, <1>13, <1>15, <3>2, SMTT(20)
    <3>3. CASE a \in D /\ b = x
      BY <1>3, <1>6, <1>13, <1>18, <3>3
    <3> QED
      BY <1>15, <3>1, <3>2, <3>3
  <2>3. \A a \in DOMAIN g.arena : After(g, a) \in DOMAIN g.arena \cup Ends(g)
    BY <1>1, <1>15, <1>18, <1>19 DEF Filled
  <2>4. \A p \in DOMAIN g.arena \cup Ends(g) :
           p \in Firsts(g) \/ \E b \in DOMAIN g.arena : After(g, b) = p
    <3> TAKE p \in DOMAIN g.arena \cup Ends(g)
    <3>1. CASE p \in D \cup Ends(h)
      BY <1>1, <1>15, <1>18, <1>19, <3>1 DEF Filled
    <3>2. CASE p = x
      BY <1>19, <3>2
    <3>3. CASE p = e
      BY <1>15, <1>18, <3>3
    <3> QED
      BY <1>15, <1>19, <3>1, <3>2, <3>3
  <2>5. Firsts(g) \subseteq DOMAIN g.arena
    BY <1>1, <1>15, <1>19 DEF Filled
  <2> QED
    BY <2>1, <2>2, <2>3, <2>4, <2>5 DEF Filled
<1>21. Flagged(g)
  <2>1. SUFFICES ASSUME NEW a \in DOMAIN g.arena
                 PROVE  /\ g.arena[a].prevFree =>
                             /\ g.arena[a].back \in DOMAIN g.arena
                             /\ g.arena[g.arena[a].back].free
                             /\ After(g, g.arena[a].back) = a
                        /\ g.arena[a].free /\ After(g, a) \in DOMAIN g.arena =>
                             /\ g.arena[After(g, a)].prevFree
                             /\ g.arena[After(g, a)].back = a
                             /\ ~g.arena[After(g, a)].free
    BY DEF Flagged
  <2>2. CASE a = x
    BY <1>15, <1>18, <1>19, <2>2
  <2>3. CASE a \in D
    <3>1. h.arena[a].prevFree =>
            /\ h.arena[a].back \in D
            /\ h.arena[h.arena[a].back].free
            /\ After(h, h.arena[a].back) = a
      BY <1>1, <2>3 DEF Flagged
    <3>2. h.arena[a].free /\ After(h, a) \in D =>
            /\ h.arena[After(h, a)].prevFree
            /\ h.arena[After(h, a)].back = a
            /\ ~h.arena[After(h, a)].free
      BY <1>1, <2>3 DEF Flagged
    <3>3. After(h, a) # x
      BY <1>3, <1>6, <1>13, <2>3
    <3> QED
      BY <1>15, <1>18, <2>3, <3>1, <3>2, <3>3
  <2> QED
    BY <1>15, <2>2, <2>3
<1>22. FreeBlocks(g) = S \cup {x} /\ InUse(g) = InUse(h)
  BY <1>13, <1>15, <1>18 DEF FreeBlocks, InUse, S
<1>23. Whole(g)
  BY <1>15, <1>17, <1>20, <1>21, <1>22 DEF Whole
<1>24. FindSubHeap(g, x) = s
  <2>1. s \in DOMAIN g.sub /\ s <= x /\ x < End(g, s)
    BY <1>3, <1>13, <1>16
  <2> QED
    BY <1>3, <1>15, <1>17, <2>1, SubFound
<1>25. ASSUME NEW b \in D
       PROVE  CommittedTo(g, b) = CommittedTo(h, b) /\ FindSubHeap(g, b) = FindSubHeap(h, b)
  <2>1. PICK t \in DOMAIN h.sub : First(h, t) <= b /\ After(h, b) <= End(h, t)
    BY <1>1 DEF Filled
  <2>2. t <= b /\ b < End(h, t) /\ b \in Nat
    BY <1>5, <1>6, <2>1
  <2>3. FindSubHeap(h, b) = t
    BY <1>1, <2>2, SubFound
  <2>4. FindSubHeap(g, b) = t
    BY <1>15, <1>16, <1>17, <2>2, SubFound
  <2> QED
    BY <1>16, <2>3, <2>4 DEF CommittedTo
<1>26. CommittedTo(g, x) = s + c
  BY <1>8, <1>16, <1>24 DEF CommittedTo
<1>27. \A b \in InUse(h) : /\ g.arena[b] = h.arena[b] /\ CommittedTo(g, b) = CommittedTo(h, b)
                           /\ FindSubHeap(g, b) = FindSubHeap(h, b)
  BY <1>15, <1>25 DEF InUse
<1>28. \A b \in FreeBlocks(g) \ {x} : b \in FreeBlocks(h) /\ CommittedTo(g, b) = CommittedTo(h, b)
  BY <1>22, <1>25 DEF S, FreeBlocks
<1> QED
  BY <1>15, <1>18, <1>22, <1>23, <1>24, <1>26, <1>27, <1>28 DEF SubHeapMade, x, e, c

\* Up to where something is committed is a number.
LEMMA CommittedNat ==
    ASSUME SizeAssumption, NEW h, Whole(h), NEW a \in DOMAIN h.arena
    PROVE  CommittedTo(h, a) \in Nat
<1>1. FindSubHeap(h, a) \in DOMAIN h.sub
  BY NextPlace
<1>2. h \in HeapType
  BY DEF Whole
<1> QED
  BY <1>1, <1>2, SubFields DEF CommittedTo

----------------------------------------------------------------------------
(* What is allocated *)

\* A new sub-heap for size words is committed as far as the arena of what is left over.
Ample(size) == ~(RoundUp(NewSize(size), Granule) < SUBHEAP + ARENA_INUSE + size + ARENA_FREE)

\* A free block that has the size, and of which that much, if not all, is committed: the
\* arena of what is left over too, unless the sub-heap is new and too short for it.
BlockReady(h, g, s, a, size) ==
    /\ Whole(g) /\ g.top \in Granule .. Space /\ g.growable = h.growable
    /\ a \in FreeBlocks(g) /\ s = FindSubHeap(g, a) /\ size <= g.arena[a].size
    /\ InUse(g) = InUse(h)
    /\ \A b \in InUse(h) : /\ g.arena[b] = h.arena[b] /\ CommittedTo(h, b) <= CommittedTo(g, b)
                           /\ FindSubHeap(g, b) = FindSubHeap(h, b)
    /\ \A u \in {After(g, a), a + size + 4} :
          u <= After(g, a) /\ u < Reach(a, size) => u <= CommittedTo(g, a)
    /\ FreeCommitted(h) => FreeCommitted(g)
    /\ (Fitting(h, size) # {} \/ Ample(size)) /\ a + size + 11 <= After(g, a) =>
          a + size + 9 <= CommittedTo(g, a)

\* That is what HEAP_FindFreeBlock finds in the lists.
LEMMA ListedReady ==
    ASSUME SizeAssumption, NEW h, Whole(h), h.top \in Granule .. Space,
           NEW size \in Nat, Fitting(h, size) # {}, NEW a, a = FirstFit(h, size),
           NEW s, s = FindSubHeap(h, a), NEW g, g = Commit(h, s, Reach(a, size))
    PROVE  BlockReady(h, g, s, a, size)
<1>1. a \in FreeBlocks(h) /\ size <= h.arena[a].size
  BY FitFound
<1>2. a \in DOMAIN h.arena
  BY <1>1 DEF FreeBlocks
<1> DEFINE e == After(h, a)
           r == Reach(a, size)
<1>3. /\ s \in DOMAIN h.sub /\ s \in Nat /\ First(h, s) \in Nat /\ End(h, s) \in Nat
      /\ First(h, s) <= a /\ e <= End(h, s) /\ e \in Nat /\ a \in Nat /\ a + 4 <= e
  BY <1>2, NextPlace
<1>4. s < First(h, s)
  BY <1>3, SubFields DEF Whole
<1>5. r = a + size + 11 /\ r \in Nat /\ s <= r
  <2>1. r = a + 4 + size + (2 + 5)
    BY DEF Reach, ARENA_INUSE, ARENA_FREE, HEAP_MIN_BLOCK_SIZE
  <2> HIDE DEF r
  <2> QED
    BY <1>3, <1>4, <2>1, SMTT(20)
<1> HIDE DEF r, e
<1>6. /\ Whole(g) /\ g.arena = h.arena /\ g.top = h.top /\ g.growable = h.growable
      /\ \A b \in DOMAIN h.arena : /\ FindSubHeap(g, b) = FindSubHeap(h, b)
                                   /\ CommittedTo(h, b) <= CommittedTo(g, b)
      /\ \A u \in Nat : u <= r /\ u <= End(h, s) => u <= s + g.sub[s].commitSize
  <2>1. g = Commit(h, s, r)
    BY DEF r
  <2> QED
    BY <1>3, <1>5, <2>1, CommitWhole, SMTT(20)
<1>7. FreeBlocks(g) = FreeBlocks(h) /\ InUse(g) = InUse(h) /\ After(g, a) = e
  BY <1>6 DEF FreeBlocks, InUse, After, e
<1>8. CommittedTo(g, a) = s + g.sub[s].commitSize
  BY <1>2, <1>6 DEF CommittedTo
<1>9. ASSUME NEW u \in {e, a + size + 4}, u <= e, u < r
      PROVE  u <= CommittedTo(g, a)
  <2>1. u \in Nat
    BY <1>3, <1>9
  <2>2. u <= r /\ u <= End(h, s)
    BY <1>3, <1>5, <1>9, <2>1, SMTT(20)
  <2> QED
    BY <1>6, <1>8, <2>1, <2>2
<1>10. \A b \in InUse(h) : b \in DOMAIN h.arena
  BY DEF InUse
<1>11. FreeCommitted(h) => FreeCommitted(g)
  <2>1. SUFFICES ASSUME FreeCommitted(h), NEW b \in FreeBlocks(h)
                 PROVE  b + 5 <= CommittedTo(g, b)
    BY <1>7 DEF FreeCommitted
  <2>2. b \in DOMAIN h.arena /\ b \in Nat
    BY BlockFields DEF FreeBlocks, Whole
  <2>3. b + 5 <= CommittedTo(h, b) /\ CommittedTo(h, b) <= CommittedTo(g, b)
    BY <1>6, <2>1, <2>2 DEF FreeCommitted
  <2>4. CommittedTo(h, b) \in Nat /\ CommittedTo(g, b) \in Nat
    BY <1>6, <2>2, CommittedNat
  <2> DEFINE i == CommittedTo(h, b)
             j == CommittedTo(g, b)
  <2> HIDE DEF i, j
  <2>5. b + 5 <= j
    BY <2>2, <2>3, <2>4 DEF i, j
  <2> QED
    BY <2>5 DEF j
<1>12. a + size + 11 <= e => a + size + 9 <= CommittedTo(g, a)
  <2> SUFFICES ASSUME a + size + 11 <= e PROVE a + size + 9 <= CommittedTo(g, a)
    OBVIOUS
  <2>1. a + size + 9 \in Nat /\ a + size + 9 <= r /\ a + size + 9 <= End(h, s)
    BY <1>3, <1>5
  <2> QED
    BY <1>6, <1>8, <2>1
<1> QED
  BY <1>1, <1>2, <1>6, <1>7, <1>9, <1>10, <1>11, <1>12 DEF BlockReady, r

\* A block of p words in a new sub-heap at s has the size, and as much of it is
\* committed: c of its z words are.
GrownFits(s, size, c, z, p) ==
    /\ size <= p
    /\ \A u \in {s + z, s + SUBHEAP + size + 4} :
          u <= s + z /\ u < Reach(s + SUBHEAP, size) => u <= s + c

\* What is committed of a new sub-heap suffices for the block it is made for.
LEMMA GrownNumbers ==
    ASSUME SizeAssumption, NEW s \in Nat, NEW size \in Nat, NEW c \in Nat, NEW z \in Nat,
           NEW p \in Nat, size + 11 <= c, c <= z, c = z \/ c + Granule <= z,
           s + SUBHEAP + p + 5 = s + z
    PROVE  GrownFits(s, size, c, z, p)
<1>1. Granule \in Nat /\ 6 <= Granule
  BY Sizes
<1>2. s + 6 + p + 5 = s + z
  <2>1. SUBHEAP = 6
    BY DEF SUBHEAP
  <2> QED
    BY <2>1
<1>3. size <= p
  BY <1>2
<1>4. c # z => size + 17 <= z
  BY <1>1
<1>5. \A u \in {s + z, s + 6 + size + 4} : u <= s + z /\ u < s + 6 + 4 + size + 7 => u <= s + c
  BY <1>4
<1> QED
  BY <1>3, <1>5 DEF GrownFits, Reach, SUBHEAP, ARENA_INUSE, ARENA_FREE, HEAP_MIN_BLOCK_SIZE

\* And so is the block of a new sub-heap, of which as much is committed as the block and
\* the headers take: if the block ends behind that, it is split.
LEMMA GrownReady ==
    ASSUME SizeAssumption, NEW h, Whole(h), h.top \in Granule .. Space,
           NEW size \in Nat, Grows(h, size), NEW s \in Nat, s = h.top,
           NEW a \in Nat, a = s + SUBHEAP,
           NEW g, g = CreateSubHeap(h, NewSize(size), Max({DefSize, NewSize(size)}), SUBHEAP)
    PROVE  BlockReady(h, g, s, a, size)
<1> DEFINE n == NewSize(size)
           total == Max({DefSize, n})
           z == TotalSize(n, total)
           c == FirstCommit(n)
<1>1. /\ Granule \in Nat /\ 6 <= Granule /\ DefSize \in Nat /\ Space \in Nat
  BY Sizes
<1>2. n \in Nat /\ n = size + 11
  <2>1. n = size + 6 + 5
    BY DEF NewSize, SUBHEAP, ARENA_FREE
  <2> HIDE DEF n
  <2> QED
    BY <2>1
<1> HIDE DEF n
<1>3. total \in Nat
  <2>1. total = IF DefSize <= n THEN n ELSE DefSize
    BY <1>1, <1>2, OfTwo
  <2> HIDE DEF total
  <2> QED
    BY <1>1, <1>2, <2>1
<1>4. s + z <= Space
  BY DEF Grows, n
<1> HIDE DEF total, z, c
<1>5. /\ c \in Nat /\ z \in Nat /\ n <= c /\ c <= z /\ (c = z \/ c + Granule <= z)
  <2>1. c = FirstCommit(n) /\ z = TotalSize(n, total)
    BY DEF c, z
  <2>2. Sized(n, c, z)
    BY <1>2, <1>3, <2>1, TotalSizeFields
  <2> QED
    BY <2>2 DEF Sized
<1>6. s \in Nat /\ Granule <= s /\ a = s + 6 /\ a \in Nat
  <2>1. h.top \in Nat
    BY DEF Whole, HeapType
  <2> QED
    BY <1>1, <2>1 DEF SUBHEAP
<1>7. SubHeapMade(h, g, s, a, z, c)
  <2>1. SUBHEAP + 5 <= z
    BY <1>2, <1>5 DEF SUBHEAP
  <2>2. g = CreateSubHeap(h, n, total, SUBHEAP)
    BY DEF n, total
  <2>3. SUBHEAP \in {HeapHeader, SUBHEAP}
    OBVIOUS
  <2>4. SubHeapMade(h, g, s, s + SUBHEAP, z, FirstCommit(n))
    BY <1>2, <1>3, <1>6, <2>1, <2>2, <2>3, CreateSubHeapFields DEF z
  <2> QED
    BY <2>4 DEF c
<1> DEFINE p == g.arena[a].size
           e == After(g, a)
           k == CommittedTo(g, a)
<1>8. /\ Whole(g) /\ g.top = s + z /\ g.growable = h.growable
      /\ a \in FreeBlocks(g) /\ a + p + 5 = s + z /\ e = s + z
      /\ FindSubHeap(g, a) = s /\ k = s + c
      /\ InUse(g) = InUse(h)
      /\ \A b \in InUse(h) : /\ g.arena[b] = h.arena[b] /\ CommittedTo(g, b) = CommittedTo(h, b)
                             /\ FindSubHeap(g, b) = FindSubHeap(h, b)
      /\ \A b \in FreeBlocks(g) \ {a} :
            b \in FreeBlocks(h) /\ CommittedTo(g, b) = CommittedTo(h, b)
  BY <1>7 DEF SubHeapMade
<1>9. p \in Nat
  BY <1>8, BlockFields DEF Whole, FreeBlocks
<1> HIDE DEF p, e, k
<1>10. GrownFits(s, size, c, z, p)
  <2>1. size + 11 <= c
    BY <1>2, <1>5
  <2>2. s + SUBHEAP + p + 5 = s + z
    BY <1>8
  <2> QED
    BY <1>5, <1>9, <2>1, <2>2, GrownNumbers
<1>11. g.top \in Granule .. Space
  <2>1. s + z \in Granule .. Space
    BY ONLY <1>1, <1>4, <1>5, <1>6
  <2> QED
    BY <1>8, <2>1
<1>12. size <= p
  BY <1>10 DEF GrownFits
<1>13. \A u \in {e, a + size + 4} : u <= e /\ u < Reach(a, size) => u <= k
  BY <1>8, <1>10 DEF GrownFits
<1>14. \A b \in InUse(h) : CommittedTo(h, b) <= CommittedTo(g, b)
  <2> TAKE b \in InUse(h)
  <2>1. CommittedTo(h, b) \in Nat
    BY CommittedNat DEF InUse
  <2>2. CommittedTo(g, b) = CommittedTo(h, b)
    BY <1>8
  <2> QED
    BY <2>1, <2>2
<1>15. FreeCommitted(h) => FreeCommitted(g)
  <2>1. a + 5 <= k
    BY <1>2, <1>5, <1>6, <1>8
  <2>2. SUFFICES ASSUME FreeCommitted(h), NEW b \in FreeBlocks(g)
                 PROVE  b + 5 <= CommittedTo(g, b)
    BY DEF FreeCommitted
  <2>3. CASE b = a
    BY <2>1, <2>3 DEF k
  <2>4. CASE b # a
    BY <1>8, <2>2, <2>4 DEF FreeCommitted
  <2> QED
    BY <2>3, <2>4
<1>16. Ample(size) => a + size + 9 <= k
  <2>0. a = s + 6 /\ k = s + c /\ s \in Nat /\ c \in Nat
    BY <1>5, <1>6, <1>8
  <2>1. SUFFICES ASSUME Ample(size) PROVE a + size + 9 <= k
    OBVIOUS
  <2> DEFINE i == RoundUp(n, Granule)
  <2>2. c = Max({i, Granule})
    BY DEF c, FirstCommit
  <2>3. i \in Nat
    BY <1>1, <1>2, RoundUpUp, Sizes
  <2>4. ~ (i < 6 + 4 + size + 5)
    BY <2>1 DEF Ample, n, SUBHEAP, ARENA_INUSE, ARENA_FREE
  <2> HIDE DEF i
  <2>5. c = IF i <= Granule THEN Granule ELSE i
    BY <1>1, <2>2, <2>3, OfTwo
  <2>6. size + 15 <= c
    BY <1>1, <2>3, <2>4, <2>5
  <2> HIDE DEF c
  <2> QED
    BY ONLY <2>0, <2>6, size \in Nat
<1>17. Fitting(h, size) = {}
  BY DEF Grows
<1> QED
  BY <1>8, <1>11, <1>12, <1>13, <1>14, <1>15, <1>16, <1>17 DEF BlockReady, p, e, k

\* A block that is taken.
Got(h, g, a, size) ==
    /\ Whole(g) /\ g.top \in Granule .. Space /\ g.growable = h.growable
    /\ a \notin InUse(h) /\ InUse(g) = InUse(h) \cup {a} /\ Kept(h, g, InUse(h))
    /\ \A b \in InUse(h) : FindSubHeap(g, b) = FindSubHeap(h, b)
    /\ size <= g.arena[a].size /\ After(g, a) <= CommittedTo(g, a)
    /\ FreeCommitted(h) /\ (Fitting(h, size) # {} \/ Ample(size)) => FreeCommitted(g)

\* All of a block is in one sub-heap.
LEMMA SameSubHeap ==
    ASSUME SizeAssumption, NEW h, Whole(h), NEW a \in DOMAIN h.arena,
           NEW b \in Nat, a <= b, b < After(h, a)
    PROVE  FindSubHeap(h, b) = FindSubHeap(h, a)
<1> DEFINE s == FindSubHeap(h, a)
<1>1. /\ s \in DOMAIN h.sub /\ s \in Nat /\ First(h, s) \in Nat /\ End(h, s) \in Nat
      /\ First(h, s) <= a /\ After(h, a) <= End(h, s) /\ After(h, a) \in Nat /\ a \in Nat
  BY NextPlace
<1>2. s < First(h, s)
  BY <1>1, SubFields DEF Whole
<1> HIDE DEF s
<1>3. s <= b /\ b < End(h, s)
  BY <1>1, <1>2
<1> QED
  BY <1>1, <1>3, SubFound DEF Whole, s

\* The blocks stay when sizes do and no less is committed.
LEMMA KeptIf ==
    ASSUME SizeAssumption, NEW h, Whole(h), NEW g, Whole(g), NEW B, B \subseteq InUse(h),
           B \subseteq InUse(g),
           \A b \in B : g.arena[b].size = h.arena[b].size /\ CommittedTo(h, b) <= CommittedTo(g, b)
    PROVE  Kept(h, g, B)
<1>1. \A b \in B : CommittedTo(h, b) \in Nat /\ CommittedTo(g, b) \in Nat
  BY CommittedNat DEF InUse
<1> QED
  BY <1>1 DEF Kept

\* Take hands out a block that was not in use, large enough and committed.
LEMMA TakeGot ==
    ASSUME SizeAssumption, NEW h, Whole(h), h.top \in Granule .. Space,
           NEW size \in Nat, Found(h, size), NEW f, f = FindFreeBlock(h, size),
           NEW g, g = Take(f.heap, f.sub, f.block, size)
    PROVE  Got(h, g, f.block, size)
<1> DEFINE k == f.heap
           s == f.sub
           a == f.block
<1>1. BlockReady(h, k, s, a, size)
  <2>1. CASE Fitting(h, size) # {}
    <3>1. /\ a = FirstFit(h, size) /\ s = FindSubHeap(h, FirstFit(h, size))
          /\ k = Commit(h, FindSubHeap(h, FirstFit(h, size)), Reach(FirstFit(h, size), size))
      BY <2>1 DEF FindFreeBlock
    <3> HIDE DEF k, s, a
    <3> QED
      BY <2>1, <3>1, ListedReady
  <2>2. CASE Fitting(h, size) = {}
    <3>1. /\ s = h.top /\ a = h.top + SUBHEAP
          /\ k = CreateSubHeap(h, NewSize(size), Max({DefSize, NewSize(size)}), SUBHEAP)
      BY <2>2 DEF FindFreeBlock
    <3>2. Grows(h, size)
      BY <2>2 DEF Found
    <3> HIDE DEF k, s, a
    <3>3. s \in Nat /\ a \in Nat
      <4>1. s \in Nat
        BY <3>1 DEF Whole, HeapType
      <4> QED
        BY <3>1, <4>1 DEF SUBHEAP
    <3>4. a = s + SUBHEAP
      BY <3>1
    <3> QED
      BY <3>1, <3>2, <3>3, <3>4, GrownReady
  <2> QED
    BY <2>1, <2>2
<1>2. g = Take(k, s, a, size)
  OBVIOUS
<1> HIDE DEF k, s, a
<1>3. /\ Whole(k) /\ k.top \in Granule .. Space /\ k.growable = h.growable
      /\ a \in FreeBlocks(k) /\ s = FindSubHeap(k, a) /\ size <= k.arena[a].size
      /\ InUse(k) = InUse(h)
      /\ \A b \in InUse(h) : /\ k.arena[b] = h.arena[b] /\ CommittedTo(h, b) <= CommittedTo(k, b)
                             /\ FindSubHeap(k, b) = FindSubHeap(h, b)
      /\ \A u \in {After(k, a), a + size + 4} :
            u <= After(k, a) /\ u < Reach(a, size) => u <= CommittedTo(k, a)
      /\ FreeCommitted(h) => FreeCommitted(k)
      /\ (Fitting(h, size) # {} \/ Ample(size)) /\ a + size + 11 <= After(k, a) =>
            a + size + 9 <= CommittedTo(k, a)
  BY <1>1 DEF BlockReady
<1>4. /\ Whole(g) /\ g.sub = k.sub /\ g.top = k.top /\ g.growable = k.growable
      /\ InUse(g) = InUse(k) \cup {a}
      /\ \A b \in InUse(k) : g.arena[b].size = k.arena[b].size
      /\ size <= g.arena[a].size /\ After(g, a) <= After(k, a) /\ After(g, a) < Reach(a, size)
      /\ After(g, a) = After(k, a) \/ After(g, a) = a + size + 4
      /\ \A b \in FreeBlocks(g) :
            b \in FreeBlocks(k) \/ (b = a + size + 4 /\ b + 7 <= After(k, a))
  BY <1>2, <1>3, TakeWhole
<1>5. \A b : FindSubHeap(g, b) = FindSubHeap(k, b) /\ CommittedTo(g, b) = CommittedTo(k, b)
  BY <1>4, FoundSame
<1>6. After(g, a) <= CommittedTo(g, a)
  BY <1>3, <1>4, <1>5
<1>7. a \notin InUse(h)
  BY <1>3 DEF InUse, FreeBlocks
<1>8. Kept(h, g, InUse(h))
  <2>1. \A b \in InUse(h) :
            g.arena[b].size = h.arena[b].size /\ CommittedTo(h, b) <= CommittedTo(g, b)
    BY <1>3, <1>4, <1>5
  <2>2. InUse(h) \subseteq InUse(g)
    BY <1>3, <1>4
  <2> QED
    BY <1>4, <2>1, <2>2, KeptIf
<1>9. ASSUME FreeCommitted(h), Fitting(h, size) # {} \/ Ample(size), NEW b \in FreeBlocks(g)
      PROVE  b + 5 <= CommittedTo(g, b)
  <2>1. CASE b \in FreeBlocks(k)
    BY <1>3, <1>5, <1>9, <2>1 DEF FreeCommitted
  <2>2. CASE b = a + size + 4 /\ b + 7 <= After(k, a)
    <3>1. a \in DOMAIN k.arena /\ a \in Nat /\ After(k, a) \in Nat
      BY <1>3, BlockFields DEF FreeBlocks, Whole
    <3>2. /\ b \in Nat /\ a <= b /\ b < After(k, a) /\ a + size + 11 <= After(k, a)
          /\ b + 5 = a + size + 9
      BY <2>2, <3>1
    <3>3. CommittedTo(k, b) = CommittedTo(k, a)
      BY <1>3, <3>1, <3>2, SameSubHeap DEF CommittedTo
    <3>4. a + size + 9 <= CommittedTo(k, a)
      BY <1>3, <1>9, <3>2
    <3> QED
      BY <1>5, <3>2, <3>3, <3>4
  <2> QED
    BY <1>4, <2>1, <2>2
<1>10. FreeCommitted(h) /\ (Fitting(h, size) # {} \/ Ample(size)) => FreeCommitted(g)
  BY <1>9 DEF FreeCommitted
<1> QED
  BY <1>3, <1>4, <1>5, <1>6, <1>7, <1>8, <1>10 DEF Got, a

----------------------------------------------------------------------------
(* What the program holds *)

\* The block at a holds n words for the program, and c of them are committed; so is all
\* of the block, unless it is one that could not be enlarged.
Holds(h, a, n, c, all) ==
    /\ n \in Nat /\ HEAP_MIN_BLOCK_SIZE <= n /\ n <= h.arena[a].size
    /\ c \in Nat /\ HEAP_MIN_BLOCK_SIZE <= c /\ c <= h.arena[a].size
    /\ a + ARENA_INUSE + c <= CommittedTo(h, a)
    /\ all => After(h, a) <= CommittedTo(h, a)

\* Of what is held at p, this much is committed for certain.
Sure(gr, fa, p) == IF p \in DOMAIN fa THEN fa[p] ELSE gr[p]

HoldsAt(h, a, gr, fa) ==
    LET p == a + ARENA_INUSE
    IN  Holds(h, a, gr[p], Sure(gr, fa, p), p \notin DOMAIN fa)

\* The blocks in use are those the program holds.
Covered(h, gr, fa) ==
    /\ DOMAIN gr = {a + ARENA_INUSE : a \in InUse(h)} /\ DOMAIN fa \subseteq DOMAIN gr
    /\ \A a \in InUse(h) : HoldsAt(h, a, gr, fa)

\* At p as much is held, and as much of it committed.
SameAt(gr, fa, gs, fb, p) ==
    /\ gs[p] = gr[p] /\ (p \in DOMAIN fb <=> p \in DOMAIN fa)
    /\ p \in DOMAIN fa => fb[p] = fa[p]

\* What stays holds what it held.
LEMMA KeptHolds ==
    ASSUME SizeAssumption, NEW h, Whole(h), NEW g, Whole(g), NEW B, B \subseteq InUse(h), Kept(h, g, B),
           NEW a \in B, NEW n, NEW c, NEW all, Holds(h, a, n, c, all)
    PROVE  Holds(g, a, n, c, all)
<1>1. a \in InUse(h) /\ a \in InUse(g) /\ g.arena[a].size = h.arena[a].size
  BY DEF Kept
<1>2. /\ a \in DOMAIN h.arena /\ ~h.arena[a].free /\ a \in DOMAIN g.arena /\ ~g.arena[a].free
  BY <1>1 DEF InUse
<1> DEFINE e == After(h, a)
           p == h.arena[a].size
           k == CommittedTo(h, a)
           l == CommittedTo(g, a)
<1>3. After(g, a) = e
  BY <1>1, <1>2 DEF After
<1>4. e \in Nat /\ a \in Nat /\ p \in Nat /\ e = a + p + 4
  BY <1>2, BlockFields DEF Whole
<1>5. \A u \in Nat : u <= e /\ u <= k => u <= l
  BY DEF Kept
<1>6. c \in Nat /\ c <= p /\ a + 4 + c <= k /\ (all => e <= k)
  BY DEF Holds, ARENA_INUSE
<1> HIDE DEF e, p, k, l
<1>7. a + 4 + c \in Nat /\ a + 4 + c <= e
  BY <1>4, <1>6
<1>8. a + 4 + c <= l /\ (all => e <= l)
  BY <1>4, <1>5, <1>6, <1>7
<1> QED
  BY <1>1, <1>3, <1>8 DEF Holds, ARENA_INUSE, e, l

\* And it is the same block to the program.
LEMMA KeptHoldsAt ==
    ASSUME SizeAssumption, NEW h, Whole(h), NEW g, Whole(g), NEW B, B \subseteq InUse(h), Kept(h, g, B),
           NEW a \in B, NEW gr, NEW fa, HoldsAt(h, a, gr, fa),
           NEW gs, NEW fb, SameAt(gr, fa, gs, fb, a + ARENA_INUSE)
    PROVE  HoldsAt(g, a, gs, fb)
<1> DEFINE p == a + ARENA_INUSE
<1>1. Holds(h, a, gr[p], Sure(gr, fa, p), p \notin DOMAIN fa)
  BY DEF HoldsAt
<1>2. Holds(g, a, gr[p], Sure(gr, fa, p), p \notin DOMAIN fa)
  BY <1>1, KeptHolds
<1>3. gs[p] = gr[p] /\ Sure(gs, fb, p) = Sure(gr, fa, p) /\ (p \notin DOMAIN fb <=> p \notin DOMAIN fa)
  BY DEF SameAt, Sure
<1>4. Holds(g, a, gs[p], Sure(gs, fb, p), p \notin DOMAIN fb)
  BY <1>2, <1>3 DEF Holds
<1> QED
  BY <1>4 DEF HoldsAt

\* Where the memory of a block in use begins, and whose it is.
LEMMA AddressOf ==
    ASSUME NEW h, Whole(h)
    PROVE  \A a, b \in InUse(h) :
              /\ a \in Nat /\ a + ARENA_INUSE \in Nat /\ (a + ARENA_INUSE) - ARENA_INUSE = a
              /\ a + ARENA_INUSE = b + ARENA_INUSE => a = b
<1>1. \A a \in InUse(h) : a \in Nat
  BY BlockFields DEF InUse, Whole
<1> QED
  BY <1>1 DEF ARENA_INUSE

\* A block that is committed whole holds what it was given.
LEMMA WholeHolds ==
    ASSUME SizeAssumption, NEW g, Whole(g), NEW a \in InUse(g),
           NEW size \in Nat, HEAP_MIN_BLOCK_SIZE <= size, size <= g.arena[a].size,
           After(g, a) <= CommittedTo(g, a)
    PROVE  Holds(g, a, size, size, TRUE)
<1> DEFINE z == g.arena[a].size
           e == After(g, a)
           k == CommittedTo(g, a)
<1>1. a \in DOMAIN g.arena /\ ~g.arena[a].free
  BY DEF InUse
<1>2. z \in Nat /\ e = a + z + 4 /\ a \in Nat /\ e \in Nat
  BY <1>1, BlockFields DEF Whole
<1>3. k \in Nat
  BY <1>1, CommittedNat
<1>4. size <= z /\ e <= k
  OBVIOUS
<1> HIDE DEF z, e, k
<1>5. a + 4 + size <= k
  BY <1>2, <1>3, <1>4
<1> QED
  BY <1>4, <1>5 DEF Holds, ARENA_INUSE, z, e, k

\* One block is taken.
LEMMA GotCovered ==
    ASSUME SizeAssumption, NEW h, Whole(h), NEW gr, NEW fa, Covered(h, gr, fa),
           NEW g, NEW a, NEW size \in Nat, HEAP_MIN_BLOCK_SIZE <= size, Got(h, g, a, size)
    PROVE  Covered(g, With(gr, a + ARENA_INUSE, size), fa) /\ a + ARENA_INUSE \notin DOMAIN gr
<1> DEFINE q == a + ARENA_INUSE
           G == With(gr, q, size)
<1>1. /\ Whole(g) /\ a \notin InUse(h) /\ InUse(g) = InUse(h) \cup {a} /\ Kept(h, g, InUse(h))
      /\ size <= g.arena[a].size /\ After(g, a) <= CommittedTo(g, a)
  BY DEF Got
<1>2. /\ DOMAIN gr = {b + ARENA_INUSE : b \in InUse(h)} /\ DOMAIN fa \subseteq DOMAIN gr
      /\ \A b \in InUse(h) : HoldsAt(h, b, gr, fa)
  BY DEF Covered
<1>3. \A b \in InUse(h) : b + ARENA_INUSE # q
  <2>1. a \in InUse(g) /\ InUse(h) \subseteq InUse(g)
    BY <1>1
  <2> QED
    BY <1>1, <2>1, AddressOf
<1>4. q \notin DOMAIN gr
  BY <1>2, <1>3
<1> HIDE DEF q
<1>5. DOMAIN G = DOMAIN gr \cup {q} /\ G[q] = size /\ \A p \in DOMAIN gr : G[p] = gr[p]
  BY <1>4 DEF With
<1> HIDE DEF G
<1>6. Holds(g, a, size, size, TRUE)
  BY <1>1, WholeHolds
<1>7. DOMAIN G = {b + ARENA_INUSE : b \in InUse(g)}
  BY <1>1, <1>2, <1>5 DEF q
<1>8. ASSUME NEW b \in InUse(g)
      PROVE  HoldsAt(g, b, G, fa)
  <2>1. CASE b = a
    <3>1. b + ARENA_INUSE = q /\ q \notin DOMAIN fa
      BY <1>2, <1>4, <2>1 DEF q
    <3>2. G[q] = size /\ Sure(G, fa, q) = size
      BY <1>5, <3>1 DEF Sure
    <3>3. Holds(g, b, G[q], Sure(G, fa, q), q \notin DOMAIN fa)
      BY <1>6, <2>1, <3>1, <3>2
    <3> QED
      BY <3>1, <3>3 DEF HoldsAt
  <2>2. CASE b \in InUse(h)
    <3>1. b + ARENA_INUSE \in DOMAIN gr
      BY <1>2, <2>2
    <3>2. SameAt(gr, fa, G, fa, b + ARENA_INUSE)
      BY <1>5, <3>1 DEF SameAt
    <3> QED
      BY <1>1, <1>2, <2>2, <3>2, KeptHoldsAt
  <2> QED
    BY <1>1, <2>1, <2>2
<1>9. DOMAIN fa \subseteq DOMAIN G
  BY <1>2, <1>5
<1>10. Covered(g, G, fa)
  BY <1>7, <1>8, <1>9 DEF Covered
<1> QED
  BY <1>4, <1>10 DEF G, q

\* What is left when one goes.
LEMMA WithoutOther ==
    ASSUME NEW f, NEW x
    PROVE  DOMAIN Without(f, x) = DOMAIN f \ {x} /\ \A y \in DOMAIN f \ {x} : Without(f, x)[y] = f[y]
BY DEF Without, Restrict

\* One is freed.
LEMMA FollowsCovered ==
    ASSUME SizeAssumption, NEW h, Whole(h), NEW gr, NEW fa, Covered(h, gr, fa),
           NEW a \in InUse(h), NEW p, p = a + ARENA_INUSE,
           NEW g, Follows(h, g, InUse(h) \ {a})
    PROVE  Covered(g, Without(gr, p), Without(fa, p))
<1> DEFINE G == Without(gr, p)
           fb == Without(fa, p)
           B == InUse(h) \ {a}
<1>1. Whole(g) /\ InUse(g) = B /\ Kept(h, g, B)
  BY DEF Follows
<1>2. /\ DOMAIN gr = {b + ARENA_INUSE : b \in InUse(h)} /\ DOMAIN fa \subseteq DOMAIN gr
      /\ \A b \in InUse(h) : HoldsAt(h, b, gr, fa)
  BY DEF Covered
<1>3. \A b \in B : b + ARENA_INUSE # p
  BY AddressOf
<1>4. /\ DOMAIN G = DOMAIN gr \ {p} /\ \A q \in DOMAIN gr \ {p} : G[q] = gr[q]
      /\ DOMAIN fb = DOMAIN fa \ {p} /\ \A q \in DOMAIN fa \ {p} : fb[q] = fa[q]
  BY WithoutOther
<1> HIDE DEF G, fb
<1>5. DOMAIN G = {b + ARENA_INUSE : b \in B}
  BY <1>2, <1>3, <1>4
<1>6. ASSUME NEW b \in B
      PROVE  HoldsAt(g, b, G, fb)
  <2>1. b + ARENA_INUSE \in DOMAIN gr \ {p}
    BY <1>2, <1>3
  <2>2. SameAt(gr, fa, G, fb, b + ARENA_INUSE)
    BY <1>4, <2>1 DEF SameAt
  <2>3. B \subseteq InUse(h) /\ HoldsAt(h, b, gr, fa)
    BY <1>2
  <2> HIDE DEF B
  <2> QED
    BY <1>1, <2>2, <2>3, KeptHoldsAt
<1>7. DOMAIN fb \subseteq DOMAIN G
  BY <1>2, <1>4
<1>8. Covered(g, G, fb)
  BY <1>1, <1>5, <1>6, <1>7 DEF Covered
<1> QED
  BY <1>8 DEF G, fb

\* The blocks are the same, and one has another size.
LEMMA ResizedCovered ==
    ASSUME SizeAssumption, NEW h, Whole(h), NEW gr, NEW fa, Covered(h, gr, fa),
           NEW a \in InUse(h), NEW p, p = a + ARENA_INUSE,
           NEW g, Whole(g), InUse(g) = InUse(h), Kept(h, g, InUse(h) \ {a}),
           NEW gs, DOMAIN gs = DOMAIN gr, NEW fb, DOMAIN fb \subseteq DOMAIN fa \cup {p},
           \A q \in DOMAIN gr \ {p} : SameAt(gr, fa, gs, fb, q), HoldsAt(g, a, gs, fb)
    PROVE  Covered(g, gs, fb)
<1> DEFINE B == InUse(h) \ {a}
<1>1. /\ DOMAIN gr = {b + ARENA_INUSE : b \in InUse(h)} /\ DOMAIN fa \subseteq DOMAIN gr
      /\ \A b \in InUse(h) : HoldsAt(h, b, gr, fa)
  BY DEF Covered
<1>2. \A b \in B : b + ARENA_INUSE # p
  BY AddressOf
<1>3. p \in DOMAIN gr
  BY <1>1
<1>4. ASSUME NEW b \in B
      PROVE  HoldsAt(g, b, gs, fb)
  <2>1. b + ARENA_INUSE \in DOMAIN gr /\ b + ARENA_INUSE # p
    BY <1>1, <1>2
  <2>2. SameAt(gr, fa, gs, fb, b + ARENA_INUSE)
    BY <2>1
  <2>3. B \subseteq InUse(h) /\ HoldsAt(h, b, gr, fa) /\ Kept(h, g, B)
    BY <1>1
  <2> HIDE DEF B
  <2> QED
    BY <2>2, <2>3, KeptHoldsAt
<1>5. \A b \in InUse(h) : HoldsAt(g, b, gs, fb)
  <2> TAKE b \in InUse(h)
  <2>1. CASE b = a
    BY <2>1
  <2>2. CASE b # a
    BY <1>4, <2>2
  <2> QED
    BY <2>1, <2>2
<1>6. DOMAIN fb \subseteq DOMAIN gs
  BY <1>1, <1>3
<1> QED
  BY <1>1, <1>5, <1>6 DEF Covered

\* So it is when it is committed whole and is given a size.
LEMMA RegrownCovered ==
    ASSUME SizeAssumption, NEW h, Whole(h), NEW gr, NEW fa, Covered(h, gr, fa),
           NEW a \in InUse(h), NEW p, p = a + ARENA_INUSE,
           NEW g, Whole(g), InUse(g) = InUse(h), Kept(h, g, InUse(h) \ {a}),
           NEW size, Holds(g, a, size, size, TRUE)
    PROVE  Covered(g, [gr EXCEPT ![p] = size], Without(fa, p))
<1> DEFINE G == [gr EXCEPT ![p] = size]
           fb == Without(fa, p)
<1>1. p \in DOMAIN gr
  BY DEF Covered
<1>2. DOMAIN G = DOMAIN gr /\ G[p] = size /\ \A q \in DOMAIN gr : q # p => G[q] = gr[q]
  BY <1>1
<1>3. DOMAIN fb = DOMAIN fa \ {p} /\ \A q \in DOMAIN fa \ {p} : fb[q] = fa[q]
  BY WithoutOther
<1> HIDE DEF G, fb
<1>4. \A q \in DOMAIN gr \ {p} : SameAt(gr, fa, G, fb, q)
  BY <1>2, <1>3 DEF SameAt
<1>5. HoldsAt(g, a, G, fb)
  <2>1. p \notin DOMAIN fb /\ Sure(G, fb, p) = size
    BY <1>2, <1>3 DEF Sure
  <2>2. Holds(g, a, G[p], Sure(G, fb, p), p \notin DOMAIN fb)
    BY <1>2, <2>1
  <2> QED
    BY <2>2 DEF HoldsAt
<1>6. DOMAIN fb \subseteq DOMAIN fa \cup {p}
  BY <1>3
<1>7. Covered(g, G, fb)
  BY <1>2, <1>4, <1>5, <1>6, ResizedCovered
<1> QED
  BY <1>7 DEF G, fb

----------------------------------------------------------------------------
(* Every call keeps a heap and what is held of it in order. *)

Standing(h, gr, fa) ==
    Whole(h) /\ h.top \in Granule .. Space /\ Covered(h, gr, fa) /\ FreeCommitted(h)

\* A heap without sub-heaps has nothing in it.
LEMMA NoBlocks ==
    ASSUME NEW h, Whole(h), h.sub = <<>>, NEW gr, NEW fa, Covered(h, gr, fa)
    PROVE  DOMAIN gr = {} /\ DOMAIN fa = {}
<1>1. DOMAIN h.sub = {}
  OBVIOUS
<1>2. InUse(h) = {}
  BY <1>1 DEF Whole, Filled, InUse
<1> QED
  BY <1>2 DEF Covered

\* Nothing is at any address.
LEMMA EmptyPlaced ==
    ASSUME NEW S
    PROVE  <<>> \in Placed(S) /\ DOMAIN <<>> = {}
<1>1. DOMAIN <<>> = {} /\ <<>> = [x \in {} |-> x]
  OBVIOUS
<1>2. [x \in {} |-> x] \in [{} -> S]
  OBVIOUS
<1> QED
  BY <1>1, <1>2 DEF Placed

\* What HeapCreate begins with.
LEMMA EmptyWhole ==
    ASSUME SizeAssumption, NEW b \in BOOLEAN, NEW h, h = [NoHeap EXCEPT !.growable = b]
    PROVE  Whole(h) /\ InUse(h) = {} /\ h.top = Granule /\ h.growable = b /\ h.sub = <<>>
<1>1. /\ h.sub = <<>> /\ h.arena = <<>> /\ h.top = Granule /\ h.growable = b
      /\ h.freeList = [k \in Lists |-> <<>>]
      /\ h = [sub |-> <<>>, arena |-> <<>>, freeList |-> [k \in Lists |-> <<>>],
              top |-> Granule, growable |-> b]
  BY DEF NoHeap
<1>2. <<>> \in Placed(SubHeap) /\ <<>> \in Placed(Block) /\ DOMAIN h.sub = {} /\ DOMAIN h.arena = {}
  BY <1>1, EmptyPlaced
<1>3. \A k \in Lists : h.freeList[k] = <<>>
  BY <1>1
<1>4. <<>> \in Seq(Nat) /\ ToSet(<<>>) = {} /\ IsInjective(<<>>)
  BY DEF ToSet, IsInjective
<1>5. Granule \in Nat
  BY Sizes
<1>6. h \in HeapType
  <2>1. h.freeList \in [Lists -> Seq(Nat)]
    <3>1. \A e, S : e \in S => [k \in Lists |-> e] \in [Lists -> S]
      OBVIOUS
    <3>2. [k \in Lists |-> <<>>] \in [Lists -> Seq(Nat)]
      BY ONLY <1>4, <3>1
    <3> QED
      BY ONLY <1>1, <3>2
  <2>2. h.sub \in Placed(SubHeap) /\ h.arena \in Placed(Block) /\ h.top \in Nat
    BY <1>1, <1>2, <1>5
  <2>3. h = [sub |-> h.sub, arena |-> h.arena, freeList |-> h.freeList, top |-> h.top,
             growable |-> h.growable]
    BY <1>1
  <2>4. h.growable \in BOOLEAN
    BY <1>1
  <2> QED
    BY <2>1, <2>2, <2>3, <2>4 DEF HeapType
<1>7. FreeBlocks(h) = {} /\ InUse(h) = {} /\ Firsts(h) = {} /\ Ends(h) = {}
  BY <1>2 DEF FreeBlocks, InUse, Firsts, Ends
<1>8. Listed(h, {})
  BY <1>3, <1>4 DEF Listed
<1>9. SubsApart(h) /\ Filled(h) /\ Flagged(h)
  BY <1>2, <1>7 DEF SubsApart, Filled, Flagged
<1> QED
  BY <1>1, <1>6, <1>7, <1>8, <1>9 DEF Whole

\* HeapCreate makes a heap in order.
LEMMA CreatedStanding ==
    ASSUME SizeAssumption, NEW b \in BOOLEAN, NEW h, h = [NoHeap EXCEPT !.growable = b],
           NEW initial \in Nat, NEW total \in Nat, h.top + TotalSize(initial, total) <= Space,
           NEW g, g = CreateSubHeap(h, initial, total, HeapHeader),
           NEW gr, DOMAIN gr = {}, NEW fa, DOMAIN fa = {}
    PROVE  Standing(g, gr, fa)
<1> DEFINE c == FirstCommit(initial)
           z == TotalSize(initial, total)
<1>1. Whole(h) /\ InUse(h) = {} /\ h.top = Granule
  BY EmptyWhole
<1>2. Granule \in Nat /\ HeapHeader + 5 <= Granule /\ HeapHeader \in Nat /\ Space \in Nat
  BY Sizes
<1>3. Sized(initial, c, z)
  BY TotalSizeFields
<1>4. c \in Nat /\ z \in Nat /\ Granule <= z
  BY <1>2, <1>3 DEF Sized
<1>5. HeapHeader + 5 <= z /\ h.top + z <= Space
  BY <1>2, <1>4
<1>6. SubHeapMade(h, g, h.top, h.top + HeapHeader, z, c)
  <2>1. Granule <= h.top
    BY <1>1, <1>2
  <2>2. HeapHeader \in {HeapHeader, SUBHEAP}
    OBVIOUS
  <2>3. HeapHeader + 5 <= TotalSize(initial, total)
    BY <1>5
  <2> QED
    BY <1>1, <2>1, <2>2, <2>3, CreateSubHeapFields
<1>7. Whole(g) /\ InUse(g) = {} /\ g.top = Granule + z
  BY <1>1, <1>6 DEF SubHeapMade
<1>8. g.top \in Granule .. Space
  BY <1>1, <1>2, <1>4, <1>5, <1>7
<1>9. Covered(g, gr, fa)
  BY <1>7 DEF Covered
<1>10. FreeCommitted(g)
  <2>1. FreeBlocks(h) = {}
    <3>1. h.arena = <<>>
      BY DEF NoHeap
    <3> QED
      BY <3>1 DEF FreeBlocks
  <2> DEFINE x == h.top + HeapHeader
  <2>2. \A y \in FreeBlocks(g) : y = x
    BY <1>6, <2>1 DEF SubHeapMade
  <2>3. CommittedTo(g, x) = h.top + c
    BY <1>6 DEF SubHeapMade
  <2>4. Granule <= c
    BY <1>3 DEF Sized
  <2>5. x + 5 <= h.top + c
    BY <1>1, <1>2, <1>4, <2>4
  <2> HIDE DEF x
  <2> QED
    BY <2>2, <2>3, <2>5 DEF FreeCommitted
<1> QED
  BY <1>7, <1>8, <1>9, <1>10 DEF Standing

\* What is asked for is never below the least.
LEMMA AskedSize ==
    ASSUME NEW n \in Nat
    PROVE  Asked(n) \in Nat /\ HEAP_MIN_BLOCK_SIZE <= Asked(n) /\ 7 <= Asked(n)
  BY OfTwo DEF Asked, HEAP_MIN_BLOCK_SIZE, ARENA_FREE

\* HeapAlloc hands out a block.
LEMMA AllocatedStanding ==
    ASSUME SizeAssumption, NEW h, NEW gr, NEW fa, Standing(h, gr, fa),
           NEW size \in Nat, HEAP_MIN_BLOCK_SIZE <= size, Found(h, size),
           NEW f, f = FindFreeBlock(h, size),
           NEW g, g = Take(f.heap, f.sub, f.block, size), FreeCommitted(g)
    PROVE  Standing(g, With(gr, f.block + ARENA_INUSE, size), fa)
<1>1. Whole(h) /\ h.top \in Granule .. Space /\ Covered(h, gr, fa)
  BY DEF Standing
<1>2. Got(h, g, f.block, size)
  BY <1>1, TakeGot
<1>3. Whole(g) /\ g.top \in Granule .. Space
  BY <1>2 DEF Got
<1>4. Covered(g, With(gr, f.block + ARENA_INUSE, size), fa)
  BY <1>1, <1>2, GotCovered
<1> QED
  BY <1>3, <1>4 DEF Standing

\* Address space is lost.
LEMMA RaisedStanding ==
    ASSUME SizeAssumption, NEW h, NEW gr, NEW fa, Standing(h, gr, fa),
           NEW t \in Nat, h.top <= t, t <= Space, NEW g, g = [h EXCEPT !.top = t]
    PROVE  Standing(g, gr, fa)
<1>1. Whole(h) /\ h.top \in Granule .. Space /\ Covered(h, gr, fa) /\ h \in HeapType
      /\ FreeCommitted(h)
  BY DEF Standing, Whole
<1>2. /\ g \in HeapType /\ g.sub = h.sub /\ g.arena = h.arena /\ g.freeList = h.freeList
      /\ g.top = t
  BY <1>1 DEF HeapType
<1>3. h.top \in Nat /\ Granule \in Nat
  BY <1>1, Sizes DEF HeapType
<1>4. \A s \in DOMAIN h.sub : End(h, s) \in Nat
  BY <1>1, SubFields
<1>5. SubsApart(g)
  <2>1. SubsApart(h) /\ g.sub = h.sub
    BY <1>1, <1>2 DEF Whole
  <2>2. h.top <= g.top /\ h.top \in Nat /\ g.top \in Nat
    BY <1>2, <1>3
  <2> QED
    BY <1>4, <2>1, <2>2, SubsSame
<1>6. FreeBlocks(g) = FreeBlocks(h) /\ InUse(g) = InUse(h)
  BY <1>2 DEF FreeBlocks, InUse
<1>7. Firsts(g) = Firsts(h) /\ Ends(g) = Ends(h)
  BY <1>2 DEF Firsts, Ends, First, End
<1>8. \A a : After(g, a) = After(h, a)
  BY <1>2 DEF After
<1>9. \A s : First(g, s) = First(h, s) /\ End(g, s) = End(h, s)
  BY <1>2 DEF First, End
<1>10. Filled(g)
  BY <1>1, <1>2, <1>7, <1>8, <1>9 DEF Whole, Filled
<1>11. Flagged(g)
  <2>1. Flagged(h) /\ g.arena = h.arena
    BY <1>1, <1>2 DEF Whole
  <2>2. ASSUME NEW a \in DOMAIN h.arena
        PROVE  /\ h.arena[a].prevFree =>
                     /\ h.arena[a].back \in DOMAIN h.arena
                     /\ h.arena[h.arena[a].back].free
                     /\ After(g, h.arena[a].back) = a
               /\ h.arena[a].free /\ After(g, a) \in DOMAIN h.arena =>
                     /\ h.arena[After(g, a)].prevFree
                     /\ h.arena[After(g, a)].back = a
                     /\ ~h.arena[After(g, a)].free
    <3>1. After(g, a) = After(h, a) /\ After(g, h.arena[a].back) = After(h, h.arena[a].back)
      BY <1>8
    <3> QED
      BY <2>1, <3>1 DEF Flagged
  <2> QED
    BY <2>1, <2>2 DEF Flagged
<1>12. Listed(g, FreeBlocks(g))
  BY <1>1, <1>2, <1>6 DEF Whole, Listed
<1>13. \A a : CommittedTo(g, a) = CommittedTo(h, a)
  BY <1>2, FoundSame
<1>14. Covered(g, gr, fa)
  BY <1>1, <1>2, <1>6, <1>8, <1>13 DEF Covered, HoldsAt, Holds
<1>15. g.top \in Granule .. Space
  BY <1>1, <1>2, <1>3
<1>16. FreeCommitted(g)
  BY <1>1, <1>6, <1>13 DEF FreeCommitted
<1> QED
  BY <1>2, <1>5, <1>10, <1>11, <1>12, <1>14, <1>15, <1>16 DEF Whole, Standing

\* Nothing is wrong with a block that is in use.
LEMMA ValidInUse ==
    ASSUME SizeAssumption, NEW h, Whole(h), NEW a \in InUse(h), NEW s, s = FindSubHeap(h, a)
    PROVE  ValidateInUseArena(h, s, a)
<1> DEFINE n == After(h, a)
<1>1. a \in DOMAIN h.arena /\ ~h.arena[a].free
  BY DEF InUse
<1>2. /\ n <= End(h, s) /\ n \in Nat /\ End(h, s) \in Nat
      /\ n < End(h, s) => n \in DOMAIN h.arena
  BY <1>1, NextPlace
<1>3. n \in DOMAIN h.arena => ~h.arena[n].prevFree
  <2>1. SUFFICES ASSUME n \in DOMAIN h.arena, h.arena[n].prevFree PROVE FALSE
    OBVIOUS
  <2> DEFINE b == h.arena[n].back
  <2>2. b \in DOMAIN h.arena /\ h.arena[b].free /\ After(h, b) = n
    BY <2>1 DEF Whole, Flagged
  <2>3. a # b
    BY <1>1, <2>2
  <2>4. a \in Nat /\ b \in Nat /\ a + 4 <= n /\ b + 4 <= n
    BY <1>1, <2>2, BlockFields DEF Whole
  <2>5. a < b => n <= b
    BY <1>1, <2>2 DEF Whole, Filled
  <2>6. b < a => n <= a
    BY <1>1, <2>2 DEF Whole, Filled
  <2> HIDE DEF b, n
  <2> QED
    BY <1>2, <2>3, <2>4, <2>5, <2>6
<1>4. h.arena[a].prevFree =>
         LET prev == h.arena[a].back IN
         prev \in DOMAIN h.arena /\ h.arena[prev].free /\ After(h, prev) = a
  BY <1>1 DEF Whole, Flagged
<1> QED
  BY <1>2, <1>3, <1>4 DEF ValidateInUseArena

\* A block in use is at least of the least size.
LEMMA HeldSize ==
    ASSUME SizeAssumption, NEW h, NEW gr, NEW fa, Standing(h, gr, fa), NEW a \in InUse(h)
    PROVE  7 <= h.arena[a].size
<1> DEFINE p == a + ARENA_INUSE
<1>1. Holds(h, a, gr[p], Sure(gr, fa, p), p \notin DOMAIN fa)
  BY DEF Standing, Covered, HoldsAt
<1>2. h.arena[a].size \in Nat
  BY BlockFields DEF Standing, Whole, InUse
<1> DEFINE z == h.arena[a].size
           n == gr[p]
<1>3. n \in Nat /\ HEAP_MIN_BLOCK_SIZE <= n /\ n <= z /\ z \in Nat
  BY <1>1, <1>2 DEF Holds
<1> HIDE DEF z, n
<1>4. 7 <= z
  BY <1>3 DEF HEAP_MIN_BLOCK_SIZE, ARENA_FREE
<1> QED
  BY <1>4 DEF z

\* Its arena is in committed memory, with a word behind it.
LEMMA HeldArena ==
    ASSUME SizeAssumption, NEW h, Whole(h), NEW gr, NEW fa, Covered(h, gr, fa), NEW a \in InUse(h)
    PROVE  a + 5 <= CommittedTo(h, a)
<1> DEFINE c == Sure(gr, fa, a + ARENA_INUSE)
           k == CommittedTo(h, a)
<1>1. c \in Nat /\ HEAP_MIN_BLOCK_SIZE <= c /\ a + ARENA_INUSE + c <= k
  BY DEF Covered, HoldsAt, Holds
<1>2. k \in Nat /\ a \in Nat
  BY CommittedNat, BlockFields DEF InUse, Whole
<1> HIDE DEF c, k
<1>3. 7 <= c /\ a + 4 + c <= k
  BY <1>1 DEF HEAP_MIN_BLOCK_SIZE, ARENA_FREE, ARENA_INUSE
<1>4. a + 5 <= k
  BY <1>1, <1>2, <1>3
<1> QED
  BY <1>4 DEF k

\* HeapFree takes one back.
LEMMA FreedStanding ==
    ASSUME SizeAssumption, NEW h, NEW gr, NEW fa, Standing(h, gr, fa),
           NEW a \in InUse(h), NEW p, p = a + ARENA_INUSE, NEW s, s = FindSubHeap(h, a),
           NEW g, g = MakeInUseBlockFree(h, s, a)
    PROVE  Standing(g, Without(gr, p), Without(fa, p))
<1>1. Whole(h) /\ h.top \in Granule .. Space /\ Covered(h, gr, fa) /\ FreeCommitted(h)
  BY DEF Standing
<1>2. 7 <= h.arena[a].size
  BY HeldSize
<1>3. Follows(h, g, InUse(h) \ {a}) /\ FreeCommitted(g)
  <2>1. a + 5 <= CommittedTo(h, a)
    BY <1>1, HeldArena
  <2> QED
    BY <1>1, <1>2, <2>1, MadeFree
<1>4. Covered(g, Without(gr, p), Without(fa, p))
  BY <1>1, <1>3, FollowsCovered
<1> QED
  BY <1>1, <1>3, <1>4 DEF Follows, Standing

\* ShrinkBlock keeps what is held but for the block it shrinks, which is given size.  If
\* that one could not be enlarged, and still ends beyond what is committed, as much of it
\* is committed as was.
LEMMA ShrunkStanding ==
    ASSUME SizeAssumption, NEW h, NEW gr, NEW fa, Standing(h, gr, fa),
           NEW a \in InUse(h), NEW p, p = a + ARENA_INUSE, NEW s, s = FindSubHeap(h, a),
           NEW size \in Nat, HEAP_MIN_BLOCK_SIZE <= size, size <= h.arena[a].size,
           NEW g, g = ShrinkBlock(h, s, a, size),
           FreeCommitted(g),
           NEW fb, fb = IF After(g, a) <= CommittedTo(g, a) THEN Without(fa, p) ELSE fa
    PROVE  Standing(g, [gr EXCEPT ![p] = size], fb)
<1>1. Whole(h) /\ h.top \in Granule .. Space /\ Covered(h, gr, fa)
  BY DEF Standing
<1>2. a \in DOMAIN h.arena /\ ~h.arena[a].free
  BY DEF InUse
<1> DEFINE n == After(h, a)
<1>3. Opened(h, h, s, a, n)
  BY <1>1, InUseOpened
<1>4. /\ Whole(g) /\ g.sub = h.sub /\ g.top = h.top /\ InUse(g) = InUse(h)
      /\ \A b \in InUse(g) \ {a} : g.arena[b].size = h.arena[b].size
      /\ size <= g.arena[a].size /\ After(g, a) <= n
      /\ After(g, a) = n \/ After(g, a) = a + size + 4
  BY <1>1, <1>3, ShrunkWhole
<1>5. \A b : CommittedTo(g, b) = CommittedTo(h, b)
  BY <1>4, FoundSame
<1>6. Kept(h, g, InUse(h) \ {a})
  <2>1. \A b \in InUse(h) \ {a} :
           g.arena[b].size = h.arena[b].size /\ CommittedTo(h, b) <= CommittedTo(g, b)
    <3> TAKE b \in InUse(h) \ {a}
    <3>1. CommittedTo(h, b) \in Nat
      BY <1>1, CommittedNat DEF InUse
    <3> QED
      BY <1>4, <1>5, <3>1
  <2>2. InUse(h) \ {a} \subseteq InUse(h) /\ InUse(h) \ {a} \subseteq InUse(g)
    BY <1>4
  <2> QED
    BY <1>1, <1>4, <2>1, <2>2, KeptIf
<1> DEFINE z == g.arena[a].size
           e == After(g, a)
           k == CommittedTo(g, a)
           c == Sure(gr, fa, p)
<1>7. Holds(h, a, gr[p], c, p \notin DOMAIN fa)
  BY <1>1 DEF Covered, HoldsAt
<1>8. a \in DOMAIN g.arena /\ ~g.arena[a].free
  BY <1>4 DEF InUse
<1>9. /\ z \in Nat /\ e = a + z + 4 /\ a \in Nat /\ e \in Nat /\ k \in Nat
      /\ n \in Nat /\ n = a + h.arena[a].size + 4 /\ h.arena[a].size \in Nat
  BY <1>1, <1>2, <1>4, <1>8, BlockFields, CommittedNat DEF Whole
<1>10. CASE e <= k
  <2>1. Holds(g, a, size, size, TRUE)
    BY <1>4, <1>10, WholeHolds
  <2>2. Covered(g, [gr EXCEPT ![p] = size], Without(fa, p))
    BY <1>1, <1>4, <1>6, <2>1, RegrownCovered
  <2> QED
    BY <1>1, <1>4, <1>10, <2>2 DEF Standing
<1>11. CASE ~(e <= k)
  <2>1. p \in DOMAIN fa
    <3>1. SUFFICES ASSUME p \notin DOMAIN fa PROVE FALSE
      OBVIOUS
    <3>2. n <= k
      BY <1>5, <1>7, <3>1 DEF Holds
    <3>3. e <= n
      BY <1>4
    <3>4. e \in Nat /\ n \in Nat /\ k \in Nat
      BY <1>9
    <3>5. e <= k
      <4> HIDE DEF n, e, k
      <4> QED
        BY ONLY <3>2, <3>3, <3>4
    <3> QED
      BY <1>11, <3>5
  <2>2. c \in Nat /\ HEAP_MIN_BLOCK_SIZE <= c /\ a + 4 + c <= k /\ c = fa[p]
    BY <1>5, <1>7, <2>1 DEF Holds, Sure, ARENA_INUSE
  <2>3. c <= z
    <3> HIDE DEF e, k, c, z
    <3>1. k < e
      BY <1>9, <1>11
    <3> QED
      BY <1>9, <2>2, <3>1
  <2> HIDE DEF z, k, c, e, n
  <2>4. Holds(g, a, size, c, FALSE)
    BY <1>4, <2>2, <2>3 DEF Holds, ARENA_INUSE, z, k
  <2> DEFINE G == [gr EXCEPT ![p] = size]
  <2>5. DOMAIN G = DOMAIN gr /\ G[p] = size /\ \A q \in DOMAIN gr : q # p => G[q] = gr[q]
    BY <1>1 DEF Covered
  <2> HIDE DEF G
  <2>6. \A q \in DOMAIN gr \ {p} : SameAt(gr, fa, G, fa, q)
    BY <2>5 DEF SameAt
  <2>7. HoldsAt(g, a, G, fa)
    <3>1. Sure(G, fa, p) = c
      BY <2>1, <2>2 DEF Sure
    <3>2. Holds(g, a, G[p], Sure(G, fa, p), p \notin DOMAIN fa)
      BY <2>1, <2>4, <2>5, <3>1 DEF Holds
    <3> QED
      BY <3>2 DEF HoldsAt
  <2>8. Covered(g, G, fa)
    <3>1. DOMAIN fa \subseteq DOMAIN fa \cup {p}
      OBVIOUS
    <3> QED
      BY <1>1, <1>4, <1>6, <2>5, <2>6, <2>7, <3>1, ResizedCovered
  <2>9. fb = fa
    BY <1>11 DEF e, k
  <2> QED
    BY <1>1, <1>4, <2>8, <2>9 DEF Standing, G
<1> QED
  BY <1>10, <1>11

\* Of a block that can be enlarged, or has been, nothing is left over in memory that is not
\* committed.
LEMMA ShrunkFree ==
    ASSUME SizeAssumption, NEW h, NEW gr, NEW fa, Standing(h, gr, fa),
           NEW a \in InUse(h), a + ARENA_INUSE \notin DOMAIN fa, NEW s, s = FindSubHeap(h, a),
           NEW size \in Nat, size <= h.arena[a].size, NEW g, g = ShrinkBlock(h, s, a, size)
    PROVE  FreeCommitted(g)
<1>1. Whole(h) /\ Covered(h, gr, fa) /\ FreeCommitted(h)
  BY DEF Standing
<1>2. a \in DOMAIN h.arena /\ ~h.arena[a].free
  BY DEF InUse
<1> DEFINE n == After(h, a)
<1>3. Opened(h, h, s, a, n)
  BY <1>1, InUseOpened
<1>4. /\ g.sub = h.sub
      /\ \A b \in FreeBlocks(g) : b \in FreeBlocks(h) \/ (b = a + size + 4 /\ b + 7 <= n)
  <2>1. size <= h.arena[a].size
    OBVIOUS
  <2> HIDE DEF n
  <2> QED
    BY <1>1, <1>3, <2>1, ShrunkWhole
<1>5. \A b : CommittedTo(g, b) = CommittedTo(h, b)
  BY <1>4, FoundSame
<1>6. n <= CommittedTo(h, a)
  BY <1>1 DEF Covered, HoldsAt, Holds
<1>7. n \in Nat /\ a \in Nat /\ CommittedTo(h, a) \in Nat
  BY <1>1, <1>2, BlockFields, CommittedNat DEF Whole
<1>8. ASSUME NEW b, b = a + size + 4, b + 7 <= n
      PROVE  b + 5 <= CommittedTo(h, b)
  <2> HIDE DEF n
  <2>1. b \in Nat /\ a <= b /\ b < n
    BY <1>7, <1>8
  <2>2. CommittedTo(h, b) = CommittedTo(h, a)
    BY <1>1, <1>2, <2>1, SameSubHeap DEF CommittedTo, n
  <2> DEFINE k == CommittedTo(h, a)
  <2> HIDE DEF k
  <2>3. b + 5 <= k
    BY <1>6, <1>7, <1>8, <2>1 DEF k
  <2> QED
    BY <2>2, <2>3 DEF k
<1> QED
  BY <1>1, <1>4, <1>5, <1>8 DEF FreeCommitted

\* HeapReAlloc takes another block and frees the old one.
LEMMA MovedStanding ==
    ASSUME SizeAssumption, NEW h, NEW gr, NEW fa, Standing(h, gr, fa),
           NEW a \in InUse(h), NEW p, p = a + ARENA_INUSE, NEW s, s = FindSubHeap(h, a),
           NEW size \in Nat, HEAP_MIN_BLOCK_SIZE <= size, Found(h, size),
           NEW f, f = FindFreeBlock(h, size), NEW q, q = f.block + ARENA_INUSE,
           NEW k, k = Take(f.heap, f.sub, f.block, size), FreeCommitted(k),
           NEW g, g = MakeInUseBlockFree(k, s, a)
    PROVE  /\ Standing(k, With(gr, q, size), fa) /\ q \notin DOMAIN gr
           /\ Standing(g, With(Without(gr, p), q, size), Without(fa, p))
<1>1. Whole(h) /\ h.top \in Granule .. Space /\ Covered(h, gr, fa)
  BY DEF Standing
<1>2. Standing(k, With(gr, q, size), fa)
  BY AllocatedStanding
<1>3. Got(h, k, f.block, size)
  BY <1>1, TakeGot
<1>4. q \notin DOMAIN gr
  BY <1>1, <1>3, GotCovered
<1>5. a \in InUse(k) /\ s = FindSubHeap(k, a)
  BY <1>3 DEF Got
<1> DEFINE G == With(gr, q, size)
<1>6. Standing(g, Without(G, p), Without(fa, p))
  <2> HIDE DEF G
  <2> QED
    BY <1>2, <1>5, FreedStanding DEF G
<1>7. p \in DOMAIN gr
  BY <1>1 DEF Covered
<1>8. Without(G, p) = With(Without(gr, p), q, size)
  BY <1>4, <1>7 DEF With, Without, Restrict
<1> QED
  BY <1>2, <1>4, <1>6, <1>8

\* Sizes stay and no less is committed.
LEMMA KeptButOne ==
    ASSUME SizeAssumption, NEW h, Whole(h), NEW g, Whole(g), NEW a, InUse(g) = InUse(h),
           \A b \in InUse(h) \ {a} : g.arena[b].size = h.arena[b].size,
           \A b \in InUse(h) : CommittedTo(h, b) <= CommittedTo(g, b)
    PROVE  Kept(h, g, InUse(h) \ {a})
<1>1. InUse(h) \ {a} \subseteq InUse(h) /\ InUse(h) \ {a} \subseteq InUse(g)
  OBVIOUS
<1>2. \A b \in InUse(h) \ {a} :
         g.arena[b].size = h.arena[b].size /\ CommittedTo(h, b) <= CommittedTo(g, b)
  OBVIOUS
<1> QED
  BY <1>1, <1>2, KeptIf

\* A block that takes over the free one behind it, of which enough is committed, holds
\* its new size.
LEMMA GrownStanding ==
    ASSUME SizeAssumption, NEW h, NEW gr, NEW fa, Standing(h, gr, fa),
           NEW a \in InUse(h), NEW p, p = a + ARENA_INUSE, NEW s, s = FindSubHeap(h, a),
           NEW n \in FreeBlocks(h), n = After(h, a),
           NEW size \in Nat, HEAP_MIN_BLOCK_SIZE <= size,
           size <= h.arena[a].size + h.arena[n].size + ARENA_FREE,
           NEW upto, upto = Reach(a, size),
           NEW g, g = ShrinkBlock(Commit(Merged(h, a, n), s, upto), s, a, size)
    PROVE  Standing(g, [gr EXCEPT ![p] = size], Without(fa, p))
<1>1. Whole(h) /\ h.top \in Granule .. Space /\ Covered(h, gr, fa) /\ h \in HeapType
      /\ FreeCommitted(h)
  BY DEF Standing, Whole
<1>2. a \in DOMAIN h.arena /\ ~h.arena[a].free /\ n \in DOMAIN h.arena /\ h.arena[n].free
  BY DEF InUse, FreeBlocks
<1> DEFINE hc == Commit(h, s, upto)
           k == Merged(hc, a, n)
           y == After(h, n)
<1>3. s \in DOMAIN h.sub /\ s \in Nat /\ s <= a /\ End(h, s) \in Nat
  <2>1. s \in DOMAIN h.sub /\ s \in Nat /\ First(h, s) \in Nat /\ First(h, s) <= a /\ a \in Nat
        /\ End(h, s) \in Nat
    BY <1>1, <1>2, NextPlace
  <2>2. s < First(h, s)
    BY <1>1, <2>1, SubFields
  <2> QED
    BY <2>1, <2>2
<1>4. a \in Nat /\ n \in Nat /\ y \in Nat
  BY <1>1, <1>2, BlockFields
<1>5. upto \in Nat /\ s <= upto
  BY <1>3, <1>4 DEF Reach, ARENA_INUSE, HEAP_MIN_BLOCK_SIZE, ARENA_FREE
<1>6. /\ Whole(hc) /\ hc.arena = h.arena /\ hc.top = h.top /\ SameSubs(h, hc)
      /\ \A b \in DOMAIN h.arena : /\ FindSubHeap(hc, b) = FindSubHeap(h, b)
                                   /\ CommittedTo(h, b) <= CommittedTo(hc, b)
      /\ \A u \in Nat : u <= upto /\ u <= End(h, s) => u <= s + hc.sub[s].commitSize
  BY <1>1, <1>3, <1>5, CommitWhole
<1>7. Commit(Merged(h, a, n), s, upto) = k
  BY <1>1, <1>3, CommitMerged
<1>8. g = ShrinkBlock(k, s, a, size)
  BY <1>7
<1> HIDE DEF hc
<1>9. /\ a \in InUse(hc) /\ n \in FreeBlocks(hc) /\ s = FindSubHeap(hc, a)
      /\ n = After(hc, a) /\ y = After(hc, n) /\ InUse(hc) = InUse(h)
  BY <1>2, <1>6 DEF InUse, FreeBlocks, After
<1>10. /\ Opened(hc, k, s, a, y) /\ InUse(k) = InUse(h)
       /\ k.arena[a].size = h.arena[a].size + h.arena[n].size + 5
       /\ \A b \in InUse(h) \ {a} : k.arena[b].size = h.arena[b].size
  BY <1>6, <1>9, MergedOpened
<1> HIDE DEF k
<1>11. size <= k.arena[a].size
  BY <1>10 DEF ARENA_FREE
<1>12. /\ Whole(g) /\ g.sub = hc.sub /\ g.top = h.top /\ InUse(g) = InUse(h)
       /\ \A b \in InUse(g) \ {a} : g.arena[b].size = k.arena[b].size
       /\ size <= g.arena[a].size /\ After(g, a) <= y /\ After(g, a) < upto
       /\ \A b \in FreeBlocks(g) : b \in FreeBlocks(k) \/ (b = a + size + 4 /\ b + 7 <= y)
  <2>1. /\ Whole(g) /\ g.sub = hc.sub /\ g.top = hc.top
        /\ InUse(g) = InUse(k) /\ \A b \in InUse(g) \ {a} : g.arena[b].size = k.arena[b].size
        /\ size <= g.arena[a].size /\ After(g, a) <= y /\ After(g, a) < Reach(a, size)
        /\ \A b \in FreeBlocks(g) : b \in FreeBlocks(k) \/ (b = a + size + 4 /\ b + 7 <= y)
    BY <1>6, <1>8, <1>10, <1>11, ShrunkWhole
  <2> QED
    BY <1>6, <1>10, <2>1
<1>13. \A b : CommittedTo(g, b) = CommittedTo(hc, b)
  BY <1>12, FoundSame
<1>14. Kept(h, g, InUse(h) \ {a})
  <2>1. \A b \in InUse(h) : CommittedTo(h, b) <= CommittedTo(g, b)
    BY <1>6, <1>13 DEF InUse
  <2>2. \A b \in InUse(h) \ {a} : g.arena[b].size = h.arena[b].size
    BY <1>10, <1>12
  <2> QED
    BY <1>1, <1>12, <2>1, <2>2, KeptButOne
<1>15. Holds(g, a, size, size, TRUE)
  <2> DEFINE z == g.arena[a].size
             e == After(g, a)
             c == CommittedTo(g, a)
  <2>1. a \in DOMAIN g.arena /\ ~g.arena[a].free
    BY <1>12 DEF InUse
  <2>2. z \in Nat /\ e = a + z + 4 /\ e \in Nat
    BY <1>12, <2>1, BlockFields DEF Whole
  <2>3. c \in Nat
    BY <1>12, <2>1, CommittedNat
  <2>4. c = s + hc.sub[s].commitSize
    BY <1>9, <1>13 DEF CommittedTo
  <2>5. y <= End(h, s)
    <3>1. FindSubHeap(h, n) = s
      <4>1. s \in DOMAIN h.sub /\ First(h, s) <= a /\ s = FindSubHeap(h, n)
        BY <1>1, <1>2, NextPlace
      <4> QED
        BY <4>1
    <3> QED
      BY <1>1, <1>2, <3>1, NextPlace
  <2>6. e <= y /\ e < upto /\ size <= z
    BY <1>12
  <2>7. e <= upto /\ e <= End(h, s)
    <3> DEFINE z0 == End(h, s)
    <3> HIDE DEF e, y, z0
    <3>1. e \in Nat /\ y \in Nat /\ z0 \in Nat /\ upto \in Nat
      BY <1>3, <1>4, <1>5, <2>2 DEF z0
    <3>2. y <= z0 /\ e <= y /\ e < upto
      BY <2>5, <2>6 DEF z0
    <3>3. e <= upto /\ e <= z0
      BY ONLY <3>1, <3>2
    <3> QED
      BY <3>3 DEF z0
  <2>8. e <= c
    <3> HIDE DEF e, c
    <3> QED
      BY <1>6, <2>2, <2>4, <2>7
  <2> HIDE DEF z, e, c
  <2>9. a + 4 + size <= c
    BY <1>4, <2>2, <2>3, <2>6, <2>8
  <2> QED
    BY <2>6, <2>8, <2>9 DEF Holds, ARENA_INUSE, z, e, c
<1>16. Covered(g, [gr EXCEPT ![p] = size], Without(fa, p))
  BY <1>1, <1>12, <1>14, <1>15, RegrownCovered
<1>17. s \in DOMAIN h.sub /\ y <= End(h, s)
  <2>1. FindSubHeap(h, n) = s
    BY <1>1, <1>2, NextPlace
  <2> QED
    BY <1>1, <1>2, <1>3, <2>1, NextPlace
<1>18. \A b \in FreeBlocks(k) : b \in FreeBlocks(h) /\ CommittedTo(h, b) <= CommittedTo(g, b)
  <2>1. FreeBlocks(k) \subseteq FreeBlocks(hc)
    BY <1>10, OpenedFree
  <2>2. FreeBlocks(hc) = FreeBlocks(h)
    BY <1>6 DEF FreeBlocks
  <2> QED
    BY <1>6, <1>13, <2>1, <2>2 DEF FreeBlocks
<1>19. ASSUME NEW b \in FreeBlocks(g)
       PROVE  b + 5 <= CommittedTo(g, b)
  <2>1. CASE b \in FreeBlocks(k)
    <3>1. b + 5 <= CommittedTo(h, b) /\ CommittedTo(h, b) <= CommittedTo(g, b)
      BY <1>1, <1>18, <2>1 DEF FreeCommitted
    <3>2. b \in DOMAIN h.arena /\ b \in DOMAIN g.arena
      BY <1>18, <2>1 DEF FreeBlocks
    <3>4. b \in Nat /\ CommittedTo(h, b) \in Nat
      BY <1>1, <3>2, BlockFields, CommittedNat DEF Whole
    <3>5. CommittedTo(g, b) \in Nat
      BY <1>12, <3>2, CommittedNat
    <3> DEFINE i == CommittedTo(h, b)
               j == CommittedTo(g, b)
    <3> HIDE DEF i, j
    <3>3. b + 5 <= j
      BY <3>1, <3>4, <3>5 DEF i, j
    <3> QED
      BY <3>3 DEF j
  <2>2. CASE b = a + size + 4 /\ b + 7 <= y
    <3> DEFINE e == End(h, s)
    <3>1. e \in Nat /\ y <= e /\ s \in Nat /\ s <= a
      BY <1>3, <1>17
    <3>2. upto = a + size + 11
      BY <1>4 DEF Reach, ARENA_INUSE, HEAP_MIN_BLOCK_SIZE, ARENA_FREE
    <3> HIDE DEF e, y
    <3>3. b + 5 \in Nat /\ b \in Nat /\ b + 5 <= upto /\ b + 5 <= e /\ s <= b /\ b < e
      BY <1>4, <2>2, <3>1, <3>2
    <3>4. b + 5 <= s + hc.sub[s].commitSize
      BY <1>6, <3>3 DEF e
    <3>5. FindSubHeap(hc, b) = s
      <4>1. s \in DOMAIN hc.sub /\ End(hc, s) = e
        BY <1>3, <1>6 DEF SameSubs, e
      <4> QED
        BY <1>6, <3>3, <4>1, SubFound DEF Whole
    <3> QED
      BY <1>13, <3>4, <3>5 DEF CommittedTo
  <2> QED
    BY <1>12, <2>1, <2>2
<1>20. FreeCommitted(g)
  BY <1>19 DEF FreeCommitted
<1> QED
  BY <1>1, <1>12, <1>16, <1>20 DEF Standing

\* It is only at the end of a sub-heap that memory behind a free block is not committed:
\* there is a block in use behind any other.
LEMMA EndsThere ==
    ASSUME SizeAssumption, NEW h, NEW gr, NEW fa, Standing(h, gr, fa),
           NEW a \in InUse(h), NEW s, s = FindSubHeap(h, a),
           NEW n \in FreeBlocks(h), n = After(h, a),
           NEW size \in Nat, size <= h.arena[a].size + h.arena[n].size + ARENA_FREE,
           ~IsCommitted(h, s, Reach(a, size))
    PROVE  After(h, n) = End(h, s)
<1>1. Whole(h) /\ Covered(h, gr, fa) /\ h \in HeapType /\ SubsApart(h)
  BY DEF Standing, Whole
<1>2. a \in DOMAIN h.arena /\ ~h.arena[a].free /\ n \in DOMAIN h.arena /\ h.arena[n].free
  BY DEF InUse, FreeBlocks
<1> DEFINE y == After(h, n)
           c == h.sub[s].commitSize
           upto == Reach(a, size)
           za == h.arena[a].size
           zn == h.arena[n].size
<1>3. s \in DOMAIN h.sub /\ s \in Nat /\ First(h, s) \in Nat /\ First(h, s) <= a /\ s = FindSubHeap(h, n)
  BY <1>1, <1>2, NextPlace
<1>4. s < First(h, s) /\ c \in Nat /\ c % Page = 0
  BY <1>1, <1>3, SubFields DEF SubsApart
<1>5. /\ a \in Nat /\ n \in Nat /\ y \in Nat /\ za \in Nat /\ zn \in Nat
      /\ n = a + za + 4 /\ y = n + zn + 5
  BY <1>1, <1>2, BlockFields
<1>6. upto = a + size + 11
  BY <1>5 DEF Reach, ARENA_INUSE, HEAP_MIN_BLOCK_SIZE, ARENA_FREE
<1>7. size <= za + zn + 5
  BY DEF ARENA_FREE
<1>8. s <= a
  BY <1>3, <1>4, <1>5
<1>9. c < RoundUp(upto - s, Page)
  <2>1. upto \in Nat /\ s <= upto
    <3> HIDE DEF upto
    <3>1. size \in Nat
      OBVIOUS
    <3> QED
      BY ONLY <1>3, <1>5, <1>6, <1>8, <3>1
  <2> QED
    BY <1>1, <1>3, <2>1, CommitWhole
<1>10. SUFFICES ASSUME y \in DOMAIN h.arena PROVE FALSE
  BY <1>1, <1>2, <1>3, NextPlace
<1>11. ~h.arena[y].free
  BY <1>1, <1>2, <1>10 DEF Whole, Flagged
<1>12. y \in InUse(h)
  BY <1>10, <1>11 DEF InUse
<1>13. FindSubHeap(h, y) = s
  BY <1>1, <1>2, <1>3, <1>10, NextPlace
<1>14. CommittedTo(h, y) = s + c
  BY <1>13 DEF CommittedTo
<1> DEFINE m == Sure(gr, fa, y + ARENA_INUSE)
<1>15. m \in Nat /\ HEAP_MIN_BLOCK_SIZE <= m /\ y + ARENA_INUSE + m <= CommittedTo(h, y)
  BY <1>1, <1>12 DEF Covered, HoldsAt, Holds
<1> HIDE DEF m, y, c, za, zn, upto
<1>16. 7 <= m /\ y + 4 + m <= s + c
  BY <1>14, <1>15 DEF HEAP_MIN_BLOCK_SIZE, ARENA_FREE, ARENA_INUSE
<1>17. upto - s \in Nat /\ upto - s <= c
  <2>1. size \in Nat /\ m \in Nat /\ s \in Nat /\ c \in Nat
    BY <1>3, <1>4, <1>15
  <2> QED
    BY ONLY <1>5, <1>6, <1>7, <1>8, <1>16, <2>1
<1>18. Page \in Nat \ {0}
  BY Sizes
<1> DEFINE d == upto - s
<1>19. RoundUp(d, Page) <= c /\ RoundUp(d, Page) \in Nat /\ c < RoundUp(d, Page)
  <2> HIDE DEF d
  <2> QED
    BY <1>4, <1>9, <1>17, <1>18, RoundUpLeast, RoundUpUp DEF d
<1> DEFINE r == RoundUp(d, Page)
<1> HIDE DEF r
<1> QED
  BY <1>4, <1>19 DEF r

\* Where it cannot be committed, the block stays enlarged, and more than the program
\* knows.
LEMMA EnlargedStanding ==
    ASSUME SizeAssumption, NEW h, NEW gr, NEW fa, Standing(h, gr, fa),
           NEW a \in InUse(h), NEW p, p = a + ARENA_INUSE, NEW s, s = FindSubHeap(h, a),
           NEW n \in FreeBlocks(h), n = After(h, a),
           NEW size \in Nat, size <= h.arena[a].size + h.arena[n].size + ARENA_FREE,
           ~IsCommitted(h, s, Reach(a, size)), NEW g, g = Merged(h, a, n),
           NEW fb, fb = IF p \in DOMAIN fa THEN fa ELSE With(fa, p, gr[p])
    PROVE  Standing(g, gr, fb)
<1>1. Whole(h) /\ h.top \in Granule .. Space /\ Covered(h, gr, fa) /\ h \in HeapType
      /\ FreeCommitted(h)
  BY DEF Standing, Whole
<1> DEFINE y == After(h, n)
<1>2. /\ Opened(h, g, s, a, y) /\ InUse(g) = InUse(h)
      /\ g.arena[a].size = h.arena[a].size + h.arena[n].size + 5
      /\ \A b \in InUse(h) \ {a} : g.arena[b].size = h.arena[b].size
  BY <1>1, MergedOpened
<1>3. y = End(h, s)
  BY EndsThere
<1>4. End(h, s) \in Nat
  BY <1>1, NextPlace DEF InUse
<1>5. g = Closed(h, g, s, y)
  BY <1>3, <1>4 DEF Closed
<1> HIDE DEF y
<1>6. Whole(g) /\ g.sub = h.sub /\ g.top = h.top
  BY <1>1, <1>2, <1>5, OpenedWhole
<1>7. \A b : CommittedTo(g, b) = CommittedTo(h, b)
  BY <1>6, FoundSame
<1>8. Kept(h, g, InUse(h) \ {a})
  <2>1. \A b \in InUse(h) : CommittedTo(h, b) <= CommittedTo(g, b)
    <3> TAKE b \in InUse(h)
    <3>1. CommittedTo(h, b) \in Nat
      BY <1>1, CommittedNat DEF InUse
    <3> QED
      BY <1>7, <3>1
  <2> QED
    BY <1>1, <1>2, <1>6, <2>1, KeptButOne
<1>9. DOMAIN fb = DOMAIN fa \cup {p} /\ fb[p] = Sure(gr, fa, p)
      /\ \A q \in DOMAIN fa : q # p => fb[q] = fa[q]
  BY DEF With, Sure
<1>10. HoldsAt(g, a, gr, fb)
  <2> DEFINE za == h.arena[a].size
             zn == h.arena[n].size
             m == gr[p]
             c == Sure(gr, fa, p)
  <2>1. Holds(h, a, m, c, p \notin DOMAIN fa)
    BY <1>1 DEF Covered, HoldsAt
  <2>2. za \in Nat /\ zn \in Nat
    BY <1>1, BlockFields DEF InUse, FreeBlocks
  <2>3. m \in Nat /\ m <= za /\ c \in Nat /\ c <= za
    BY <2>1 DEF Holds
  <2>4. m <= g.arena[a].size /\ c <= g.arena[a].size
    <3>1. g.arena[a].size = za + zn + 5
      BY <1>2
    <3> HIDE DEF m, c, za, zn
    <3> QED
      BY <2>2, <2>3, <3>1
  <2>5. Sure(gr, fb, p) = c /\ p \in DOMAIN fb
    BY <1>9 DEF Sure
  <2> HIDE DEF m, c
  <2>6. Holds(g, a, m, c, FALSE)
    BY <1>7, <2>1, <2>4 DEF Holds
  <2>7. Holds(g, a, gr[p], Sure(gr, fb, p), p \notin DOMAIN fb)
    BY <2>5, <2>6 DEF Holds, m
  <2> QED
    BY <2>7 DEF HoldsAt
<1>11. \A q \in DOMAIN gr \ {p} : SameAt(gr, fa, gr, fb, q)
  BY <1>9 DEF SameAt
<1>12. Covered(g, gr, fb)
  BY <1>1, <1>2, <1>6, <1>8, <1>9, <1>10, <1>11, ResizedCovered
<1>13. FreeCommitted(g)
  <2>1. FreeBlocks(g) \subseteq FreeBlocks(h)
    BY <1>2, OpenedFree
  <2> QED
    BY <1>1, <1>7, <2>1 DEF FreeCommitted
<1> QED
  BY <1>1, <1>6, <1>12, <1>13 DEF Standing

----------------------------------------------------------------------------
(* The inductive invariant *)

\* What makes a call touch memory that is not committed: a block that could not be
\* enlarged, or a new sub-heap that is too short for what it is made for.
Excused == DOMAIN failed # {} \/ \E n \in Request : ShortCommit(Asked(n))

\* The heap is whole, its free address space lies where it may, what the program holds is
\* what is in use, of its size and committed, and so are the arenas; and no call has
\* touched other memory without an excuse.
HeapInv == Standing(heap, granted, failed) /\ faulted \in BOOLEAN /\ (faulted => Excused)

\* The arena in front of what is held.
LEMMA HeldBlock ==
    ASSUME NEW h, NEW gr, NEW fa, Standing(h, gr, fa), NEW p \in DOMAIN gr
    PROVE  p - ARENA_INUSE \in InUse(h) /\ p = (p - ARENA_INUSE) + ARENA_INUSE
<1>1. PICK a \in InUse(h) : p = a + ARENA_INUSE
  BY DEF Standing, Covered
<1>2. (a + ARENA_INUSE) - ARENA_INUSE = a
  BY AddressOf DEF Standing
<1> QED
  BY <1>1, <1>2

\* It holds before there is a heap,
LEMMA InitHeapInv ==
    Init /\ SizeAssumption => HeapInv
<1> SUFFICES ASSUME Init, SizeAssumption PROVE HeapInv
  OBVIOUS
<1>1. heap = NoHeap /\ granted = <<>> /\ failed = <<>> /\ DOMAIN granted = {} /\ DOMAIN failed = {}
      /\ faulted = FALSE
  BY EmptyPlaced DEF Init
<1>2. heap = [NoHeap EXCEPT !.growable = FALSE]
  <2> DEFINE g == [NoHeap EXCEPT !.growable = FALSE]
  <2>1. g = [sub |-> <<>>, arena |-> <<>>, freeList |-> [k \in Lists |-> <<>>],
             top |-> Granule, growable |-> FALSE]
    <3>1. \A b : [NoHeap EXCEPT !.growable = b]
                  = [sub |-> <<>>, arena |-> <<>>, freeList |-> [k \in Lists |-> <<>>],
                     top |-> Granule, growable |-> b]
      BY DEF NoHeap
    <3> QED
      BY <3>1, Zenon
  <2>2. g = NoHeap
    BY ONLY <2>1 DEF NoHeap
  <2> QED
    BY ONLY <1>1, <2>2
<1>3. Whole(heap) /\ InUse(heap) = {} /\ heap.top = Granule /\ FreeBlocks(heap) = {}
  <2>1. heap.arena = <<>>
    BY <1>1 DEF NoHeap
  <2>2. FreeBlocks(heap) = {}
    BY <2>1 DEF FreeBlocks
  <2> QED
    BY <1>2, <2>2, EmptyWhole
<1>4. Granule \in Granule .. Space
  BY Sizes, SpaceAssumption
<1> DEFINE h == heap
           gr == granted
           fa == failed
<1>5. /\ Whole(h) /\ InUse(h) = {} /\ FreeBlocks(h) = {} /\ h.top \in Granule .. Space
      /\ DOMAIN gr = {} /\ DOMAIN fa = {}
  BY <1>1, <1>3, <1>4
<1> HIDE DEF h, gr, fa
<1>6. Standing(h, gr, fa)
  BY <1>5 DEF Standing, Covered, FreeCommitted
<1> QED
  BY <1>1, <1>6 DEF HeapInv, h, gr, fa

\* Where a block can grow in place, the one behind it is free.
LEMMA GrowPlace ==
    ASSUME SizeAssumption, HeapInv, NEW a \in InUse(heap), NEW size, CanGrow(a, size),
           NEW n, n = After(heap, a)
    PROVE  n \in FreeBlocks(heap) /\ size <= heap.arena[a].size + heap.arena[n].size + ARENA_FREE
<1>1. Whole(heap) /\ a \in DOMAIN heap.arena
  BY DEF HeapInv, Standing, InUse
<1>2. n < End(heap, FindSubHeap(heap, a)) /\ heap.arena[n].free
  BY DEF CanGrow
<1>3. n \in DOMAIN heap.arena
  BY <1>1, <1>2, NextPlace
<1> QED
  BY <1>2, <1>3 DEF CanGrow, FreeBlocks

\* Where free blocks have their arenas in committed memory, all have.
LEMMA NotBare ==
    ASSUME SizeAssumption, NEW h, NEW gr, NEW fa, Standing(h, gr, fa)
    PROVE  ~Bare(h)
<1>1. Whole(h) /\ Covered(h, gr, fa) /\ FreeCommitted(h)
  BY DEF Standing
<1>2. ASSUME NEW a \in DOMAIN h.arena
      PROVE  a + (IF h.arena[a].free THEN ARENA_FREE ELSE ARENA_INUSE) <= CommittedTo(h, a)
             /\ a \in Nat /\ CommittedTo(h, a) \in Nat
  <2>1. a \in Nat /\ CommittedTo(h, a) \in Nat
    BY <1>1, BlockFields, CommittedNat DEF Whole
  <2>2. a + 5 <= CommittedTo(h, a)
    BY <1>1, HeldArena DEF FreeCommitted, FreeBlocks, InUse
  <2> DEFINE k == CommittedTo(h, a)
  <2>3. a + 5 <= k /\ a + 4 <= k /\ k \in Nat
    <3> HIDE DEF k
    <3>1. a + 5 <= k /\ k \in Nat
      BY <2>1, <2>2 DEF k
    <3> QED
      BY <2>1, <3>1
  <2> HIDE DEF k
  <2>4. a + (IF h.arena[a].free THEN ARENA_FREE ELSE ARENA_INUSE) <= k
    BY <2>3 DEF ARENA_FREE, ARENA_INUSE
  <2> QED
    BY <2>1, <2>4 DEF k
<1> SUFFICES ASSUME NEW a \in DOMAIN h.arena,
                    a + (IF h.arena[a].free THEN ARENA_FREE ELSE ARENA_INUSE) > CommittedTo(h, a)
             PROVE  FALSE
  BY DEF Bare
<1> DEFINE i == IF h.arena[a].free THEN ARENA_FREE ELSE ARENA_INUSE
           k == CommittedTo(h, a)
<1>3. i \in Nat
  BY DEF ARENA_FREE, ARENA_INUSE
<1>4. a + i <= k /\ a + i > k /\ a \in Nat /\ k \in Nat
  BY <1>2
<1> HIDE DEF i, k
<1> QED
  BY <1>3, <1>4

\* A heap that has no bare arena has none of a free block.
LEMMA BareFree ==
    ASSUME SizeAssumption, NEW h, Whole(h), ~Bare(h)
    PROVE  FreeCommitted(h)
<1> SUFFICES ASSUME NEW a \in FreeBlocks(h) PROVE a + 5 <= CommittedTo(h, a)
  BY DEF FreeCommitted
<1>1. a \in DOMAIN h.arena /\ h.arena[a].free
  BY DEF FreeBlocks
<1>2. a \in Nat /\ CommittedTo(h, a) \in Nat
  BY <1>1, BlockFields, CommittedNat DEF Whole
<1>3. ~ (a + 5 > CommittedTo(h, a))
  BY <1>1 DEF Bare, ARENA_FREE
<1> DEFINE k == CommittedTo(h, a)
<1> HIDE DEF k
<1>4. a + 5 <= k
  BY <1>2, <1>3 DEF k
<1> QED
  BY <1>4 DEF k

\* A block that is taken leaves no bare arena, unless it is short of memory.
LEMMA TakenExcused ==
    ASSUME SizeAssumption, HeapInv, NEW n \in Request, Found(heap, Asked(n)),
           NEW f, f = FindFreeBlock(heap, Asked(n)), Bare(Take(f.heap, f.sub, f.block, Asked(n)))
    PROVE  ShortCommit(Asked(n))
<1> DEFINE size == Asked(n)
           g == Take(f.heap, f.sub, f.block, size)
<1>1. size \in Nat /\ HEAP_MIN_BLOCK_SIZE <= size
  BY Sizes, AskedSize
<1>2. /\ Standing(heap, granted, failed) /\ Whole(heap) /\ heap.top \in Granule .. Space
      /\ FreeCommitted(heap)
  BY DEF HeapInv, Standing
<1> HIDE DEF size
<1>3. Got(heap, g, f.block, size)
  BY <1>1, <1>2, TakeGot DEF size
<1>4. Fitting(heap, size) # {} \/ Ample(size) => FALSE
  <2>1. SUFFICES ASSUME Fitting(heap, size) # {} \/ Ample(size) PROVE FALSE
    OBVIOUS
  <2>2. FreeCommitted(g)
    BY <1>2, <1>3, <2>1 DEF Got
  <2>3. Standing(g, With(granted, f.block + ARENA_INUSE, size), failed)
    <3> HIDE DEF g
    <3> QED
      BY <1>1, <1>2, <2>2, AllocatedStanding DEF size, g
  <2>4. Bare(g)
    BY DEF size
  <2> HIDE DEF g
  <2> QED
    BY <2>3, <2>4, NotBare
<1>5. Grows(heap, size) /\ ~Ample(size)
  BY <1>4 DEF Found, size
<1> QED
  BY <1>5 DEF ShortCommit, Ample, size

\* A call that goes beyond what is committed does so with an excuse.
LEMMA FaultExcused ==
    ASSUME SizeAssumption, HeapInv, faulted = FALSE, Next, faulted' # FALSE
    PROVE  HeapInv'
<1>1. Standing(heap, granted, failed) /\ Whole(heap) /\ Covered(heap, granted, failed)
  BY DEF HeapInv, Standing
<1>2. SUFFICES Fault /\ Excused
  <2>1. Fault /\ Excused => heap' = heap /\ granted' = granted /\ failed' = failed /\ faulted' = TRUE
    BY DEF Fault
  <2>2. heap' = heap /\ failed' = failed => (Excused' <=> Excused)
    BY DEF Excused, ShortCommit, Grows, Asked
  <2> QED
    BY <1>1, <2>1, <2>2 DEF HeapInv
<1>3. ASSUME NEW n \in Request, HeapAlloc(n)
      PROVE  Fault /\ Excused
  <2> DEFINE f == FindFreeBlock(heap, Asked(n))
  <2>1. Found(heap, Asked(n)) /\ Bare(Take(f.heap, f.sub, f.block, Asked(n))) /\ Fault
    BY <1>3 DEF HeapAlloc
  <2>2. ShortCommit(Asked(n))
    BY <2>1, TakenExcused
  <2> QED
    BY <2>1, <2>2 DEF Excused
<1>4. ASSUME NEW p \in DOMAIN granted, NEW n \in Request, HeapReAlloc(p, n)
      PROVE  Fault /\ Excused
  <2> DEFINE a == p - ARENA_INUSE
             s == FindSubHeap(heap, a)
             size == Asked(n)
             g == ShrinkBlock(heap, s, a, size)
  <2>1. a \in InUse(heap) /\ p = a + ARENA_INUSE
    BY <1>1, HeldBlock
  <2>2. size \in Nat /\ HEAP_MIN_BLOCK_SIZE <= size
    BY Sizes, AskedSize
  <2>3. CASE Shrink(p, size)
    <3>1. size <= heap.arena[a].size /\ Bare(g) /\ Fault
      BY <2>3 DEF Shrink
    <3> HIDE DEF a, size
    <3>2. p \in DOMAIN failed
      <4>1. SUFFICES ASSUME p \notin DOMAIN failed PROVE FALSE
        OBVIOUS
      <4>2. FreeCommitted(g)
        BY <1>1, <2>1, <2>2, <3>1, <4>1, ShrunkFree
      <4> DEFINE fb == IF After(g, a) <= CommittedTo(g, a) THEN Without(failed, p) ELSE failed
                 G == [granted EXCEPT ![p] = size]
      <4>3. Standing(g, G, fb)
        BY <1>1, <2>1, <2>2, <3>1, <4>2, ShrunkStanding
      <4> HIDE DEF fb, G, g
      <4> QED
        BY <3>1, <4>3, NotBare
    <3> QED
      BY <3>1, <3>2 DEF Excused
  <2>4. CASE Grow(p, size)
    BY <2>4 DEF Grow
  <2>5. CASE Move(p, size)
    <3> DEFINE f == FindFreeBlock(heap, size)
               k == Take(f.heap, f.sub, f.block, size)
    <3>1. Found(heap, size) /\ Fault /\ (Bare(k) \/ After(heap, a) > CommittedTo(heap, a))
      BY <2>5 DEF Move
    <3>2. CASE Bare(k)
      <4>1. ShortCommit(size)
        BY <3>1, <3>2, TakenExcused
      <4> QED
        BY <3>1, <4>1 DEF Excused
    <3> HIDE DEF a
    <3>3. CASE After(heap, a) > CommittedTo(heap, a)
      <4>1. p \in DOMAIN failed
        <5>1. SUFFICES ASSUME p \notin DOMAIN failed PROVE FALSE
          OBVIOUS
        <5>2. After(heap, a) <= CommittedTo(heap, a)
          BY <1>1, <2>1, <5>1 DEF Covered, HoldsAt, Holds
        <5>3. After(heap, a) \in Nat /\ CommittedTo(heap, a) \in Nat
          BY <1>1, <2>1, BlockFields, CommittedNat DEF InUse, Whole
        <5> QED
          BY <3>3, <5>2, <5>3
      <4> QED
        BY <3>1, <4>1 DEF Excused
    <3> QED
      BY <3>1, <3>2, <3>3
  <2> QED
    BY <1>4, <2>3, <2>4, <2>5 DEF HeapReAlloc
<1>5. ASSUME NEW initial \in {0, DefSize}, NEW max \in {0, DefSize}, HeapCreate(initial, max)
      PROVE  FALSE
  BY <1>5 DEF HeapCreate
<1>6. ASSUME NEW n \in Request, CommitFails(n)
      PROVE  FALSE
  BY <1>6 DEF CommitFails
<1>7. ASSUME NEW p \in DOMAIN granted, HeapFree(p)
      PROVE  FALSE
  BY <1>7 DEF HeapFree
<1> QED
  BY <1>3, <1>4, <1>5, <1>6, <1>7 DEF Next

\* and every call keeps it.
LEMMA NextHeapInv ==
    SizeAssumption /\ HeapInv /\ [Next]_vars => HeapInv'
<1> SUFFICES ASSUME SizeAssumption, HeapInv, [Next]_vars PROVE HeapInv'
  OBVIOUS
<1>1. Standing(heap, granted, failed) /\ Whole(heap) /\ heap.top \in Granule .. Space
      /\ Covered(heap, granted, failed) /\ heap \in HeapType
  BY DEF HeapInv, Standing, Whole
<1>2. CASE UNCHANGED vars
  <2>1. heap' = heap /\ granted' = granted /\ failed' = failed /\ faulted' = faulted
    BY <1>2 DEF vars
  <2>2. Excused' <=> Excused
    BY <2>1 DEF Excused, ShortCommit, Grows, Asked
  <2> QED
    BY <2>1, <2>2 DEF HeapInv
<1>3. CASE Next /\ faulted' # FALSE
  <2>1. faulted = FALSE
    BY <1>3 DEF Next, HeapInv
  <2> QED
    BY <1>3, <2>1, FaultExcused
<1>4. CASE Next /\ faulted' = FALSE
  <2>1. SUFFICES Standing(heap', granted', failed')
    BY <1>4 DEF HeapInv
  <2>2. ~Fault
    BY <1>4 DEF Fault
  <2>3. ASSUME NEW initial \in {0, DefSize}, NEW max \in {0, DefSize}, HeapCreate(initial, max)
        PROVE  Standing(heap', granted', failed')
    <3> DEFINE b == (max = 0)
               h == [NoHeap EXCEPT !.growable = b]
               total == IF max = 0 THEN DefSize ELSE max
    <3>1. /\ heap.sub = <<>> /\ h.top + TotalSize(initial, total) <= Space
          /\ heap' = CreateSubHeap(h, initial, total, HeapHeader)
          /\ granted' = granted /\ failed' = failed
      BY <2>3 DEF HeapCreate, Exists
    <3>2. initial \in Nat /\ total \in Nat
      BY Sizes
    <3>3. DOMAIN granted = {} /\ DOMAIN failed = {}
      BY <1>1, <3>1, NoBlocks
    <3>4. b \in BOOLEAN
      OBVIOUS
    <3> HIDE DEF b, total
    <3> QED
      BY <3>1, <3>2, <3>3, <3>4, CreatedStanding
  <2>4. ASSUME NEW n \in Request, HeapAlloc(n)
        PROVE  Standing(heap', granted', failed')
    <3> DEFINE size == Asked(n)
               f == FindFreeBlock(heap, size)
               g == Take(f.heap, f.sub, f.block, size)
    <3>1. size \in Nat /\ HEAP_MIN_BLOCK_SIZE <= size
      BY Sizes, AskedSize
    <3>2. /\ Found(heap, size) /\ ~Bare(g) /\ heap' = g /\ failed' = failed
          /\ granted' = With(granted, f.block + ARENA_INUSE, size)
      BY <2>2, <2>4 DEF HeapAlloc
    <3> HIDE DEF size
    <3>3. Whole(g)
      <4>1. Got(heap, g, f.block, size)
        BY <1>1, <3>1, <3>2, TakeGot
      <4> QED
        BY <4>1 DEF Got
    <3>4. FreeCommitted(g)
      <4> HIDE DEF g
      <4> QED
        BY <3>2, <3>3, BareFree
    <3> QED
      BY <1>1, <3>1, <3>2, <3>4, AllocatedStanding
  <2>5. ASSUME NEW n \in Request, CommitFails(n)
        PROVE  Standing(heap', granted', failed')
    <3> DEFINE size == NewSize(Asked(n))
               z == TotalSize(size, Max({DefSize, size}))
               t == heap.top + z
    <3>1. Asked(n) \in Nat /\ HEAP_MIN_BLOCK_SIZE <= Asked(n)
      BY Sizes, AskedSize
    <3>2. /\ heap' = [heap EXCEPT !.top = t] /\ granted' = granted /\ failed' = failed
          /\ t <= Space
      BY <2>5 DEF CommitFails, Grows
    <3>3. size \in Nat /\ DefSize \in Nat
      BY <3>1, Sizes DEF NewSize, SUBHEAP, ARENA_FREE
    <3>4. Max({DefSize, size}) \in Nat
      BY <3>3, OfTwo
    <3>5. Sized(size, FirstCommit(size), z)
      <4> HIDE DEF size
      <4> QED
        BY <3>3, <3>4, TotalSizeFields
    <3>6. z \in Nat /\ heap.top \in Nat
      BY <1>1, <3>5 DEF Sized, HeapType
    <3> HIDE DEF z
    <3>7. t \in Nat /\ heap.top <= t
      BY <3>6
    <3> HIDE DEF t
    <3> QED
      BY <1>1, <3>2, <3>7, RaisedStanding
  <2>6. ASSUME NEW p \in DOMAIN granted, HeapFree(p)
        PROVE  Standing(heap', granted', failed')
    <3> DEFINE a == p - ARENA_INUSE
               s == FindSubHeap(heap, a)
    <3>1. a \in InUse(heap) /\ p = a + ARENA_INUSE
      BY <1>1, HeldBlock
    <3> HIDE DEF a
    <3>2. ValidateInUseArena(heap, s, a)
      BY <1>1, <3>1, ValidInUse
    <3>3. /\ heap' = MakeInUseBlockFree(heap, s, a)
          /\ granted' = Without(granted, p) /\ failed' = Without(failed, p)
      BY <2>6, <3>2 DEF HeapFree, a
    <3> QED
      BY <1>1, <3>1, <3>3, FreedStanding
  <2>7. ASSUME NEW p \in DOMAIN granted, NEW n \in Request, HeapReAlloc(p, n)
        PROVE  Standing(heap', granted', failed')
    <3> DEFINE a == p - ARENA_INUSE
               s == FindSubHeap(heap, a)
               size == Asked(n)
    <3>1. a \in InUse(heap) /\ p = a + ARENA_INUSE
      BY <1>1, HeldBlock
    <3>2. size \in Nat /\ HEAP_MIN_BLOCK_SIZE <= size
      BY Sizes, AskedSize
    <3>3. CASE Shrink(p, size)
      <4> DEFINE g == ShrinkBlock(heap, s, a, size)
      <4>1. /\ size <= heap.arena[a].size /\ ~Bare(g) /\ heap' = g
            /\ granted' = [granted EXCEPT ![p] = size]
            /\ failed' = IF After(g, a) <= CommittedTo(g, a) THEN Without(failed, p) ELSE failed
        BY <2>2, <3>3 DEF Shrink, Settled
      <4> HIDE DEF a, size
      <4>2. Whole(g)
        <5>1. Opened(heap, heap, s, a, After(heap, a))
          BY <1>1, <3>1, InUseOpened
        <5> QED
          BY <1>1, <3>2, <4>1, <5>1, ShrunkWhole
      <4>3. FreeCommitted(g)
        <5> HIDE DEF g
        <5> QED
          BY <4>1, <4>2, BareFree
      <4> QED
        BY <1>1, <3>1, <3>2, <4>1, <4>3, ShrunkStanding
    <3>4. CASE Grow(p, size)
      <4> DEFINE y == After(heap, a)
      <4>1. CanGrow(a, size)
        BY <3>4 DEF Grow
      <4>2. \/ /\ heap' = ShrinkBlock(Commit(Merged(heap, a, y), s, Reach(a, size)), s, a, size)
               /\ granted' = [granted EXCEPT ![p] = size] /\ failed' = Without(failed, p)
            \/ /\ ~IsCommitted(heap, s, Reach(a, size)) /\ heap' = Merged(heap, a, y)
               /\ granted' = granted
               /\ failed' = IF p \in DOMAIN failed THEN failed ELSE With(failed, p, granted[p])
        BY <3>4 DEF Grow, Merged
      <4> HIDE DEF a, size
      <4>3. y \in FreeBlocks(heap) /\ size <= heap.arena[a].size + heap.arena[y].size + ARENA_FREE
        BY <3>1, <4>1, GrowPlace
      <4>4. CASE /\ heap' = ShrinkBlock(Commit(Merged(heap, a, y), s, Reach(a, size)), s, a, size)
                 /\ granted' = [granted EXCEPT ![p] = size] /\ failed' = Without(failed, p)
        BY <1>1, <3>1, <3>2, <4>3, <4>4, GrownStanding
      <4>5. CASE /\ ~IsCommitted(heap, s, Reach(a, size)) /\ heap' = Merged(heap, a, y)
                 /\ granted' = granted
                 /\ failed' = IF p \in DOMAIN failed THEN failed ELSE With(failed, p, granted[p])
        BY <1>1, <3>1, <3>2, <4>3, <4>5, EnlargedStanding
      <4> QED
        BY <4>2, <4>4, <4>5
    <3>5. CASE Move(p, size)
      <4> DEFINE f == FindFreeBlock(heap, size)
                 q == f.block + ARENA_INUSE
                 k == Take(f.heap, f.sub, f.block, size)
      <4>1. /\ Found(heap, size) /\ ~Bare(k) /\ heap' = MakeInUseBlockFree(k, s, a)
            /\ granted' = With(Without(granted, p), q, size)
            /\ failed' = Without(failed, p)
        BY <2>2, <3>5 DEF Move
      <4> HIDE DEF a, size
      <4>2. Whole(k)
        <5>1. Got(heap, k, f.block, size)
          BY <1>1, <3>2, <4>1, TakeGot
        <5> QED
          BY <5>1 DEF Got
      <4>3. FreeCommitted(k)
        <5> HIDE DEF k
        <5> QED
          BY <4>1, <4>2, BareFree
      <4> QED
        BY <1>1, <3>1, <3>2, <4>1, <4>3, MovedStanding
    <3> QED
      BY <2>7, <3>3, <3>4, <3>5 DEF HeapReAlloc
  <2> QED
    BY <1>4, <2>3, <2>4, <2>5, <2>6, <2>7 DEF Next
<1> QED
  BY <1>2, <1>3, <1>4

\* So it always holds.
LEMMA AlwaysHeapInv ==
    Spec => []HeapInv
<1> USE SizeAssumption
<1>1. Init => HeapInv
  BY InitHeapInv
<1>2. HeapInv /\ [Next]_vars => HeapInv'
  BY NextHeapInv
<1> QED
  BY <1>1, <1>2, PTL DEF Spec

----------------------------------------------------------------------------
(* What follows from it *)

\* The types are part of it.
LEMMA TypesHold ==
    ASSUME SizeAssumption, HeapInv
    PROVE  TypeOK
<1>1. Whole(heap) /\ heap.top \in Granule .. Space /\ Covered(heap, granted, failed)
      /\ heap \in HeapType /\ SubsApart(heap)
  BY DEF HeapInv, Standing, Whole
<1>2. \A s \in DOMAIN heap.sub :
         /\ heap.sub[s] \in [size : Nat, headerSize : {HeapHeader, SUBHEAP}, commitSize : Nat]
         /\ Granule <= s /\ End(heap, s) <= heap.top
         /\ heap.sub[s].commitSize <= heap.sub[s].size
  BY <1>1, SubFields DEF SubsApart, SubHeap
<1>3. \A a \in DOMAIN heap.arena :
         heap.arena[a] \in [size : Nat, free : BOOLEAN, prevFree : BOOLEAN, back : Nat \cup {None}]
  BY <1>1, BlockFields DEF Block
<1>4. heap.freeList \in [Lists -> Seq(Nat)] /\ heap.growable \in BOOLEAN
  BY <1>1 DEF HeapType
<1>5. \A p \in DOMAIN granted : granted[p] \in Nat
  BY <1>1 DEF Covered, HoldsAt, Holds
<1>6. ASSUME NEW p \in DOMAIN failed
      PROVE  p \in DOMAIN granted /\ failed[p] \in Nat
  <2>1. p \in DOMAIN granted
    BY <1>1 DEF Covered
  <2>2. p - ARENA_INUSE \in InUse(heap) /\ p = (p - ARENA_INUSE) + ARENA_INUSE
    BY <2>1, HeldBlock DEF HeapInv
  <2>3. Sure(granted, failed, p) \in Nat
    BY <1>1, <2>2 DEF Covered, HoldsAt, Holds
  <2> QED
    BY <2>1, <2>3 DEF Sure
<1> QED
  BY <1>1, <1>2, <1>3, <1>4, <1>5, <1>6 DEF TypeOK, HeapInv

\* The blocks of a sub-heap.
Within(h, s) == {a \in DOMAIN h.arena : s <= a /\ a < End(h, s)}

\* They are those of which it is the sub-heap.
LEMMA WithinFound ==
    ASSUME SizeAssumption, NEW h, Whole(h), NEW s \in DOMAIN h.sub, NEW a
    PROVE  a \in Within(h, s) <=> a \in DOMAIN h.arena /\ FindSubHeap(h, a) = s
<1>1. h \in HeapType /\ SubsApart(h) /\ Filled(h)
  BY DEF Whole
<1>2. ASSUME a \in Within(h, s)
      PROVE  a \in DOMAIN h.arena /\ FindSubHeap(h, a) = s
  <2>1. a \in DOMAIN h.arena /\ s <= a /\ a < End(h, s) /\ a \in Nat
    BY <1>1, <1>2, BlockFields DEF Within
  <2> QED
    BY <1>1, <2>1, SubFound
<1>3. ASSUME a \in DOMAIN h.arena, FindSubHeap(h, a) = s
      PROVE  a \in Within(h, s)
  <2>1. First(h, s) <= a /\ After(h, a) <= End(h, s)
    BY <1>1, <1>3, BlockPlace
  <2>2. s \in Nat /\ First(h, s) \in Nat /\ End(h, s) \in Nat /\ s < First(h, s)
    BY <1>1, SubFields
  <2>3. a \in Nat /\ After(h, a) \in Nat /\ a + 4 <= After(h, a)
    BY <1>1, <1>3, BlockFields
  <2>4. s <= a /\ a < End(h, s)
    BY <2>1, <2>2, <2>3
  <2> QED
    BY <1>3, <2>4 DEF Within
<1> QED
  BY <1>2, <1>3

\* Each begins where another ends, from the first to the end of the sub-heap.
LEMMA WithinFollow ==
    ASSUME SizeAssumption, NEW h, Whole(h), NEW s \in DOMAIN h.sub
    PROVE  {First(h, s)} \cup {After(h, a) : a \in Within(h, s)} = Within(h, s) \cup {End(h, s)}
<1>1. h \in HeapType /\ SubsApart(h) /\ Filled(h)
  BY DEF Whole
<1>2. s \in Nat /\ First(h, s) \in Nat /\ End(h, s) \in Nat /\ s < First(h, s)
      /\ First(h, s) + 5 <= End(h, s)
  BY <1>1, SubFields DEF SubsApart, ARENA_FREE
<1>3. First(h, s) \in Within(h, s)
  <2>1. First(h, s) \in DOMAIN h.arena
    BY <1>1 DEF Filled, Firsts
  <2> QED
    BY <1>2, <2>1 DEF Within
<1>4. ASSUME NEW a \in Within(h, s)
      PROVE  After(h, a) \in Within(h, s) \cup {End(h, s)}
  <2>1. a \in DOMAIN h.arena /\ FindSubHeap(h, a) = s
    BY WithinFound
  <2>2. CASE After(h, a) \in DOMAIN h.arena
    <3>1. s \in DOMAIN h.sub /\ FindSubHeap(h, After(h, a)) = s
      BY <2>1, <2>2, NextPlace
    <3> QED
      BY <2>2, <3>1, WithinFound
  <2>3. CASE After(h, a) \notin DOMAIN h.arena
    BY <2>1, <2>3, NextPlace
  <2> QED
    BY <2>2, <2>3
\* A place in the sub-heap behind its first block, or its end, has a block before it.
<1>5. ASSUME NEW x \in Nat, x \in DOMAIN h.arena \cup Ends(h), First(h, s) < x, x <= End(h, s)
      PROVE  \E b \in Within(h, s) : After(h, b) = x
  <2>1. x \notin Firsts(h)
    <3>1. SUFFICES ASSUME NEW t \in DOMAIN h.sub, x = First(h, t) PROVE FALSE
      BY DEF Firsts
    <3>2. t \in Nat /\ First(h, t) \in Nat /\ End(h, t) \in Nat /\ t < First(h, t)
          /\ First(h, t) + 5 <= End(h, t)
      BY <1>1, SubFields DEF SubsApart, ARENA_FREE
    <3>3. (s < t => End(h, s) <= t) /\ (t < s => End(h, t) <= s)
      BY <1>1 DEF SubsApart
    <3>4. s = t
      BY <1>2, <1>5, <3>1, <3>2, <3>3
    <3> QED
      BY <1>2, <1>5, <3>1, <3>4
  <2>2. PICK b \in DOMAIN h.arena : After(h, b) = x
    BY <1>1, <1>5, <2>1 DEF Filled
  <2>3. PICK t \in DOMAIN h.sub : First(h, t) <= b /\ After(h, b) <= End(h, t)
    BY <1>1 DEF Filled
  <2>4. t \in Nat /\ First(h, t) \in Nat /\ End(h, t) \in Nat /\ t < First(h, t)
    BY <1>1, SubFields
  <2>5. b \in Nat /\ b + 4 <= x
    BY <1>1, <2>2, BlockFields
  <2>6. (s < t => End(h, s) <= t) /\ (t < s => End(h, t) <= s)
    BY <1>1 DEF SubsApart
  <2>7. s = t
    BY <1>2, <1>5, <2>2, <2>3, <2>4, <2>5, <2>6
  <2>8. s <= b /\ b < End(h, s)
    BY <1>2, <1>5, <2>3, <2>4, <2>5, <2>7
  <2> QED
    BY <2>2, <2>8 DEF Within
<1>6. ASSUME NEW x \in Within(h, s) \cup {End(h, s)}
      PROVE  x = First(h, s) \/ \E b \in Within(h, s) : After(h, b) = x
  <2>1. x \in Nat /\ x \in DOMAIN h.arena \cup Ends(h) /\ x <= End(h, s)
    BY <1>1, <1>2, BlockFields DEF Within, Ends
  <2>2. First(h, s) <= x
    <3>1. CASE x = End(h, s)
      BY <1>2, <3>1
    <3>2. CASE x \in Within(h, s)
      <4>1. x \in DOMAIN h.arena /\ FindSubHeap(h, x) = s
        BY <3>2, WithinFound
      <4> QED
        BY <1>1, <4>1, BlockPlace
    <3> QED
      BY <3>1, <3>2
  <2>3. CASE x = First(h, s)
    BY <2>3
  <2>4. CASE x # First(h, s)
    <3>1. First(h, s) < x
      BY <1>2, <2>1, <2>2, <2>4
    <3>2. \E b \in Within(h, s) : After(h, b) = x
      BY <1>5, <2>1, <3>1
    <3> QED
      BY <3>2
  <2> QED
    BY <2>3, <2>4
<1> DEFINE W == Within(h, s)
           after == {After(h, a) : a \in W}
<1> HIDE DEF W
<1>7. {First(h, s)} \cup after \subseteq W \cup {End(h, s)}
  BY <1>3, <1>4 DEF W
<1>8. W \cup {End(h, s)} \subseteq {First(h, s)} \cup after
  BY <1>6 DEF W
<1> QED
  BY <1>7, <1>8 DEF W

\* HeapValidate has nothing to complain of.
LEMMA ValidHolds ==
    ASSUME SizeAssumption, HeapInv
    PROVE  HeapValid
<1>1. Whole(heap) /\ heap \in HeapType /\ Flagged(heap) /\ Listed(heap, FreeBlocks(heap))
  BY DEF HeapInv, Standing, Whole
<1>2. ASSUME NEW s \in DOMAIN heap.sub, NEW a \in Within(heap, s)
      PROVE  IF heap.arena[a].free THEN ValidateFreeArena(heap, s, a)
             ELSE ValidateInUseArena(heap, s, a)
  <2>1. a \in DOMAIN heap.arena /\ FindSubHeap(heap, a) = s
    BY <1>1, <1>2, WithinFound
  <2>2. CASE ~heap.arena[a].free
    <3>1. a \in InUse(heap)
      BY <2>1, <2>2 DEF InUse
    <3>2. ValidateInUseArena(heap, s, a)
      BY <1>1, <2>1, <3>1, ValidInUse
    <3> QED
      BY <2>2, <3>2
  <2>3. CASE heap.arena[a].free
    <3> DEFINE n == After(heap, a)
               k == ListFor(heap.arena[a].size)
    <3>1. n <= End(heap, s) /\ (n < End(heap, s) => n \in DOMAIN heap.arena)
      BY <1>1, <2>1, NextPlace
    <3>2. n \in DOMAIN heap.arena => heap.arena[n].prevFree /\ heap.arena[n].back = a
      BY <1>1, <2>1, <2>3 DEF Flagged
    <3>3. heap.arena[a].size \in Nat
      BY <1>1, <2>1, BlockFields
    <3>4. k \in Lists
      BY <3>3, HasList
    <3>5. a \in FreeBlocks(heap)
      BY <2>1, <2>3 DEF FreeBlocks
    <3>6. a \in ToSet(heap.freeList[k])
      BY <1>1, <3>4, <3>5 DEF Listed
    <3> HIDE DEF k
    <3> QED
      BY <2>3, <3>1, <3>2, <3>4, <3>6 DEF ValidateFreeArena
  <2> QED
    BY <2>2, <2>3
<1>3. \A s \in DOMAIN heap.sub :
         /\ {s + heap.sub[s].headerSize} \cup {After(heap, a) : a \in Within(heap, s)}
               = Within(heap, s) \cup {End(heap, s)}
         /\ \A a \in Within(heap, s) :
               IF heap.arena[a].free THEN ValidateFreeArena(heap, s, a)
               ELSE ValidateInUseArena(heap, s, a)
  <2> TAKE s \in DOMAIN heap.sub
  <2>1. {First(heap, s)} \cup {After(heap, a) : a \in Within(heap, s)}
           = Within(heap, s) \cup {End(heap, s)}
    BY <1>1, WithinFollow
  <2> QED
    BY <1>2, <2>1 DEF First
<1> QED
  BY <1>3, TypesHold DEF HeapValid, Within

\* The free lists are complete, and no two free blocks touch.
LEMMA ListsHold ==
    ASSUME HeapInv
    PROVE  ListsComplete
<1>1. Flagged(heap) /\ Listed(heap, FreeBlocks(heap))
  BY DEF HeapInv, Standing, Whole
<1>2. \A a \in FreeBlocks(heap) : After(heap, a) \notin FreeBlocks(heap)
  BY <1>1 DEF Flagged, FreeBlocks
<1> QED
  BY <1>1, <1>2 DEF ListsComplete, Listed, FreeBlocks

\* What is in use is held.
LEMMA InUseHeld ==
    ASSUME HeapInv
    PROVE  InUseIsHeld
<1>1. Covered(heap, granted, failed)
  BY DEF HeapInv, Standing
<1>2. \A p \in DOMAIN granted : granted[p] <= heap.arena[p - ARENA_INUSE].size
  <2> TAKE p \in DOMAIN granted
  <2>1. p - ARENA_INUSE \in InUse(heap) /\ p = (p - ARENA_INUSE) + ARENA_INUSE
    BY HeldBlock DEF HeapInv
  <2> DEFINE a == p - ARENA_INUSE
  <2>2. HoldsAt(heap, a, granted, failed)
    BY <1>1, <2>1 DEF Covered
  <2> HIDE DEF a
  <2>3. granted[p] <= heap.arena[a].size
    BY <2>1, <2>2 DEF HoldsAt, Holds, a
  <2> QED
    BY <2>3 DEF a
<1> QED
  BY <1>1, <1>2 DEF InUseIsHeld, Covered, InUse

\* What is held does not overlap.
LEMMA HeldApart ==
    ASSUME NEW h, NEW gr, NEW fa, Standing(h, gr, fa), NEW p \in DOMAIN gr, NEW q \in DOMAIN gr,
           p # q
    PROVE  Pool!Words(p, gr[p]) \cap Pool!Words(q, gr[q]) = {}
<1> DEFINE a == p - ARENA_INUSE
           b == q - ARENA_INUSE
           za == h.arena[a].size
           zb == h.arena[b].size
           m == gr[p]
           n == gr[q]
<1>1. a \in InUse(h) /\ b \in InUse(h) /\ p = a + ARENA_INUSE /\ q = b + ARENA_INUSE
  BY HeldBlock
<1> HIDE DEF a, b
<1>2. a \in DOMAIN h.arena /\ ~h.arena[a].free /\ b \in DOMAIN h.arena /\ ~h.arena[b].free
  BY <1>1 DEF InUse
<1>3. h \in HeapType /\ Filled(h)
  BY DEF Standing, Whole
<1>4. /\ a \in Nat /\ b \in Nat /\ za \in Nat /\ zb \in Nat
      /\ After(h, a) = a + za + 4 /\ After(h, b) = b + zb + 4
  BY <1>2, <1>3, BlockFields
<1>5. HoldsAt(h, a, gr, fa) /\ HoldsAt(h, b, gr, fa)
  BY <1>1 DEF Standing, Covered
<1>6. m \in Nat /\ n \in Nat /\ m <= za /\ n <= zb
  BY <1>1, <1>5 DEF HoldsAt, Holds
<1>7. (a < b => After(h, a) <= b) /\ (b < a => After(h, b) <= a)
  BY <1>2, <1>3 DEF Filled
<1>8. p = a + 4 /\ q = b + 4
  BY <1>1 DEF ARENA_INUSE
<1> HIDE DEF za, zb, m, n
<1>9. p + m <= q \/ q + n <= p
  <2>1. a < b \/ b < a
    BY <1>4, <1>8
  <2>2. (a < b => a + za + 4 <= b) /\ (b < a => b + zb + 4 <= a)
    BY <1>4, <1>7
  <2> QED
    BY <1>4, <1>6, <1>8, <2>1, <2>2
<1>10. p .. p + m - 1 \cap q .. q + n - 1 = {}
  BY <1>4, <1>6, <1>8, <1>9
<1> QED
  BY <1>10 DEF Pool!Words, m, n

\* Memory that is handed out is no one else's.
LEMMA PoolAlloc ==
    ASSUME NEW h, NEW q, NEW size, q \notin DOMAIN granted,
           granted' = With(granted, q, size), Standing(h, granted', failed)
    PROVE  Pool!Next
<1>1. DOMAIN granted' = DOMAIN granted \cup {q} /\ granted'[q] = size
      /\ \A p \in DOMAIN granted : granted'[p] = granted[p]
  BY DEF With
<1>2. \A p \in DOMAIN granted : Pool!Words(q, size) \cap Pool!Words(p, granted[p]) = {}
  <2> TAKE p \in DOMAIN granted
  <2>1. p # q /\ p \in DOMAIN granted' /\ q \in DOMAIN granted'
    BY <1>1
  <2>2. Pool!Words(q, granted'[q]) \cap Pool!Words(p, granted'[p]) = {}
    BY <2>1, HeldApart
  <2> QED
    BY <1>1, <2>2
<1>3. granted' = [p \in DOMAIN granted \cup {q} |-> IF p = q THEN granted'[q] ELSE granted[p]]
  BY <1>1 DEF With
<1>4. Pool!Alloc(q, granted'[q])
  BY <1>1, <1>2, <1>3 DEF Pool!Alloc
<1> QED
  BY <1>1, <1>4 DEF Pool!Next

\* The words of a block that is resized where it is are no one else's.
LEMMA PoolResize ==
    ASSUME NEW p \in DOMAIN granted, NEW size,
           granted' = [granted EXCEPT ![p] = size], Standing(heap', granted', failed')
    PROVE  Pool!Next
<1>1. DOMAIN granted' = DOMAIN granted /\ granted'[p] = size
      /\ \A q \in DOMAIN granted : q # p => granted'[q] = granted[q]
  OBVIOUS
<1>2. \A q \in DOMAIN granted \ {p} :
         Pool!Words(p, granted'[p]) \cap Pool!Words(q, granted[q]) = {}
  <2> TAKE q \in DOMAIN granted \ {p}
  <2>1. p # q /\ p \in DOMAIN granted' /\ q \in DOMAIN granted'
    BY <1>1
  <2>2. Pool!Words(p, granted'[p]) \cap Pool!Words(q, granted'[q]) = {}
    BY <2>1, HeldApart
  <2> QED
    BY <1>1, <2>2
<1>3. granted' = [q \in (DOMAIN granted \ {p}) \cup {p} |->
                     IF q = p THEN granted'[p] ELSE granted[q]]
  <2>1. DOMAIN granted = (DOMAIN granted \ {p}) \cup {p}
    OBVIOUS
  <2> QED
    BY <1>1, <2>1
<1>4. Pool!ReAlloc(p, p, granted'[p])
  BY <1>2, <1>3 DEF Pool!ReAlloc
<1> QED
  BY <1>1, <1>4 DEF Pool!Next

\* Nor are those it moves to, its own old ones included.
LEMMA PoolMove ==
    ASSUME NEW h, NEW p \in DOMAIN granted, NEW q, NEW size, q \notin DOMAIN granted,
           granted' = With(Without(granted, p), q, size),
           Standing(h, With(granted, q, size), failed)
    PROVE  Pool!Next
<1> DEFINE r == Without(granted, p)
           G == With(granted, q, size)
<1>1. DOMAIN r = DOMAIN granted \ {p} /\ \A u \in DOMAIN granted \ {p} : r[u] = granted[u]
  BY WithoutOther
<1>2. DOMAIN G = DOMAIN granted \cup {q} /\ G[q] = size
      /\ \A u \in DOMAIN granted : G[u] = granted[u]
  BY DEF With
<1>3. granted' = [u \in (DOMAIN granted \ {p}) \cup {q} |-> IF u = q THEN size ELSE granted[u]]
  <2> HIDE DEF r
  <2>1. granted' = With(r, q, size)
    BY DEF r
  <2>2. With(r, q, size) = [u \in (DOMAIN granted \ {p}) \cup {q} |-> IF u = q THEN size ELSE r[u]]
    BY <1>1 DEF With
  <2>3. [u \in (DOMAIN granted \ {p}) \cup {q} |-> IF u = q THEN size ELSE r[u]]
           = [u \in (DOMAIN granted \ {p}) \cup {q} |-> IF u = q THEN size ELSE granted[u]]
    BY <1>1
  <2> QED
    BY <2>1, <2>2, <2>3
<1>4. q \in DOMAIN granted' /\ granted'[q] = size
  BY <1>3
<1> HIDE DEF G
<1>5. \A u \in DOMAIN granted : Pool!Words(q, size) \cap Pool!Words(u, granted[u]) = {}
  <2> TAKE u \in DOMAIN granted
  <2>1. q # u /\ q \in DOMAIN G /\ u \in DOMAIN G
    BY <1>2
  <2>2. Standing(h, G, failed)
    BY DEF G
  <2>3. Pool!Words(q, G[q]) \cap Pool!Words(u, G[u]) = {}
    BY <2>1, <2>2, HeldApart
  <2> QED
    BY <1>2, <2>3
<1>6. Pool!ReAlloc(p, q, granted'[q])
  BY <1>3, <1>4, <1>5 DEF Pool!ReAlloc
<1> QED
  BY <1>4, <1>6 DEF Pool!Next

\* So every step of the heap is one of the pool, or none.
LEMMA PoolStep ==
    ASSUME SizeAssumption, HeapInv, HeapInv', [Next]_vars
    PROVE  [Pool!Next]_granted
<1>1. Standing(heap, granted, failed) /\ Standing(heap', granted', failed')
      /\ Whole(heap) /\ heap.top \in Granule .. Space /\ Covered(heap, granted, failed)
  BY DEF HeapInv, Standing
<1>2. ASSUME NEW initial \in {0, DefSize}, NEW max \in {0, DefSize}, HeapCreate(initial, max)
      PROVE  granted' = granted
  BY <1>2 DEF HeapCreate
<1>3. ASSUME NEW n \in Request, HeapAlloc(n)
      PROVE  Pool!Next \/ granted' = granted
  <2> DEFINE size == Asked(n)
             f == FindFreeBlock(heap, size)
             k == Take(f.heap, f.sub, f.block, size)
             q == f.block + ARENA_INUSE
  <2>1. size \in Nat /\ HEAP_MIN_BLOCK_SIZE <= size
    BY Sizes, AskedSize
  <2>2. Found(heap, size) /\ (granted' = granted \/ (granted' = With(granted, q, size) /\ failed' = failed))
    BY <1>3 DEF HeapAlloc, Fault
  <2> HIDE DEF size
  <2>3. Got(heap, k, f.block, size)
    BY <1>1, <2>1, <2>2, TakeGot
  <2>4. q \notin DOMAIN granted
    BY <1>1, <2>1, <2>3, GotCovered
  <2>5. CASE granted' = With(granted, q, size) /\ failed' = failed
    <3>1. Standing(heap', granted', failed)
      BY <1>1, <2>5
    <3> HIDE DEF q
    <3> QED
      BY <2>4, <2>5, <3>1, PoolAlloc
  <2> QED
    BY <2>2, <2>5
<1>4. ASSUME NEW n \in Request, CommitFails(n)
      PROVE  granted' = granted
  BY <1>4 DEF CommitFails
<1>5. ASSUME NEW p \in DOMAIN granted, HeapFree(p)
      PROVE  Pool!Next
  BY <1>5 DEF HeapFree, Without, Pool!Next, Pool!Free, Restrict, Pool!Restrict
<1>6. ASSUME NEW p \in DOMAIN granted, NEW n \in Request, HeapReAlloc(p, n)
      PROVE  Pool!Next \/ granted' = granted
  <2> DEFINE a == p - ARENA_INUSE
             s == FindSubHeap(heap, a)
             size == Asked(n)
  <2>1. a \in InUse(heap) /\ p = a + ARENA_INUSE
    BY <1>1, HeldBlock
  <2>2. size \in Nat /\ HEAP_MIN_BLOCK_SIZE <= size
    BY Sizes, AskedSize
  <2>3. CASE granted' = [granted EXCEPT ![p] = size]
    <3> HIDE DEF size
    <3> QED
      BY <1>1, <2>3, PoolResize
  <2>4. CASE Move(p, size) /\ granted' # granted
    <3> DEFINE f == FindFreeBlock(heap, size)
               q == f.block + ARENA_INUSE
               k == Take(f.heap, f.sub, f.block, size)
    <3>1. /\ Found(heap, size) /\ ~Bare(k)
          /\ granted' = With(Without(granted, p), q, size)
      BY <2>4 DEF Move, Fault
    <3> HIDE DEF a, size
    <3>2. Got(heap, k, f.block, size)
      BY <1>1, <2>2, <3>1, TakeGot
    <3>3. Whole(k)
      BY <3>2 DEF Got
    <3>4. FreeCommitted(k)
      <4> HIDE DEF k
      <4> QED
        BY <3>1, <3>3, BareFree
    <3>5. Standing(k, With(granted, q, size), failed)
      BY <1>1, <2>2, <3>1, <3>4, AllocatedStanding
    <3>6. q \notin DOMAIN granted
      BY <1>1, <2>2, <3>2, GotCovered
    <3> HIDE DEF q, k
    <3> QED
      BY <3>1, <3>5, <3>6, PoolMove
  <2>5. CASE Shrink(p, size)
    BY <2>3, <2>5 DEF Shrink, Fault
  <2>6. CASE Grow(p, size)
    BY <2>3, <2>6 DEF Grow
  <2> QED
    BY <1>6, <2>4, <2>5, <2>6 DEF HeapReAlloc
<1>7. CASE UNCHANGED vars
  BY <1>7 DEF vars
<1> QED
  BY <1>2, <1>3, <1>4, <1>5, <1>6, <1>7 DEF Next

----------------------------------------------------------------------------
(* Theorems *)

\* The blocks fill every sub-heap from its header to its end, and HeapValidate finds
\* nothing wrong with any of them, after whatever calls in whatever order.
THEOREM AlwaysValid == Spec => []HeapValid
<1> USE SizeAssumption
<1>1. HeapInv => HeapValid
  BY ValidHolds
<1> QED
  BY <1>1, AlwaysHeapInv, PTL

\* A free block is in the list in which an allocation looks for it, once, and no two
\* free blocks lie side by side.
THEOREM NothingLost == Spec => []ListsComplete
<1> USE SizeAssumption
<1>1. HeapInv => ListsComplete
  BY ListsHold
<1> QED
  BY <1>1, AlwaysHeapInv, PTL

\* The blocks in use are those the program holds, each as large as what it asked for.
THEOREM HeldIsInUse == Spec => []InUseIsHeld
<1> USE SizeAssumption
<1>1. HeapInv => InUseIsHeld
  BY InUseHeld
<1> QED
  BY <1>1, AlwaysHeapInv, PTL

\* The arenas and what the program holds are in committed memory, however the free blocks
\* behind them are decommitted: a block whose growing failed up to the size it had then,
\* any other up to the size it got.  A call touches other memory only if there is such a
\* block, or if it makes a new sub-heap that is too short.
THEOREM HeldIsCommitted == Spec => []Committed
<1> USE SizeAssumption
<1>1. ASSUME HeapInv PROVE Committed
  <2>1. Standing(heap, granted, failed)
    BY <1>1 DEF HeapInv
  <2>2. ~Bare(heap)
    BY <2>1, NotBare
  <2>3. ASSUME NEW p \in DOMAIN granted
        PROVE  p + Sure(granted, failed, p) <= CommittedTo(heap, p - ARENA_INUSE)
    <3> DEFINE a == p - ARENA_INUSE
    <3>1. a \in InUse(heap) /\ p = a + ARENA_INUSE
      BY <2>1, HeldBlock
    <3> HIDE DEF a
    <3>2. HoldsAt(heap, a, granted, failed)
      BY <2>1, <3>1 DEF Standing, Covered
    <3> QED
      BY <3>1, <3>2 DEF HoldsAt, Holds, a
  <2>4. faulted => failed # <<>> \/ \E n \in Request : ShortCommit(Asked(n))
    <3>1. DOMAIN failed # {} => failed # <<>>
      BY EmptyPlaced
    <3> QED
      BY <1>1, <3>1 DEF HeapInv, Excused
  <2> QED
    BY <2>2, <2>3, <2>4 DEF Committed, Sure
<1> QED
  BY <1>1, AlwaysHeapInv, PTL

\* To the program a heap is a pool of memory: what a call hands out or moves to, no one
\* else holds.
THEOREM HeapIsAPool == Spec => ImplementsPool
<1> USE SizeAssumption
<1>1. Init => Pool!Init
  BY DEF Init, Pool!Init
<1>2. HeapInv /\ HeapInv' /\ [Next]_vars => [Pool!Next]_granted
  BY PoolStep
<1> QED
  BY <1>1, <1>2, AlwaysHeapInv, PTL DEF Spec, ImplementsPool, Pool!Spec
=============================================================================
