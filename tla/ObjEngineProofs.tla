-------------------------- MODULE ObjEngineProofs ---------------------------
(***************************************************************************)
(* The inductive invariant of the handle table and the theorems that       *)
(* follow from it, for tables and blocks of every size.                    *)
(***************************************************************************)
EXTENDS ObjEngine, TLAPS

\* The shape of the free pool p when b says which tags are in use: the same
\* statement as IsFreeChain, for a pool that is not (yet) the state's.
ChainFor(p, b, chain) ==
    /\ \A i, j \in 1 .. p.size : chain[i] = chain[j] => i = j
    /\ \A i \in 1 .. p.size : chain[i] < p.allocated /\ ~b[chain[i]]
    /\ \A t \in Tag : t < p.allocated /\ ~b[t] => \E i \in 1 .. p.size : chain[i] = t
    /\ \A i \in 1 .. p.size - 1 : p.info[chain[i]] = chain[i + 1]
    /\ p.size = 0 => p.head = Null /\ p.tail = Null
    /\ p.size # 0 => /\ p.head = chain[1]
                     /\ p.tail = chain[p.size]
                     /\ p.info[p.tail] = Null

PoolOK(p, b) == \E chain \in [1 .. p.size -> Tag] : ChainFor(p, b, chain)

PoolType ==
    [allocated : 0 .. MaxTags, head : Tag \cup {Null}, tail : Tag \cup {Null},
     size : Nat, info : [Tag -> Tag \cup {Null, Object}]]

\* Owners own what exists: with the invariants of the component, this is inductive.
OwnedLive == \A t \in Tag : owned[t] => busy[t]

IInv == TypeOK /\ FreeChain /\ ReferencesCounted /\ NoZombie /\ MarkedWhenFreed /\ OwnedLive

----------------------------------------------------------------------------
\* Handles

\* A handle leads back to the tag it was made from.
LEMMA HandleRoundTrip == \A t \in Tag : TagOf(Handle(t)) = t
<1> SUFFICES ASSUME NEW t \in Tag PROVE TagOf(Handle(t)) = t
  OBVIOUS
<1>1. t \in Nat /\ 2 * t < OM_MASK
  BY TableAssumption DEF Tag, OM_MASK
<1>2. HasMask(Handle(t))
  BY <1>1 DEF HasMask, Handle, OM_MASK
<1>3. QED
  BY <1>1, <1>2 DEF TagOf, Handle, OM_MASK

----------------------------------------------------------------------------
\* The free pool

\* The state's pool has the shape of FreeChain.
LEMMA PoolOfState == FreeChain <=> PoolOK(Pool, busy)
BY DEF FreeChain, IsFreeChain, PoolOK, ChainFor, Pool

LEMMA PoolTyped == TypeOK => Pool \in PoolType
BY DEF TypeOK, Pool, PoolType

\* A new block keeps the pool's shape: it is chained as its own tags, in order.
LEMMA AllocateKeepsPool ==
  ASSUME TypeOK, FreeChain, ReferencesCounted,
         FreePoolSize = 0, allocated + BlockSize <= MaxTags
  PROVE  /\ PoolOK(AllocateMoreObjects, busy)
         /\ AllocateMoreObjects \in PoolType
<1> DEFINE p == AllocateMoreObjects
           last == allocated + BlockSize - 1
           chain == [i \in 1 .. BlockSize |-> allocated + i - 1]
<1>1. /\ FreeHead = Null
      /\ FreeTail = Null
      /\ \A t \in Tag : t < allocated => busy[t]
  BY DEF FreeChain, IsFreeChain, TypeOK
<1>2. /\ BlockSize \in Nat \ {0}
      /\ MaxTags \in Nat
      /\ allocated \in Nat
      /\ last \in Tag
      /\ allocated \in Tag
  BY TableAssumption DEF TypeOK, Tag
<1>3. /\ p.allocated = allocated + BlockSize
      /\ p.head = allocated
      /\ p.tail = last
      /\ p.size = BlockSize
      /\ p.info = [t \in Tag |-> IF t = last THEN Null
                                 ELSE IF t \in allocated .. last THEN t + 1
                                 ELSE info[t]]
  BY <1>1 DEF AllocateMoreObjects
<1>4. p \in PoolType
  <2>1. \A t \in Tag : p.info[t] \in Tag \cup {Null, Object}
    BY <1>2, <1>3 DEF TypeOK, Tag
  <2>2. p.info \in [Tag -> Tag \cup {Null, Object}]
    BY <2>1, <1>3
  <2>3. QED
    BY <2>2, <1>2, <1>3 DEF PoolType, AllocateMoreObjects
<1>5. chain \in [1 .. p.size -> Tag]
  BY <1>2, <1>3 DEF Tag
<1>6. ChainFor(p, busy, chain)
  <2>1. \A i, j \in 1 .. p.size : chain[i] = chain[j] => i = j
    BY <1>2, <1>3
  <2>2. \A i \in 1 .. p.size : chain[i] < p.allocated /\ ~busy[chain[i]]
    <3> SUFFICES ASSUME NEW i \in 1 .. p.size
                 PROVE  chain[i] < p.allocated /\ ~busy[chain[i]]
      OBVIOUS
    <3>1. chain[i] = allocated + i - 1 /\ chain[i] \in Tag
      BY <1>2, <1>3, <1>5
    <3>2. QED
      BY <3>1, <1>2, <1>3 DEF ReferencesCounted
  <2>3. \A t \in Tag : t < p.allocated /\ ~busy[t] => \E i \in 1 .. p.size : chain[i] = t
    <3> SUFFICES ASSUME NEW t \in Tag, t < p.allocated, ~busy[t]
                 PROVE  \E i \in 1 .. p.size : chain[i] = t
      OBVIOUS
    <3>1. t \in Nat /\ ~(t < allocated)
      BY <1>1, <1>2 DEF Tag
    <3>2. /\ t - allocated + 1 \in 1 .. p.size
          /\ chain[t - allocated + 1] = t
      BY <3>1, <1>2, <1>3
    <3>3. QED
      BY <3>2
  <2>4. \A i \in 1 .. p.size - 1 : p.info[chain[i]] = chain[i + 1]
    <3> SUFFICES ASSUME NEW i \in 1 .. p.size - 1
                 PROVE  p.info[chain[i]] = chain[i + 1]
      OBVIOUS
    <3>1. i \in 1 .. BlockSize /\ i + 1 \in 1 .. BlockSize /\ i \in Nat
      BY <1>2, <1>3
    <3>2. /\ chain[i] = allocated + i - 1
          /\ chain[i + 1] = allocated + i
      BY <3>1, <1>2
    <3>3. chain[i] \in Tag
      BY <3>1, <1>3, <1>5
    <3>4. QED
      BY <3>1, <3>2, <3>3, <1>2, <1>3
  <2>5. /\ p.size # 0
        /\ p.head = chain[1]
        /\ p.tail = chain[p.size]
        /\ p.info[p.tail] = Null
    BY <1>2, <1>3
  <2>6. QED
    BY <2>1, <2>2, <2>3, <2>4, <2>5 DEF ChainFor
<1>7. QED
  BY <1>4, <1>5, <1>6 DEF PoolOK

\* Taking the first tag, which becomes used, keeps the shape of the pool.
LEMMA TakeKeepsPool ==
  ASSUME NEW p \in PoolType, NEW b \in [Tag -> BOOLEAN], PoolOK(p, b), p.head # Null
  PROVE  /\ PoolOK(TakeHead(p), [b EXCEPT ![p.head] = TRUE])
         /\ TakeHead(p) \in PoolType
         /\ p.head \in Tag /\ p.head < p.allocated /\ ~b[p.head]
         /\ TakeHead(p).allocated = p.allocated
         /\ TakeHead(p).info[p.head] = Object
         /\ \A t \in Tag : b[t] /\ p.info[t] = Object => TakeHead(p).info[t] = Object
<1> DEFINE q == TakeHead(p)
           c == [b EXCEPT ![p.head] = TRUE]
<1>1. PICK chain \in [1 .. p.size -> Tag] : ChainFor(p, b, chain)
  BY DEF PoolOK
<1>2. p.size \in Nat /\ p.size # 0 /\ p.head = chain[1] /\ 1 \in 1 .. p.size
  BY <1>1 DEF ChainFor, PoolType
<1>3. p.head \in Tag /\ p.head < p.allocated /\ ~b[p.head]
  BY <1>1, <1>2 DEF ChainFor
<1>4. p.info[p.head] = IF p.size = 1 THEN Null ELSE chain[2]
  BY <1>1, <1>2 DEF ChainFor
<1>5. (p.info[p.head] = Null) <=> (p.size = 1)
  BY <1>1, <1>2, <1>4 DEF Tag, Null
<1>6. /\ q.allocated = p.allocated
      /\ q.head = p.info[p.head]
      /\ q.tail = IF p.size = 1 THEN Null ELSE p.tail
      /\ q.size = p.size - 1
      /\ q.info = [p.info EXCEPT ![p.head] = Object]
  BY <1>2, <1>5 DEF TakeHead, PoolType
<1>7. q \in PoolType
  <2>1. /\ q.allocated \in 0 .. MaxTags
        /\ q.head \in Tag \cup {Null}
        /\ q.tail \in Tag \cup {Null}
        /\ q.size \in Nat
    <3>1. p.size \in Nat /\ p.size - 1 \in Nat
      BY <1>2
    <3>2. p.size # 1 => 2 \in 1 .. p.size /\ chain[2] \in Tag
      BY <1>1, <1>2
    <3>3. QED
      BY <3>1, <3>2, <1>4, <1>6 DEF PoolType
  <2>2. q.info \in [Tag -> Tag \cup {Null, Object}]
    BY <1>3, <1>6 DEF PoolType
  <2>3. q = [allocated |-> q.allocated, head |-> q.head, tail |-> q.tail,
             size |-> q.size, info |-> q.info]
    <3> DEFINE next == p.info[p.head]
    <3>1. q = [p EXCEPT !.head = next,
                        !.tail = IF next = Null THEN Null ELSE p.tail,
                        !.size = IF next = Null THEN 0 ELSE p.size - 1,
                        !.info = [p.info EXCEPT ![p.head] = Object]]
      BY DEF TakeHead
    <3> HIDE DEF q, next
    <3>2. QED
      BY <3>1 DEF PoolType
  <2>4. QED
    BY <2>1, <2>2, <2>3 DEF PoolType
<1> HIDE DEF q
<1>8. PoolOK(q, c)
  <2> DEFINE rest == [i \in 1 .. q.size |-> chain[i + 1]]
  <2>1. /\ q.size \in Nat
        /\ \A i \in 1 .. q.size : i + 1 \in 1 .. p.size /\ i + 1 # 1
    BY <1>2, <1>6
  <2>2. rest \in [1 .. q.size -> Tag]
    BY <2>1, <1>1
  <2>3. \A i \in 1 .. q.size : rest[i] = chain[i + 1] /\ rest[i] # p.head
    BY <2>1, <1>1, <1>2 DEF ChainFor
  <2>4. ChainFor(q, c, rest)
    <3>1. \A i, j \in 1 .. q.size : rest[i] = rest[j] => i = j
      <4> SUFFICES ASSUME NEW i \in 1 .. q.size, NEW j \in 1 .. q.size, rest[i] = rest[j]
                   PROVE  i = j
        OBVIOUS
      <4>1. i + 1 = j + 1
        BY <2>1, <2>3, <1>1 DEF ChainFor
      <4>2. QED
        BY <4>1, <2>1
    <3>2. \A i \in 1 .. q.size : rest[i] < q.allocated /\ ~c[rest[i]]
      BY <2>1, <2>2, <2>3, <1>1, <1>6 DEF ChainFor
    <3>3. \A t \in Tag : t < q.allocated /\ ~c[t] => \E i \in 1 .. q.size : rest[i] = t
      <4> SUFFICES ASSUME NEW t \in Tag, t < q.allocated, ~c[t]
                   PROVE  \E i \in 1 .. q.size : rest[i] = t
        OBVIOUS
      <4>1. t # p.head /\ ~b[t] /\ t < p.allocated
        BY <1>3, <1>6
      <4>2. PICK i \in 1 .. p.size : chain[i] = t
        BY <4>1, <1>1 DEF ChainFor
      <4>3. i - 1 \in 1 .. q.size /\ rest[i - 1] = t
        BY <4>1, <4>2, <1>2, <1>6
      <4>4. QED
        BY <4>3
    <3>4. \A i \in 1 .. q.size - 1 : q.info[rest[i]] = rest[i + 1]
      <4> SUFFICES ASSUME NEW i \in 1 .. q.size - 1
                   PROVE  q.info[rest[i]] = rest[i + 1]
        OBVIOUS
      <4>1. /\ i \in 1 .. q.size /\ i + 1 \in 1 .. q.size
            /\ i + 1 \in 1 .. p.size - 1
        BY <2>1, <1>6
      <4>2. /\ rest[i] = chain[i + 1] /\ rest[i] # p.head /\ rest[i] \in Tag
            /\ rest[i + 1] = chain[(i + 1) + 1]
        BY <4>1, <2>2, <2>3
      <4>3. p.info[chain[i + 1]] = chain[(i + 1) + 1]
        BY <4>1, <1>1 DEF ChainFor
      <4>4. QED
        BY <4>2, <4>3, <1>3, <1>6 DEF PoolType
    <3>5. q.size = 0 => q.head = Null /\ q.tail = Null
      BY <1>2, <1>5, <1>6
    <3>6. ASSUME q.size # 0
          PROVE  q.head = rest[1] /\ q.tail = rest[q.size] /\ q.info[q.tail] = Null
      <4>1. /\ 1 \in 1 .. q.size /\ q.size \in 1 .. q.size
            /\ p.size # 1 /\ q.size + 1 = p.size
        BY <3>6, <2>1, <1>2, <1>6
      <4>2. /\ q.head = chain[2] /\ rest[1] = chain[2]
            /\ q.tail = p.tail /\ rest[q.size] = chain[p.size]
        BY <4>1, <1>4, <1>6, <2>3
      <4>3. p.tail = chain[p.size] /\ p.info[p.tail] = Null
        BY <1>1, <1>2 DEF ChainFor
      <4>4. q.tail # p.head /\ q.tail \in Tag
        BY <4>1, <4>2, <4>3, <2>2, <2>3
      <4>5. QED
        BY <4>2, <4>3, <4>4, <1>3, <1>6 DEF PoolType
    <3>7. QED
      BY <3>1, <3>2, <3>3, <3>4, <3>5, <3>6 DEF ChainFor
  <2>5. QED
    BY <2>2, <2>4 DEF PoolOK
<1>9. QED
  BY <1>3, <1>6, <1>7, <1>8 DEF q, PoolType

\* Returning a used tag to the end keeps the shape of the pool.
LEMMA ReturnKeepsPool ==
  ASSUME NEW p \in PoolType, NEW b \in [Tag -> BOOLEAN], PoolOK(p, b),
         NEW t \in Tag, t < p.allocated, b[t]
  PROVE  /\ PoolOK(ReturnTag(p, t), [b EXCEPT ![t] = FALSE])
         /\ ReturnTag(p, t) \in PoolType
         /\ ReturnTag(p, t).allocated = p.allocated
         /\ \A u \in Tag : b[u] /\ u # t => ReturnTag(p, t).info[u] = p.info[u]
<1> DEFINE q == ReturnTag(p, t)
           c == [b EXCEPT ![t] = FALSE]
<1>1. PICK chain \in [1 .. p.size -> Tag] : ChainFor(p, b, chain)
  BY DEF PoolOK
<1>2. /\ p.size \in Nat
      /\ \A i \in 1 .. p.size : chain[i] \in Tag /\ chain[i] # t /\ ~b[chain[i]]
  BY <1>1 DEF ChainFor, PoolType
<1>3. (p.tail = Null) <=> (p.size = 0)
  BY <1>1, <1>2 DEF ChainFor, Tag, Null
<1>4. p.size # 0 => p.tail \in Tag /\ p.tail # t /\ ~b[p.tail]
  BY <1>1, <1>2 DEF ChainFor
<1>5. /\ q.allocated = p.allocated
      /\ q.size = p.size + 1
      /\ q.tail = t
      /\ q.head = IF p.size = 0 THEN t ELSE p.head
      /\ q.info[t] = Null
      /\ p.size # 0 => q.info[p.tail] = t
      /\ \A u \in Tag : u # t /\ u # p.tail => q.info[u] = p.info[u]
  BY <1>2, <1>3, <1>4 DEF ReturnTag, PoolType
<1>6. q \in PoolType
  <2>1. /\ q.allocated \in 0 .. MaxTags
        /\ q.head \in Tag \cup {Null}
        /\ q.tail \in Tag \cup {Null}
        /\ q.size \in Nat
    BY <1>2, <1>5 DEF PoolType
  <2>2. q.info \in [Tag -> Tag \cup {Null, Object}]
    BY <1>3, <1>4 DEF ReturnTag, PoolType
  <2>3. q = [allocated |-> q.allocated, head |-> q.head, tail |-> q.tail,
             size |-> q.size, info |-> q.info]
    BY DEF ReturnTag, PoolType
  <2>4. QED
    BY <2>1, <2>2, <2>3 DEF PoolType
<1> HIDE DEF q
<1>7. PoolOK(q, c)
  <2> DEFINE more == [i \in 1 .. q.size |-> IF i = q.size THEN t ELSE chain[i]]
  <2>1. /\ q.size \in Nat /\ q.size # 0 /\ q.size \in 1 .. q.size
        /\ \A i \in 1 .. q.size : i # q.size => i \in 1 .. p.size
        /\ \A i \in 1 .. p.size : i \in 1 .. q.size /\ i # q.size
    BY <1>2, <1>5
  <2>2. more \in [1 .. q.size -> Tag]
    BY <2>1, <1>2
  <2>3. /\ more[q.size] = t
        /\ \A i \in 1 .. p.size : more[i] = chain[i]
    BY <2>1
  <2>4. ChainFor(q, c, more)
    <3>1. \A i, j \in 1 .. q.size : more[i] = more[j] => i = j
      BY <2>1, <2>3, <1>1, <1>2 DEF ChainFor
    <3>2. \A i \in 1 .. q.size : more[i] < q.allocated /\ ~c[more[i]]
      BY <2>1, <2>3, <1>1, <1>2, <1>5 DEF ChainFor
    <3>3. \A u \in Tag : u < q.allocated /\ ~c[u] => \E i \in 1 .. q.size : more[i] = u
      <4> SUFFICES ASSUME NEW u \in Tag, u < q.allocated, ~c[u], u # t
                   PROVE  \E i \in 1 .. q.size : more[i] = u
        BY <2>1, <2>3
      <4>1. \E i \in 1 .. p.size : chain[i] = u
        BY <1>1, <1>5 DEF ChainFor
      <4>2. QED
        BY <4>1, <2>1, <2>3
    <3>4. \A i \in 1 .. q.size - 1 : q.info[more[i]] = more[i + 1]
      <4> SUFFICES ASSUME NEW i \in 1 .. q.size - 1
                   PROVE  q.info[more[i]] = more[i + 1]
        OBVIOUS
      <4>1. i \in 1 .. p.size /\ more[i] = chain[i] /\ chain[i] \in Tag /\ chain[i] # t
        BY <1>2, <1>5, <2>3
      <4>2. CASE i = p.size
        <5>1. p.size # 0 /\ chain[i] = p.tail /\ i + 1 = q.size
          BY <4>1, <4>2, <1>1, <1>2, <1>5 DEF ChainFor
        <5>2. QED
          BY <5>1, <4>1, <2>3, <1>5
      <4>3. CASE i # p.size
        <5>1. i \in 1 .. p.size - 1 /\ i + 1 \in 1 .. p.size /\ p.size \in 1 .. p.size
          BY <4>1, <4>3, <1>2
        <5>2. chain[i] # p.tail
          BY <5>1, <4>1, <4>3, <1>1 DEF ChainFor
        <5>3. QED
          BY <5>1, <5>2, <4>1, <2>3, <1>1, <1>5 DEF ChainFor
      <4>4. QED
        BY <4>2, <4>3
    <3>5. q.head = more[1] /\ q.tail = more[q.size] /\ q.info[q.tail] = Null
      <4>1. CASE p.size = 0
        BY <4>1, <1>5, <2>3
      <4>2. CASE p.size # 0
        <5>1. 1 \in 1 .. p.size
          BY <4>2, <1>2
        <5>2. QED
          BY <5>1, <4>2, <1>1, <1>5, <2>3 DEF ChainFor
      <4>3. QED
        BY <4>1, <4>2
    <3>6. QED
      BY <3>1, <3>2, <3>3, <3>4, <3>5, <2>1 DEF ChainFor
  <2>5. QED
    BY <2>2, <2>4 DEF PoolOK
<1>8. \A u \in Tag : b[u] /\ u # t => q.info[u] = p.info[u]
  BY <1>3, <1>4, <1>5 DEF Tag, Null
<1>9. QED
  BY <1>5, <1>6, <1>7, <1>8 DEF q

\* The pool HM_GETHND takes from is sound, and used tags have not moved in it.
LEMMA PoolForGetOK ==
  ASSUME TypeOK, FreeChain, ReferencesCounted
  PROVE  /\ PoolForGet \in PoolType
         /\ PoolOK(PoolForGet, busy)
         /\ \A t \in Tag : busy[t] => t < PoolForGet.allocated /\ PoolForGet.info[t] = Object
<1>1. CASE FreePoolSize = 0 /\ allocated + BlockSize <= MaxTags
  <2>1. \A t \in Tag : busy[t] => t < AllocateMoreObjects.allocated
                                  /\ AllocateMoreObjects.info[t] = Object
    BY <1>1, TableAssumption DEF AllocateMoreObjects, ReferencesCounted, TypeOK, Tag
  <2>2. QED
    BY <1>1, <2>1, AllocateKeepsPool DEF PoolForGet
<1>2. CASE ~(FreePoolSize = 0 /\ allocated + BlockSize <= MaxTags)
  <2>1. \A t \in Tag : busy[t] => t < Pool.allocated /\ Pool.info[t] = Object
    BY DEF Pool, ReferencesCounted
  <2>2. QED
    BY <1>2, <2>1, PoolOfState, PoolTyped DEF PoolForGet
<1>3. QED
  BY <1>1, <1>2

\* A step that installs a sound pool establishes FreeChain and types the pool.
LEMMA PoolInstalled ==
  ASSUME NEW p \in PoolType, NEW b \in [Tag -> BOOLEAN], PoolOK(p, b),
         SetPool(p), busy' = b
  PROVE  /\ FreeChain'
         /\ allocated' \in 0 .. MaxTags
         /\ FreeHead' \in Tag \cup {Null}
         /\ FreeTail' \in Tag \cup {Null}
         /\ FreePoolSize' \in Nat
         /\ info' \in [Tag -> Tag \cup {Null, Object}]
         /\ busy' \in [Tag -> BOOLEAN]
BY DEF FreeChain, IsFreeChain, PoolOK, ChainFor, SetPool, PoolType

----------------------------------------------------------------------------
\* What HM_FREEHND does to a live object, by the two ways it can end.

LEMMA FreeHndCases ==
  ASSUME TypeOK, FreeChain, ReferencesCounted, NEW t \in Tag, busy[t],
         NEW sig, Matches(sig, wObjSignature[t]), NEW refs \in Nat, FreeHnd(t, sig, refs)
  PROVE  \/ /\ refs # 0
            /\ wFlags' = [wFlags EXCEPT ![t] = @ \cup {OE_DELETE}]
            /\ UNCHANGED <<poolVars, wObjSignature>>
         \/ /\ refs = 0
            /\ busy' = [busy EXCEPT ![t] = FALSE]
            /\ wObjSignature' = [wObjSignature EXCEPT ![t] = NoSignature]
            /\ wFlags' = [wFlags EXCEPT ![t] = {}]
            /\ FreeChain'
            /\ allocated' = allocated
            /\ \A u \in Tag : busy[u] /\ u # t => info'[u] = info[u]
            /\ FreeHead' \in Tag \cup {Null}
            /\ FreeTail' \in Tag \cup {Null}
            /\ FreePoolSize' \in Nat
            /\ info' \in [Tag -> Tag \cup {Null, Object}]
<1>1. info[t] = Object /\ t < allocated
  BY DEF ReferencesCounted
<1>2. CASE refs # 0
  BY <1>1, <1>2 DEF FreeHnd
<1>3. CASE refs = 0
  <2> DEFINE p == ReturnTag(Pool, t)
             b == [busy EXCEPT ![t] = FALSE]
  <2>1. /\ SetPool(p)
        /\ busy' = b
        /\ wObjSignature' = [wObjSignature EXCEPT ![t] = NoSignature]
        /\ wFlags' = [wFlags EXCEPT ![t] = {}]
    BY <1>1, <1>3 DEF FreeHnd
  <2>2. /\ Pool \in PoolType /\ PoolOK(Pool, busy) /\ busy \in [Tag -> BOOLEAN]
        /\ Pool.allocated = allocated /\ Pool.info = info
    BY PoolOfState, PoolTyped DEF Pool, TypeOK
  <2>3. /\ PoolOK(p, b) /\ p \in PoolType /\ p.allocated = allocated
        /\ \A u \in Tag : busy[u] /\ u # t => p.info[u] = info[u]
    BY <1>1, <2>2, ReturnKeepsPool
  <2>4. b \in [Tag -> BOOLEAN]
    BY <2>2
  <2> HIDE DEF p, b
  <2>5. /\ FreeChain'
        /\ FreeHead' \in Tag \cup {Null}
        /\ FreeTail' \in Tag \cup {Null}
        /\ FreePoolSize' \in Nat
        /\ info' \in [Tag -> Tag \cup {Null, Object}]
    BY <2>1, <2>3, <2>4, PoolInstalled
  <2>6. allocated' = p.allocated /\ info' = p.info
    BY <2>1 DEF SetPool
  <2>7. QED
    BY <1>3, <2>1, <2>3, <2>5, <2>6 DEF b
<1>4. QED
  BY <1>2, <1>3

----------------------------------------------------------------------------
\* The inductive invariant

LEMMA InitInvariant == Init => IInv
<1> SUFFICES ASSUME Init PROVE IInv
  OBVIOUS
<1>1. TypeOK
  <2>1. 0 \in 0 .. MaxTags /\ 0 \in 0 .. MaxRefs
    BY TableAssumption, BoundAssumption
  <2>2. QED
    BY <2>1 DEF Init, TypeOK
<1>2. FreeChain
  <2>1. [i \in {} |-> 0] \in [1 .. FreePoolSize -> Tag]
    BY DEF Init
  <2>2. IsFreeChain([i \in {} |-> 0])
    BY DEF Init, IsFreeChain, Tag
  <2>3. QED
    BY <2>1, <2>2 DEF FreeChain
<1>3. ReferencesCounted /\ NoZombie /\ MarkedWhenFreed /\ OwnedLive
  BY DEF Init, ReferencesCounted, NoZombie, MarkedWhenFreed, OwnedLive
<1>4. QED
  BY <1>1, <1>2, <1>3 DEF IInv

\* HM_GETHND
LEMMA CreateInvariant ==
  ASSUME IInv, NEW sig \in Signatures, Create(sig) PROVE IInv'
<1> DEFINE p == PoolForGet
           t == p.head
           b == [busy EXCEPT ![t] = TRUE]
           q == TakeHead(p)
<1>1. TypeOK /\ FreeChain /\ ReferencesCounted /\ NoZombie /\ MarkedWhenFreed /\ OwnedLive
  BY DEF IInv
<1>2. /\ p \in PoolType /\ PoolOK(p, busy) /\ p.head # Null
      /\ \A u \in Tag : busy[u] => u < p.allocated /\ p.info[u] = Object
      /\ busy \in [Tag -> BOOLEAN]
  BY <1>1, PoolForGetOK DEF Create, TypeOK
<1>3. /\ SetPool(q)
      /\ busy' = b
      /\ sig \in KnownSigs
      /\ wObjSignature' = [wObjSignature EXCEPT ![t] = sig]
      /\ wRefCount' = [wRefCount EXCEPT ![t] = 1]
      /\ wFlags' = [wFlags EXCEPT ![t] = {}]
      /\ held' = [held EXCEPT ![t] = 1]
      /\ owned' = [owned EXCEPT ![t] = TRUE]
      /\ stranded' = [stranded EXCEPT ![t] = FALSE]
      /\ UNCHANGED endVars
  BY DEF Create
<1> HIDE DEF p
<1>4. /\ PoolOK(q, b) /\ q \in PoolType
      /\ t \in Tag /\ t < p.allocated /\ ~busy[t]
      /\ q.allocated = p.allocated /\ q.info[t] = Object
      /\ \A u \in Tag : busy[u] => q.info[u] = Object
  BY <1>2, TakeKeepsPool
<1>5. b \in [Tag -> BOOLEAN]
  BY <1>2
<1> HIDE DEF q
<1>6. TypeOK' /\ FreeChain'
  <2>1. /\ FreeChain'
        /\ allocated' \in 0 .. MaxTags
        /\ FreeHead' \in Tag \cup {Null}
        /\ FreeTail' \in Tag \cup {Null}
        /\ FreePoolSize' \in Nat
        /\ info' \in [Tag -> Tag \cup {Null, Object}]
        /\ busy' \in [Tag -> BOOLEAN]
    BY <1>3, <1>4, <1>5, PoolInstalled
  <2>2. 1 \in 0 .. MaxRefs
    BY BoundAssumption
  <2>3. QED
    BY <1>1, <1>3, <1>4, <2>1, <2>2 DEF TypeOK, endVars
<1>7. ReferencesCounted'
  <2>1. allocated' = p.allocated /\ info' = q.info
    BY <1>3, <1>4 DEF SetPool
  <2>2. \A u \in Tag : busy'[u] => u < allocated' /\ info'[u] = Object
    BY <1>2, <1>3, <1>4, <2>1
  <2>3. QED
    BY <1>1, <1>2, <1>3, <1>4, <2>2 DEF ReferencesCounted, TypeOK
<1>8. NoZombie' /\ MarkedWhenFreed' /\ OwnedLive'
  BY <1>1, <1>2, <1>3, <1>4 DEF NoZombie, MarkedWhenFreed, OwnedLive, TypeOK, OE_DELETE
<1>9. QED
  BY <1>6, <1>7, <1>8 DEF IInv

LEMMA CreateRefusedInvariant ==
  ASSUME IInv, NEW sig \in Signatures, CreateRefused(sig) PROVE IInv'
<1>1. TypeOK /\ FreeChain /\ ReferencesCounted /\ NoZombie /\ MarkedWhenFreed /\ OwnedLive
  BY DEF IInv
<1>2. /\ SetPool(PoolForGet)
      /\ UNCHANGED <<busy, headVars, endVars, held, owned, stranded>>
  BY DEF CreateRefused
<1>3. /\ PoolForGet \in PoolType /\ PoolOK(PoolForGet, busy)
      /\ \A t \in Tag : busy[t] => t < PoolForGet.allocated /\ PoolForGet.info[t] = Object
      /\ busy \in [Tag -> BOOLEAN]
  BY <1>1, PoolForGetOK DEF TypeOK
<1>4. /\ FreeChain'
      /\ allocated' \in 0 .. MaxTags
      /\ FreeHead' \in Tag \cup {Null}
      /\ FreeTail' \in Tag \cup {Null}
      /\ FreePoolSize' \in Nat
      /\ info' \in [Tag -> Tag \cup {Null, Object}]
      /\ busy' \in [Tag -> BOOLEAN]
  BY <1>2, <1>3, PoolInstalled
<1>5. TypeOK'
  BY <1>1, <1>2, <1>4 DEF TypeOK, headVars, endVars
<1>6. ReferencesCounted'
  BY <1>1, <1>2, <1>3 DEF ReferencesCounted, SetPool, headVars
<1>7. NoZombie' /\ MarkedWhenFreed' /\ OwnedLive'
  BY <1>1, <1>2 DEF NoZombie, MarkedWhenFreed, OwnedLive, headVars
<1>8. QED
  BY <1>4, <1>5, <1>6, <1>7 DEF IInv

\* HM_GETOBJ, HM_CHECKHND and HM_LOCKHND take one more reference to a used tag.
LEMMA ReferenceInvariant ==
  ASSUME IInv, NEW t \in Tag, busy[t], wRefCount[t] < MaxRefs,
         wRefCount' = [wRefCount EXCEPT ![t] = @ + 1],
         held' = [held EXCEPT ![t] = @ + 1],
         stranded' = [stranded EXCEPT ![t] = FALSE],
         UNCHANGED <<poolVars, wObjSignature, wFlags, endVars, owned>>
  PROVE  IInv'
<1>1. TypeOK /\ FreeChain /\ ReferencesCounted /\ NoZombie /\ MarkedWhenFreed /\ OwnedLive
  BY DEF IInv
<1>2. /\ wRefCount[t] = held[t] /\ wRefCount[t] \in Nat
      /\ wRefCount[t] + 1 \in 0 .. MaxRefs
  <2>1. MaxRefs \in Nat
    BY BoundAssumption
  <2>2. wRefCount[t] = held[t] /\ wRefCount[t] \in 0 .. MaxRefs
    BY <1>1 DEF ReferencesCounted, TypeOK
  <2>3. QED
    BY <2>1, <2>2
<1>3. TypeOK'
  BY <1>1, <1>2 DEF TypeOK, poolVars, endVars
<1>4. FreeChain'
  BY <1>1 DEF FreeChain, IsFreeChain, poolVars
<1>5. ReferencesCounted'
  BY <1>1, <1>2 DEF ReferencesCounted, TypeOK, poolVars
<1>6. NoZombie' /\ MarkedWhenFreed' /\ OwnedLive'
  BY <1>1, <1>2 DEF NoZombie, MarkedWhenFreed, OwnedLive, TypeOK, poolVars
<1>7. QED
  BY <1>3, <1>4, <1>5, <1>6 DEF IInv

\* HM_UNLOCKHND, with the delayed HM_FREEHND it may perform.
LEMMA UnlockInvariant ==
  ASSUME IInv, NEW t \in Tag, NEW sig \in Signatures, UnlockHnd(t, sig)
  PROVE  IInv'
<1> DEFINE refs == wRefCount[t] - 1
<1>1. TypeOK /\ FreeChain /\ ReferencesCounted /\ NoZombie /\ MarkedWhenFreed /\ OwnedLive
  BY DEF IInv
<1>2. /\ busy[t] /\ held[t] > 0 /\ wRefCount[t] = held[t]
      /\ wRefCount[t] \in 0 .. MaxRefs
      /\ wRefCount[t] > 0
      /\ wObjSignature[t] \in KnownSigs
  BY <1>1 DEF UnlockHnd, ReferencesCounted, TypeOK
<1>3. refs \in 0 .. MaxRefs /\ held[t] - 1 = refs
  <2>1. MaxRefs \in Nat
    BY BoundAssumption
  <2>2. QED
    BY <2>1, <1>2
<1>4. /\ stranded' = [stranded EXCEPT ![t] = Strands(t, sig)]
      /\ held' = [held EXCEPT ![t] = @ - 1]
      /\ wRefCount' = [wRefCount EXCEPT ![t] = refs]
      /\ OE_DELETE \in wFlags[t] => FreeHnd(t, sig, refs)
      /\ OE_DELETE \notin wFlags[t] => UNCHANGED <<poolVars, wObjSignature, wFlags>>
      /\ UNCHANGED <<endVars, owned>>
  BY <1>2, HandleRoundTrip DEF UnlockHnd
<1>5. Strands(t, sig) \in BOOLEAN
  BY DEF Strands
<1> HIDE DEF refs
<1>6. CASE /\ UNCHANGED <<poolVars, wObjSignature, wFlags>>
           /\ OE_DELETE \in wFlags[t] => refs # 0 \/ ~Matches(sig, wObjSignature[t])
  <2>1. TypeOK'
    BY <1>1, <1>3, <1>4, <1>5, <1>6 DEF TypeOK, poolVars, endVars
  <2>2. FreeChain'
    BY <1>1, <1>6 DEF FreeChain, IsFreeChain, poolVars
  <2>3. ReferencesCounted'
    BY <1>1, <1>2, <1>3, <1>4, <1>6 DEF ReferencesCounted, TypeOK, poolVars
  <2>4. MarkedWhenFreed' /\ OwnedLive'
    BY <1>1, <1>4, <1>6 DEF MarkedWhenFreed, OwnedLive, poolVars
  <2>5. NoZombie'
    <3>1. ~owned[t] => refs > 0 \/ Strands(t, sig)
      BY <1>1, <1>2, <1>3, <1>6 DEF MarkedWhenFreed, Strands
    <3>2. QED
      BY <3>1, <1>1, <1>3, <1>4, <1>6 DEF NoZombie, TypeOK, poolVars
  <2>6. QED
    BY <2>1, <2>2, <2>3, <2>4, <2>5 DEF IInv
<1>7. CASE OE_DELETE \in wFlags[t] /\ ~Matches(sig, wObjSignature[t])
  <2>1. UNCHANGED <<poolVars, wObjSignature, wFlags>>
    BY <1>1, <1>2, <1>4, <1>7 DEF FreeHnd, ReferencesCounted, Object, Null
  <2>2. QED
    BY <2>1, <1>6, <1>7
<1>8. CASE OE_DELETE \in wFlags[t] /\ Matches(sig, wObjSignature[t])
  <2>1. refs \in Nat /\ FreeHnd(t, sig, refs)
    BY <1>3, <1>4, <1>8
  <2>2. CASE refs # 0
    <3>1. /\ wFlags' = [wFlags EXCEPT ![t] = @ \cup {OE_DELETE}]
          /\ UNCHANGED <<poolVars, wObjSignature>>
      BY <2>1, <2>2, <1>1, <1>2, <1>8, FreeHndCases
    <3>2. wFlags' = wFlags
      BY <3>1, <1>1, <1>8 DEF TypeOK
    <3>3. QED
      BY <3>1, <3>2, <2>2, <1>6
  <2>3. CASE refs = 0
    <3>1. /\ busy' = [busy EXCEPT ![t] = FALSE]
          /\ wObjSignature' = [wObjSignature EXCEPT ![t] = NoSignature]
          /\ wFlags' = [wFlags EXCEPT ![t] = {}]
          /\ FreeChain'
          /\ allocated' = allocated
          /\ \A u \in Tag : busy[u] /\ u # t => info'[u] = info[u]
          /\ FreeHead' \in Tag \cup {Null}
          /\ FreeTail' \in Tag \cup {Null}
          /\ FreePoolSize' \in Nat
          /\ info' \in [Tag -> Tag \cup {Null, Object}]
      BY <2>1, <2>3, <1>1, <1>2, <1>8, FreeHndCases
    <3>2. TypeOK'
      BY <3>1, <1>1, <1>3, <1>4, <1>5 DEF TypeOK, endVars
    <3>3. ReferencesCounted'
      BY <3>1, <2>3, <1>1, <1>2, <1>3, <1>4 DEF ReferencesCounted, TypeOK
    <3>4. ~owned[t]
      BY <1>1, <1>2, <1>8 DEF MarkedWhenFreed
    <3>5. NoZombie' /\ MarkedWhenFreed' /\ OwnedLive'
      BY <3>1, <3>4, <1>1, <1>4 DEF NoZombie, MarkedWhenFreed, OwnedLive, TypeOK
    <3>6. QED
      BY <3>1, <3>2, <3>3, <3>5 DEF IInv
  <2>4. QED
    BY <2>2, <2>3
<1>9. QED
  BY <1>4, <1>6, <1>7, <1>8

\* HM_FREEHND by the owner.
LEMMA FreeInvariant ==
  ASSUME IInv, NEW t \in Tag, NEW sig \in Signatures, Free(t, sig) PROVE IInv'
<1> DEFINE refs == wRefCount[t]
<1>1. TypeOK /\ FreeChain /\ ReferencesCounted /\ NoZombie /\ MarkedWhenFreed /\ OwnedLive
  BY DEF IInv
<1>2. /\ owned[t] /\ busy[t]
      /\ refs \in Nat /\ refs = held[t]
      /\ Matches(sig, wObjSignature[t])
      /\ owned' = [owned EXCEPT ![t] = FALSE]
      /\ FreeHnd(t, sig, refs)
      /\ UNCHANGED <<wRefCount, endVars, held, stranded>>
  BY <1>1, HandleRoundTrip DEF Free, OwnedLive, ReferencesCounted, TypeOK
<1>3. CASE refs # 0
  <2>1. /\ wFlags' = [wFlags EXCEPT ![t] = @ \cup {OE_DELETE}]
        /\ UNCHANGED <<poolVars, wObjSignature>>
    BY <1>1, <1>2, <1>3, FreeHndCases
  <2>2. TypeOK'
    BY <2>1, <1>1, <1>2 DEF TypeOK, poolVars, endVars
  <2>3. FreeChain'
    BY <2>1, <1>1 DEF FreeChain, IsFreeChain, poolVars
  <2>4. ReferencesCounted'
    BY <2>1, <1>1, <1>2 DEF ReferencesCounted, poolVars
  <2>5. NoZombie' /\ OwnedLive'
    BY <2>1, <1>1, <1>2, <1>3 DEF NoZombie, OwnedLive, TypeOK, poolVars
  <2>6. MarkedWhenFreed'
    BY <2>1, <1>1, <1>2 DEF MarkedWhenFreed, TypeOK, poolVars
  <2>7. QED
    BY <2>2, <2>3, <2>4, <2>5, <2>6 DEF IInv
<1>4. CASE refs = 0
  <2>1. /\ busy' = [busy EXCEPT ![t] = FALSE]
        /\ wObjSignature' = [wObjSignature EXCEPT ![t] = NoSignature]
        /\ wFlags' = [wFlags EXCEPT ![t] = {}]
        /\ FreeChain'
        /\ allocated' = allocated
        /\ \A u \in Tag : busy[u] /\ u # t => info'[u] = info[u]
        /\ FreeHead' \in Tag \cup {Null}
        /\ FreeTail' \in Tag \cup {Null}
        /\ FreePoolSize' \in Nat
        /\ info' \in [Tag -> Tag \cup {Null, Object}]
    BY <1>1, <1>2, <1>4, FreeHndCases
  <2>2. TypeOK'
    BY <2>1, <1>1, <1>2 DEF TypeOK, endVars
  <2>3. ReferencesCounted'
    BY <2>1, <1>1, <1>2, <1>4 DEF ReferencesCounted, TypeOK
  <2>4. NoZombie' /\ MarkedWhenFreed' /\ OwnedLive'
    BY <2>1, <1>1, <1>2 DEF NoZombie, MarkedWhenFreed, OwnedLive, TypeOK
  <2>5. QED
    BY <2>1, <2>2, <2>3, <2>4 DEF IInv
<1>5. QED
  BY <1>3, <1>4

LEMMA SetFlagsInvariant ==
  ASSUME IInv, NEW t \in Tag, NEW clear \in BOOLEAN, SetFlags(t, clear) PROVE IInv'
<1>1. TypeOK /\ FreeChain /\ ReferencesCounted /\ NoZombie /\ MarkedWhenFreed /\ OwnedLive
  BY DEF IInv
<1>2. /\ owned[t]
      /\ wFlags' = [wFlags EXCEPT ![t] = IF clear THEN {} ELSE @ \cup {OE_SYSTEM}]
      /\ UNCHANGED <<poolVars, wObjSignature, wRefCount, endVars, held, owned, stranded>>
  BY HandleRoundTrip DEF SetFlags
<1>3. TypeOK'
  BY <1>1, <1>2 DEF TypeOK, poolVars, endVars
<1>4. FreeChain'
  BY <1>1, <1>2 DEF FreeChain, IsFreeChain, poolVars
<1>5. ReferencesCounted' /\ NoZombie' /\ OwnedLive'
  BY <1>1, <1>2 DEF ReferencesCounted, NoZombie, OwnedLive, poolVars
<1>6. MarkedWhenFreed'
  BY <1>1, <1>2 DEF MarkedWhenFreed, TypeOK, poolVars, OE_SYSTEM, OE_DELETE
<1>7. QED
  BY <1>3, <1>4, <1>5, <1>6 DEF IInv

\* A tag number read from a handle is a natural number.
LEMMA TagOfWord == \A h \in HandleWords : TagOf(h) \in Nat
<1> SUFFICES ASSUME NEW h \in HandleWords PROVE TagOf(h) \in Nat
  OBVIOUS
<1>1. h \in Nat /\ h <= 65535
  BY HandleAssumption
<1>2. HasMask(h) => h >= OM_MASK
  BY <1>1 DEF HasMask, OM_MASK
<1>3. QED
  BY <1>1, <1>2 DEF TagOf, OM_MASK

LEMMA NextInvariant ==
  ASSUME IInv, [Next]_vars PROVE IInv'
<1>1. TypeOK /\ FreeChain /\ ReferencesCounted /\ NoZombie /\ MarkedWhenFreed /\ OwnedLive
  BY DEF IInv
<1>2. ASSUME NEW h \in HandleWords, TagOf(h) < allocated PROVE TagOf(h) \in Tag
  BY <1>1, <1>2, TagOfWord, TableAssumption DEF TypeOK, Tag
<1>3. ASSUME NEW sig \in Signatures, Create(sig) \/ CreateRefused(sig) PROVE IInv'
  BY <1>3, CreateInvariant, CreateRefusedInvariant
<1>4. CASE TableOverflow \/ TableOverrun
  <2>1. UNCHANGED <<poolVars, headVars, held, owned, stranded>>
    BY <1>4 DEF TableOverflow, TableOverrun
  <2>2. overflowed' \in BOOLEAN /\ exited' \in BOOLEAN
    BY <1>1, <1>4 DEF TableOverflow, TableOverrun, TypeOK
  <2>3. TypeOK'
    BY <1>1, <2>1, <2>2 DEF TypeOK, poolVars, headVars
  <2>4. FreeChain'
    BY <1>1, <2>1 DEF FreeChain, IsFreeChain, poolVars
  <2>5. ReferencesCounted' /\ NoZombie' /\ MarkedWhenFreed' /\ OwnedLive'
    BY <1>1, <2>1 DEF ReferencesCounted, NoZombie, MarkedWhenFreed, OwnedLive,
                      poolVars, headVars
  <2>6. QED
    BY <2>3, <2>4, <2>5 DEF IInv
<1>5. ASSUME NEW h \in HandleWords, NEW sig \in Signatures, GetObj(h, sig) PROVE IInv'
  <2>1. TagOf(h) \in Tag
    BY <1>2, <1>5 DEF GetObj, Resolves
  <2>2. QED
    BY <2>1, <1>5, ReferenceInvariant DEF GetObj, Resolves
<1>6. ASSUME NEW h \in HandleWords, LockHnd(h) PROVE IInv'
  <2>1. TagOf(h) \in Tag
    BY <1>2, <1>6 DEF LockHnd
  <2>2. QED
    BY <2>1, <1>6, ReferenceInvariant DEF LockHnd
<1>7. ASSUME NEW t \in Tag, NEW sig \in Signatures, UnlockHnd(t, sig) \/ Free(t, sig)
      PROVE  IInv'
  BY <1>7, UnlockInvariant, FreeInvariant
<1>8. ASSUME NEW t \in Tag, NEW clear \in BOOLEAN, SetFlags(t, clear) PROVE IInv'
  BY <1>8, SetFlagsInvariant
<1>9. CASE UNCHANGED vars
  <2>1. TypeOK'
    BY <1>1, <1>9 DEF vars, TypeOK, poolVars, headVars, endVars
  <2>2. FreeChain'
    BY <1>1, <1>9 DEF vars, FreeChain, IsFreeChain, poolVars
  <2>3. ReferencesCounted' /\ NoZombie' /\ MarkedWhenFreed' /\ OwnedLive'
    BY <1>1, <1>9 DEF vars, ReferencesCounted, NoZombie, MarkedWhenFreed,
                      OwnedLive, poolVars, headVars
  <2>4. QED
    BY <2>1, <2>2, <2>3 DEF IInv
<1>10. QED
  BY <1>3, <1>4, <1>5, <1>6, <1>7, <1>8, <1>9 DEF Next

----------------------------------------------------------------------------
\* Theorems

\* The table keeps its inductive invariant, whatever signatures its callers name
\* when they release an object: MDI.c:455-479 and 744-772 unlock menus, which are
\* list boxes, as GDI objects (include/ObjEngine.h:150-312).
THEOREM Invariance == Spec => []IInv
<1>1. IInv /\ [Next]_vars => IInv'
  BY NextInvariant
<1>2. QED
  BY <1>1, InitInvariant, PTL DEF Spec

\* Every variable keeps its type, whatever the size of blocks and table.
THEOREM TypeCorrect == Spec => []TypeOK
<1>1. IInv => TypeOK
  BY DEF IInv
<1>2. QED
  BY <1>1, Invariance, PTL

\* Free slots are never lost and never handed out twice.
THEOREM PoolCorrect == Spec => []FreeChain
<1>1. IInv => FreeChain
  BY DEF IInv
<1>2. QED
  BY <1>1, Invariance, PTL

\* A pointer that was not released leads to a live object that counts it.
THEOREM NoDangling == Spec => []ReferencesCounted
<1>1. IInv => ReferencesCounted
  BY DEF IInv
<1>2. QED
  BY <1>1, Invariance, PTL

\* What was freed and is not used any more is gone, or was released last under a
\* signature it does not have.
THEOREM FreedIsGone == Spec => []NoZombie
<1>1. IInv => NoZombie
  BY DEF IInv
<1>2. QED
  BY <1>1, Invariance, PTL

\* The mark for deletion is on exactly the freed objects that are still used.
THEOREM MarkIsExact == Spec => []MarkedWhenFreed
<1>1. IInv => MarkedWhenFreed
  BY DEF IInv
<1>2. QED
  BY <1>1, Invariance, PTL

----------------------------------------------------------------------------
\* The table implements the abstract store.

\* The signature the store sees at a tag.
kindBar == [t \in Tag |-> IF busy[t] THEN wObjSignature[t] ELSE NoSignature]

LEMMA CreateImplements ==
  ASSUME IInv, NEW sig \in Signatures, Create(sig) PROVE Store!Next
<1> DEFINE t == PoolForGet.head
<1>1. TypeOK /\ FreeChain /\ ReferencesCounted
  BY DEF IInv
<1>2. t \in Tag /\ ~busy[t] /\ sig \in KnownSigs
  BY <1>1, PoolForGetOK, TakeKeepsPool DEF Create, TypeOK
<1>3. /\ busy' = [busy EXCEPT ![t] = TRUE]
      /\ wObjSignature' = [wObjSignature EXCEPT ![t] = sig]
      /\ held' = [held EXCEPT ![t] = 1]
      /\ owned' = [owned EXCEPT ![t] = TRUE]
      /\ stranded' = [stranded EXCEPT ![t] = FALSE]
  BY DEF Create
<1> HIDE DEF t
<1>4. kindBar' = [kindBar EXCEPT ![t] = sig]
  BY <1>1, <1>2, <1>3 DEF kindBar, TypeOK
<1>5. kindBar[t] = NoSignature
  BY <1>2 DEF kindBar
<1>6. Store!New(t, sig)
  BY <1>3, <1>4, <1>5 DEF Store!New, kindBar
<1>7. QED
  BY <1>2, <1>6 DEF Store!Next

LEMMA ReferenceImplements ==
  ASSUME IInv, NEW t \in Tag, busy[t],
         held' = [held EXCEPT ![t] = @ + 1],
         stranded' = [stranded EXCEPT ![t] = FALSE],
         UNCHANGED <<busy, wObjSignature, owned>>
  PROVE  Store!Next
<1>1. wObjSignature[t] \in KnownSigs /\ NoSignature \notin KnownSigs
  BY SignatureAssumption DEF IInv, ReferencesCounted
<1>2. kindBar' = kindBar /\ kindBar[t] # NoSignature
  BY <1>1 DEF kindBar
<1>3. Store!Use(t)
  BY <1>2 DEF Store!Use, kindBar
<1>4. QED
  BY <1>3 DEF Store!Next

LEMMA UnlockImplements ==
  ASSUME IInv, NEW t \in Tag, NEW sig \in Signatures, UnlockHnd(t, sig)
  PROVE  Store!Next
<1> DEFINE refs == wRefCount[t] - 1
           fits == Matches(sig, wObjSignature[t])
           last == held[t] = 1 /\ ~owned[t]
<1>1. TypeOK /\ FreeChain /\ ReferencesCounted /\ MarkedWhenFreed
  BY DEF IInv
<1>2. /\ busy[t] /\ held[t] > 0 /\ held[t] \in Nat /\ wRefCount[t] = held[t]
      /\ wObjSignature[t] \in KnownSigs
      /\ info[t] # Null
  BY <1>1 DEF UnlockHnd, ReferencesCounted, TypeOK, Object, Null
<1>3. /\ stranded' = [stranded EXCEPT ![t] = last /\ ~fits]
      /\ held' = [held EXCEPT ![t] = @ - 1]
      /\ OE_DELETE \in wFlags[t] => FreeHnd(t, sig, refs)
      /\ OE_DELETE \notin wFlags[t] => UNCHANGED <<poolVars, wObjSignature, wFlags>>
      /\ owned' = owned
  BY <1>2, HandleRoundTrip DEF UnlockHnd, Strands
<1>4. refs \in Nat /\ fits \in BOOLEAN
  BY <1>2 DEF Matches
<1>5. kindBar[t] # NoSignature
  BY <1>2, SignatureAssumption DEF kindBar
<1>6. kindBar' = IF last /\ fits THEN [kindBar EXCEPT ![t] = NoSignature] ELSE kindBar
  <2>1. CASE OE_DELETE \in wFlags[t] /\ refs = 0 /\ fits
    <3>1. /\ busy' = [busy EXCEPT ![t] = FALSE]
          /\ wObjSignature' = [wObjSignature EXCEPT ![t] = NoSignature]
      BY <2>1, <1>1, <1>2, <1>3, <1>4, FreeHndCases
    <3>2. kindBar' = [kindBar EXCEPT ![t] = NoSignature]
      BY <3>1, <1>1 DEF kindBar, TypeOK
    <3>3. last
      BY <2>1, <1>1, <1>2 DEF MarkedWhenFreed
    <3>4. QED
      BY <3>2, <3>3, <2>1
  <2>2. CASE ~(OE_DELETE \in wFlags[t] /\ refs = 0 /\ fits)
    <3>1. UNCHANGED <<busy, wObjSignature>>
      <4>1. CASE OE_DELETE \in wFlags[t] /\ fits
        BY <4>1, <2>2, <1>1, <1>2, <1>3, <1>4, FreeHndCases DEF poolVars
      <4>2. CASE OE_DELETE \in wFlags[t] /\ ~fits
        BY <4>2, <1>2, <1>3 DEF FreeHnd, poolVars
      <4>3. CASE OE_DELETE \notin wFlags[t]
        BY <4>3, <1>3 DEF poolVars
      <4>4. QED
        BY <4>1, <4>2, <4>3
    <3>2. ~(last /\ fits)
      BY <2>2, <1>1, <1>2 DEF MarkedWhenFreed
    <3>3. QED
      BY <3>1, <3>2 DEF kindBar
  <2>3. QED
    BY <2>1, <2>2
<1> HIDE DEF fits
<1>7. /\ kindBar[t] # NoSignature /\ held[t] > 0
      /\ held' = [held EXCEPT ![t] = @ - 1]
      /\ kindBar' = IF last /\ fits THEN [kindBar EXCEPT ![t] = NoSignature] ELSE kindBar
      /\ stranded' = [stranded EXCEPT ![t] = last /\ ~fits]
      /\ UNCHANGED owned
  BY <1>2, <1>3, <1>5, <1>6
<1>8. fits => Store!Done(t, TRUE)
  BY <1>7 DEF Store!Done, kindBar
<1>9. ~fits => Store!Done(t, FALSE)
  BY <1>7 DEF Store!Done, kindBar
<1>10. QED
  BY <1>8, <1>9 DEF Store!Next

LEMMA FreeImplements ==
  ASSUME IInv, NEW t \in Tag, NEW sig \in Signatures, Free(t, sig) PROVE Store!Next
<1>1. TypeOK /\ FreeChain /\ ReferencesCounted /\ OwnedLive
  BY DEF IInv
<1>2. /\ owned[t] /\ busy[t]
      /\ wRefCount[t] \in Nat /\ wRefCount[t] = held[t]
      /\ wObjSignature[t] \in KnownSigs
      /\ Matches(sig, wObjSignature[t])
      /\ owned' = [owned EXCEPT ![t] = FALSE]
      /\ FreeHnd(t, sig, wRefCount[t])
      /\ UNCHANGED <<held, stranded>>
  BY <1>1, HandleRoundTrip DEF Free, OwnedLive, ReferencesCounted, TypeOK
<1>3. kindBar' = IF held[t] = 0 THEN [kindBar EXCEPT ![t] = NoSignature] ELSE kindBar
  <2>1. CASE wRefCount[t] = 0
    <3>1. /\ busy' = [busy EXCEPT ![t] = FALSE]
          /\ wObjSignature' = [wObjSignature EXCEPT ![t] = NoSignature]
      BY <2>1, <1>1, <1>2, FreeHndCases
    <3>2. QED
      BY <3>1, <2>1, <1>1, <1>2 DEF kindBar, TypeOK
  <2>2. CASE wRefCount[t] # 0
    <3>1. UNCHANGED <<busy, wObjSignature>>
      BY <2>2, <1>1, <1>2, FreeHndCases DEF poolVars
    <3>2. QED
      BY <3>1, <2>2, <1>2 DEF kindBar
  <2>3. QED
    BY <2>1, <2>2
<1>4. kindBar[t] # NoSignature
  BY <1>2, SignatureAssumption DEF kindBar
<1>5. Store!Discard(t)
  BY <1>2, <1>3, <1>4 DEF Store!Discard, kindBar
<1>6. QED
  BY <1>5 DEF Store!Next

\* Every step of the table is a step of the store or leaves it alone.
LEMMA StepImplements ==
  ASSUME IInv, [Next]_vars PROVE [Store!Next]_(Store!storeVars)
<1>1. TypeOK
  BY DEF IInv
<1>2. ASSUME NEW h \in HandleWords, TagOf(h) < allocated PROVE TagOf(h) \in Tag
  BY <1>1, <1>2, TagOfWord, TableAssumption DEF TypeOK, Tag
<1>3. ASSUME UNCHANGED <<busy, wObjSignature, held, owned, stranded>> PROVE UNCHANGED Store!storeVars
  BY <1>3 DEF Store!storeVars
<1>4. ASSUME NEW sig \in Signatures, Create(sig) PROVE Store!Next
  BY <1>4, CreateImplements
<1>5. ASSUME NEW sig \in Signatures, CreateRefused(sig) PROVE UNCHANGED Store!storeVars
  BY <1>3, <1>5 DEF CreateRefused, headVars
<1>6. CASE TableOverflow \/ TableOverrun
  BY <1>3, <1>6 DEF TableOverflow, TableOverrun, poolVars, headVars
<1>7. ASSUME NEW h \in HandleWords, NEW sig \in Signatures, GetObj(h, sig) PROVE Store!Next
  BY <1>2, <1>7, ReferenceImplements DEF GetObj, Resolves, poolVars
<1>8. ASSUME NEW h \in HandleWords, LockHnd(h) PROVE Store!Next
  BY <1>2, <1>8, ReferenceImplements DEF LockHnd, poolVars
<1>9. ASSUME NEW t \in Tag, NEW sig \in Signatures, UnlockHnd(t, sig) \/ Free(t, sig)
      PROVE  Store!Next
  BY <1>9, UnlockImplements, FreeImplements
<1>10. ASSUME NEW t \in Tag, NEW clear \in BOOLEAN, SetFlags(t, clear)
       PROVE  UNCHANGED Store!storeVars
  BY <1>3, <1>10 DEF SetFlags, poolVars
<1>11. CASE UNCHANGED vars
  BY <1>3, <1>11 DEF vars, poolVars, headVars
<1>12. QED
  BY <1>4, <1>5, <1>6, <1>7, <1>8, <1>9, <1>10, <1>11 DEF Next

\* The table of blocks, tags and counts is a faithful store of objects: the caller
\* of HM_GETHND, HM_GETOBJ, HM_UNLOCKHND and HM_FREEHND may reason about ObjStore.
THEOREM Implementation == Spec => ImplementsStore
<1>1. Init => Store!Init
  <2> SUFFICES ASSUME Init PROVE Store!Init
    OBVIOUS
  <2>1. kindBar = [s \in Tag |-> NoSignature]
    BY DEF Init, kindBar
  <2>2. QED
    BY <2>1 DEF Init, Store!Init, kindBar
<1>2. IInv /\ [Next]_vars => [Store!Next]_(Store!storeVars)
  BY StepImplements
<1>3. QED
  BY <1>1, <1>2, Invariance, PTL DEF Spec, ImplementsStore, Store!Spec
=============================================================================
