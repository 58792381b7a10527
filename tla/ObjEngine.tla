----------------------------- MODULE ObjEngine ------------------------------
(***************************************************************************)
(* The handle-object engine of windows/ObjEngine.c: every window, task,    *)
(* module, pen, menu... of the library is a reference-counted object       *)
(* behind a handle, and the handle is an index into blocks of tags whose   *)
(* free ones are chained through lpObjInfo.  One action per HM_ function.  *)
(*                                                                         *)
(* The heap block of an object is represented by the fields of its OBJHEAD *)
(* (wObjSignature, wRefCount, wFlags), indexed by the tag that points to   *)
(* it.  The variables held, owned and stranded are not in the code: they   *)
(* record what its callers have done and still have to do (RELEASE what    *)
(* they got, FREE what they created), which is the contract of the macros  *)
(* of include/ObjEngine.h.                                                 *)
(***************************************************************************)
EXTENDS Integers

CONSTANTS
    BlockSize,     \* tags in a block, 256 in the code
    MaxTags,       \* tags in a full table, 256 blocks in the code
    Any,           \* the category or type 0 of a signature, which matches all
    Signatures,    \* signatures callers pass: [cat : ..., typ : ...]
    KnownSigs,     \* signatures HM_GETHND has a size for
    SystemSigs,    \* those of the objects SETOBJECTFLAG is used on
    HandleWords,   \* words callers pass as handles, good or not
    MaxRefs        \* bound of the model on wRefCount (the code stops at 2^15)

OM_MASK == 16384          \* 0x4000, the bit every handle carries
Tag     == 0 .. MaxTags - 1
Null    == -1             \* a null lpObjInfo, FreeHead or FreeTail
Object  == -2             \* an lpObjInfo that points to an object's heap block
OE_SYSTEM == "OE_SYSTEM"
OE_DELETE == "OE_DELETE"
NoSignature == [cat |-> "", typ |-> ""]     \* of a tag that has no object

\* The bit OM_MASK is also bit 13 of a tag's index: the encoding is one to one
\* only below it, so the model's table stops there (the code's does not).
ASSUME TableAssumption ==
    /\ BlockSize \in Nat \ {0}
    /\ MaxTags \in Nat
    /\ 2 * MaxTags <= OM_MASK

ASSUME SignatureAssumption ==
    /\ KnownSigs \subseteq Signatures
    /\ SystemSigs \subseteq KnownSigs
    /\ NoSignature \notin KnownSigs

ASSUME HandleAssumption == \A h \in HandleWords : h \in Nat /\ h <= 65535

ASSUME BoundAssumption == MaxRefs \in Nat /\ 1 <= MaxRefs /\ MaxRefs <= 32767

VARIABLES
    allocated,     \* tags in the blocks allocated so far: 256*(NextToAllocate+1)
    FreeHead, FreeTail, FreePoolSize,
    info,          \* lpObjInfo of each tag: next free tag, Null or Object
    busy,          \* OE_BUSY of each tag
    wObjSignature, wRefCount, wFlags,     \* OBJHEAD of the tag's object
    overflowed,    \* NextToAllocate is at 256, the end of the array of blocks
    exited,        \* the process has ended, or wrote beyond that array
    held,          \* held[t]: pointers to t's object not yet released
    owned,         \* owned[t]: t's object was not yet given to HM_FREEHND
    stranded       \* stranded[t]: the last to hold t, which its owner had given
                   \* up, released it under a signature it does not have

poolVars == <<allocated, FreeHead, FreeTail, FreePoolSize, info, busy>>
headVars == <<wObjSignature, wRefCount, wFlags>>
endVars == <<overflowed, exited>>
vars == <<poolVars, headVars, endVars, held, owned, stranded>>

----------------------------------------------------------------------------
\* Handles and tags

Handle(t) == OM_MASK + 2 * t

HasMask(h) == (h \div OM_MASK) % 2 = 1

TagOf(h) == (IF HasMask(h) THEN h - OM_MASK ELSE h) \div 2

\* Category and type are compared one by one; 0 asks for no check.
Matches(asked, sig) ==
    /\ asked.cat \in {Any, sig.cat}
    /\ asked.typ \in {Any, sig.typ}

\* The tests HM_CHECKHND and HM_GETOBJ make before they hand out a pointer.
Resolves(h, asked) ==
    /\ HasMask(h)
    /\ TagOf(h) < allocated
    /\ busy[TagOf(h)]
    /\ info[TagOf(h)] # Null
    /\ Matches(asked, wObjSignature[TagOf(h)])

----------------------------------------------------------------------------
\* The free pool

Pool == [allocated |-> allocated, head |-> FreeHead, tail |-> FreeTail,
         size |-> FreePoolSize, info |-> info]

\* Defect: the last tag of a new block is linked like the others.
AllocatePastEnd ==
    LET last == allocated + BlockSize - 1
    IN  [allocated |-> last + 1, head |-> allocated,
         tail |-> IF FreeHead = Null THEN last ELSE FreeTail,
         size |-> FreePoolSize + BlockSize,
         info |-> [t \in Tag |-> IF t \in allocated .. last THEN t + 1 ELSE info[t]]]

\* A further block, chained in front of what is left of the pool.
AllocateMoreObjects ==
    LET last == allocated + BlockSize - 1
    IN  [allocated |-> allocated + BlockSize,
         head |-> allocated,
         tail |-> IF FreeHead = Null THEN last ELSE FreeTail,
         size |-> IF FreeHead = Null THEN BlockSize ELSE FreePoolSize + BlockSize,
         info |-> [t \in Tag |-> IF t = last THEN FreeHead
                                 ELSE IF t \in allocated .. last THEN t + 1
                                 ELSE info[t]]]

\* The pool HM_GETHND takes from: grown when it is empty and the table is not full.
PoolForGet ==
    IF FreePoolSize = 0 /\ allocated + BlockSize <= MaxTags
    THEN AllocateMoreObjects
    ELSE Pool

SetPool(p) ==
    /\ allocated' = p.allocated
    /\ FreeHead' = p.head
    /\ FreeTail' = p.tail
    /\ FreePoolSize' = p.size
    /\ info' = p.info

\* Defect: the tail is kept when the pool's last tag is taken.
TakeHeadStaleTail(p) ==
    [p EXCEPT !.head = p.info[p.head],
              !.size = IF p.info[p.head] = Null THEN 0 ELSE p.size - 1,
              !.info = [p.info EXCEPT ![p.head] = Object]]

\* The pool without its first tag, which now points to an object.
TakeHead(p) ==
    LET next == p.info[p.head]
    IN  [p EXCEPT !.head = next,
                  !.tail = IF next = Null THEN Null ELSE p.tail,
                  !.size = IF next = Null THEN 0 ELSE p.size - 1,
                  !.info = [p.info EXCEPT ![p.head] = Object]]

\* A freed tag goes to the end of the pool.
ReturnTag(p, t) ==
    IF p.tail = Null
    THEN [p EXCEPT !.head = t, !.tail = t, !.size = 1,
                   !.info = [p.info EXCEPT ![t] = Null]]
    ELSE [p EXCEPT !.tail = t, !.size = p.size + 1,
                   !.info = [p.info EXCEPT ![t] = Null, ![p.tail] = t]]

----------------------------------------------------------------------------
Init ==
    /\ allocated = 0
    /\ FreeHead = Null
    /\ FreeTail = Null
    /\ FreePoolSize = 0
    /\ info = [t \in Tag |-> Null]
    /\ busy = [t \in Tag |-> FALSE]
    /\ wObjSignature = [t \in Tag |-> NoSignature]
    /\ wRefCount = [t \in Tag |-> 0]
    /\ wFlags = [t \in Tag |-> {}]
    /\ overflowed = FALSE
    /\ exited = FALSE
    /\ held = [t \in Tag |-> 0]
    /\ owned = [t \in Tag |-> FALSE]
    /\ stranded = [t \in Tag |-> FALSE]

\* HM_GETHND for a signature it knows: the creator gets the first reference.
Create(sig) ==
    LET p == PoolForGet
        t == p.head
    IN  /\ t # Null
        /\ sig \in KnownSigs
        /\ SetPool(TakeHead(p))
        /\ busy' = [busy EXCEPT ![t] = TRUE]
        /\ wObjSignature' = [wObjSignature EXCEPT ![t] = sig]
        /\ wRefCount' = [wRefCount EXCEPT ![t] = 1]
        /\ wFlags' = [wFlags EXCEPT ![t] = {}]
        /\ held' = [held EXCEPT ![t] = 1]
        /\ owned' = [owned EXCEPT ![t] = TRUE]
        /\ stranded' = [stranded EXCEPT ![t] = FALSE]
        /\ UNCHANGED endVars

\* HM_GETHND for a signature it does not know (CREATEATOM): refused, but only
\* after the pool was refilled.
CreateRefused(sig) ==
    /\ PoolForGet.head # Null
    /\ sig \notin KnownSigs
    /\ SetPool(PoolForGet)
    /\ UNCHANGED <<busy, headVars, endVars, held, owned, stranded>>

\* HM_GETHND with every tag in use.  The first time AllocateMoreObjects says so
\* and GetHandleErr(1) does not return: FatalAppExit deletes the calling task, and
\* ends the process when no other task is left.  The others go on.
TableOverflow ==
    /\ PoolForGet.head = Null
    /\ ~overflowed
    /\ overflowed' = TRUE
    /\ exited' \in BOOLEAN
    /\ UNCHANGED <<poolVars, headVars, held, owned, stranded>>

\* The next time NextToAllocate is past 256 and its test lets it by: the new block
\* is stored beyond the array of blocks, and nothing is claimed from then on.
TableOverrun ==
    /\ PoolForGet.head = Null
    /\ overflowed
    /\ exited' = TRUE
    /\ UNCHANGED <<poolVars, headVars, overflowed, held, owned, stranded>>

\* HM_GETOBJ and HM_CHECKHND; a call that does not resolve changes nothing.
GetObj(h, asked) ==
    LET t == TagOf(h)
    IN  /\ Resolves(h, asked)
        /\ wRefCount[t] < MaxRefs
        /\ wRefCount' = [wRefCount EXCEPT ![t] = @ + 1]
        /\ held' = [held EXCEPT ![t] = @ + 1]
        /\ stranded' = [stranded EXCEPT ![t] = FALSE]
        /\ UNCHANGED <<poolVars, wObjSignature, wFlags, endVars, owned>>

\* HM_LOCKHND looks at neither the mask nor the signature (and at the count only
\* to stop at 2^15, beyond MaxRefs).
LockHnd(h) ==
    LET t == TagOf(h)
    IN  /\ t < allocated
        /\ busy[t]
        /\ wRefCount[t] < MaxRefs
        /\ wRefCount' = [wRefCount EXCEPT ![t] = @ + 1]
        /\ held' = [held EXCEPT ![t] = @ + 1]
        /\ stranded' = [stranded EXCEPT ![t] = FALSE]
        /\ UNCHANGED <<poolVars, wObjSignature, wFlags, endVars, owned>>

\* Defect: the reference count is not looked at.
FreeHndLocked(t, sig, refs) ==
    IF info[t] # Null /\ ~Matches(sig, wObjSignature[t])
    THEN UNCHANGED <<poolVars, wObjSignature, wFlags>>
    ELSE /\ SetPool(ReturnTag(Pool, t))
         /\ busy' = [busy EXCEPT ![t] = FALSE]
         /\ wObjSignature' = [wObjSignature EXCEPT ![t] = NoSignature]
         /\ wFlags' = [wFlags EXCEPT ![t] = {}]

\* HM_FREEHND on tag t, whose object counts refs references.  It does not look
\* at OE_BUSY: for a free tag it would read the next free tag as the object, whose
\* signature fields nobody sets.
FreeHnd(t, sig, refs) ==
    IF info[t] # Null /\ ~Matches(sig, wObjSignature[t])
    THEN UNCHANGED <<poolVars, wObjSignature, wFlags>>
    ELSE IF info[t] = Object /\ refs # 0
    THEN /\ wFlags' = [wFlags EXCEPT ![t] = @ \cup {OE_DELETE}]
         /\ UNCHANGED <<poolVars, wObjSignature>>
    ELSE /\ SetPool(ReturnTag(Pool, t))
         /\ busy' = [busy EXCEPT ![t] = FALSE]
         /\ wObjSignature' = [wObjSignature EXCEPT ![t] = NoSignature]
         /\ wFlags' = [wFlags EXCEPT ![t] = {}]

\* The release of t under sig that the delayed free would refuse.
Strands(t, sig) == held[t] = 1 /\ ~owned[t] /\ ~Matches(sig, wObjSignature[t])

\* Defect: the delayed free is tried before the count goes down.
UnlockHndFreesFirst(t, sig) ==
    /\ held[t] > 0
    /\ busy[t]
    /\ stranded' = [stranded EXCEPT ![t] = Strands(t, sig)]
    /\ held' = [held EXCEPT ![t] = @ - 1]
    /\ wRefCount' = [wRefCount EXCEPT ![t] = @ - 1]
    /\ IF OE_DELETE \in wFlags[t]
       THEN FreeHnd(t, sig, wRefCount[t])
       ELSE UNCHANGED <<poolVars, wObjSignature, wFlags>>
    /\ UNCHANGED <<endVars, owned>>

\* HM_UNLOCKHND by someone who has a reference, through the object's own handle.
\* The signature is not looked at before the count goes down, only by the delayed
\* free: MDI.c locks and unlocks menus (MLLBOX) as GDI objects (MLGDI).
UnlockHnd(t, sig) ==
    LET h    == TagOf(Handle(t))
        refs == IF wRefCount[h] > 0 THEN wRefCount[h] - 1 ELSE wRefCount[h]
    IN  /\ held[t] > 0
        /\ h < allocated
        /\ busy[h]
        /\ stranded' = [stranded EXCEPT ![t] = Strands(t, sig)]
        /\ held' = [held EXCEPT ![t] = @ - 1]
        /\ wRefCount' = [wRefCount EXCEPT ![h] = refs]
        /\ IF OE_DELETE \in wFlags[h]
           THEN FreeHnd(h, sig, refs)
           ELSE UNCHANGED <<poolVars, wObjSignature, wFlags>>
        /\ UNCHANGED <<endVars, owned>>

\* HM_FREEHND by the owner of the object, with the signature of its FREE macro.
Free(t, sig) ==
    LET h == TagOf(Handle(t))
    IN  /\ owned[t]
        /\ h < allocated
        /\ Matches(sig, wObjSignature[t])
        /\ owned' = [owned EXCEPT ![t] = FALSE]
        /\ FreeHnd(h, sig, wRefCount[h])
        /\ UNCHANGED <<wRefCount, endVars, held, stranded>>

\* HM_SETFLAGS, as SETOBJECTFLAG is used on system brushes and pens: to mark one
\* that is owned (OE_SYSTEM) and to unmark it before it is deleted (OE_CLEAR).
\* It also knows OE_DELETE, which clears the flags and drops a reference nobody
\* holds, but no code passes that.
SetFlags(t, clear) ==
    LET h == TagOf(Handle(t))
    IN  /\ owned[t]
        /\ wObjSignature[t] \in SystemSigs
        /\ h < allocated
        /\ busy[h]
        /\ wFlags' = [wFlags EXCEPT ![h] = IF clear THEN {} ELSE @ \cup {OE_SYSTEM}]
        /\ UNCHANGED <<poolVars, wObjSignature, wRefCount, endVars, held, owned, stranded>>

Next ==
    /\ ~exited
    /\ \/ \E sig \in Signatures : Create(sig) \/ CreateRefused(sig)
       \/ TableOverflow
       \/ TableOverrun
       \/ \E h \in HandleWords, sig \in Signatures : GetObj(h, sig)
       \/ \E h \in HandleWords : LockHnd(h)
       \/ \E t \in Tag, sig \in Signatures : UnlockHnd(t, sig) \/ Free(t, sig)
       \/ \E t \in Tag, clear \in BOOLEAN : SetFlags(t, clear)

Spec == Init /\ [][Next]_vars

----------------------------------------------------------------------------
\* Properties

\* Every variable keeps its type; in particular the pool counter is never negative
\* and links lead to tags.
TypeOK ==
    /\ allocated \in 0 .. MaxTags
    /\ FreeHead \in Tag \cup {Null}
    /\ FreeTail \in Tag \cup {Null}
    /\ FreePoolSize \in Nat
    /\ info \in [Tag -> Tag \cup {Null, Object}]
    /\ busy \in [Tag -> BOOLEAN]
    /\ wObjSignature \in [Tag -> KnownSigs \cup {NoSignature}]
    /\ wRefCount \in [Tag -> 0 .. MaxRefs]
    /\ wFlags \in [Tag -> SUBSET {OE_SYSTEM, OE_DELETE}]
    /\ overflowed \in BOOLEAN
    /\ exited \in BOOLEAN
    /\ held \in [Tag -> 0 .. MaxRefs]
    /\ owned \in [Tag -> BOOLEAN]
    /\ stranded \in [Tag -> BOOLEAN]

\* chain lists the free tags in the order lpObjInfo links them.
IsFreeChain(chain) ==
    /\ \A i, j \in 1 .. FreePoolSize : chain[i] = chain[j] => i = j
    /\ \A i \in 1 .. FreePoolSize : chain[i] < allocated /\ ~busy[chain[i]]
    /\ \A t \in Tag : t < allocated /\ ~busy[t]
                         => \E i \in 1 .. FreePoolSize : chain[i] = t
    /\ \A i \in 1 .. FreePoolSize - 1 : info[chain[i]] = chain[i + 1]
    /\ FreePoolSize = 0 => FreeHead = Null /\ FreeTail = Null
    /\ FreePoolSize # 0 => /\ FreeHead = chain[1]
                           /\ FreeTail = chain[FreePoolSize]
                           /\ info[FreeTail] = Null

\* However objects are created, shared and freed, the chain from FreeHead to
\* FreeTail runs through every unused tag of the allocated blocks exactly once
\* and through no used one, and FreePoolSize is its length: no slot is lost and
\* none is handed out twice (ObjEngine.c:204-248, 327-336, 537-550).
FreeChain == \E chain \in [1 .. FreePoolSize -> Tag] : IsFreeChain(chain)

\* A pointer a caller has not released yet points to a live object of an
\* allocated block, and the object counts exactly those pointers: whoever frees
\* it meanwhile only marks it (ObjEngine.c:504-512).
ReferencesCounted ==
    \A t \in Tag :
        /\ busy[t] => t < allocated /\ info[t] = Object /\ wObjSignature[t] \in KnownSigs
        /\ held[t] > 0 => busy[t]
        /\ busy[t] => wRefCount[t] = held[t]

\* An object somebody freed is gone as soon as nobody uses it: the release of the
\* last reference performs the delayed HM_FREEHND (ObjEngine.c:452-453), unless it
\* names a signature the object does not have, when the free is refused (493-502).
NoZombie ==
    \A t \in Tag : busy[t] /\ ~owned[t] => held[t] > 0 \/ stranded[t]

\* Only an object its owner gave up is marked for deletion, and every such object
\* is: a system flag set or cleared on the way never loses the mark.
MarkedWhenFreed ==
    \A t \in Tag : busy[t] => (OE_DELETE \in wFlags[t] <=> ~owned[t])

\* The table implements the store it stands for (ObjStore.tla).
Store == INSTANCE ObjStore WITH
    Slots <- Tag,
    Kinds <- KnownSigs,
    None  <- NoSignature,
    kind  <- [t \in Tag |-> IF busy[t] THEN wObjSignature[t] ELSE NoSignature],
    users <- held,
    owned <- owned,
    stranded <- stranded

ImplementsStore == Store!Spec
=============================================================================
