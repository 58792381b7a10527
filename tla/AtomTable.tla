----------------------------- MODULE AtomTable ------------------------------
(***************************************************************************)
(* The atom tables of windows/KrnAtoms.c: FindAtomEx, AddAtomEx,           *)
(* DeleteAtomEx, LockAtomEx and GetAtomNameEx as operators on a table.     *)
(*                                                                         *)
(* A string is named up to the case of its letters, as strcasecmp compares *)
(* it; what the table sees of it are its size and what it hashes to.  An   *)
(* integer atom (MAKEINTATOM) hashes to itself and has no string.          *)
(***************************************************************************)
EXTENDS Integers, FiniteSetsExt

CONSTANTS
    Name,     \* strings
    Number,   \* integers used as names
    Size,     \* Size[s]: the bytes of a string, its end included (atomlen)
    Hash      \* Hash[s]: what AtomHashString makes of it; 0 is for free entries

ASSUME NameAssumption ==
    /\ Size \in [Name -> Nat \ {0}] /\ Hash \in [Name -> Nat \ {0}]
    /\ Number \subseteq Nat \ {0}
    /\ Name \cap Number = {}

Key == Name \cup Number
atomlen(s) == IF s \in Number THEN 0 ELSE Size[s]
AtomHashString(s) == IF s \in Number THEN s ELSE Hash[s]

\* AtomTable[index] is an entry, AtomData[idx] the string that begins there.
NoEntries == [i \in {} |-> i]
EmptyTable == [AtomTable |-> NoEntries, AtomData |-> NoEntries, TableSize |-> 0, DataSize |-> 0]

ATOMENTRY == [q : Nat, idx : Nat, refcnt : Int, idsize : Nat]

\* The entries a search gets to: GetAtomPointer gives none for an entry whose
\* string is not in the data, and that ends every search.
Reached(at) ==
    {i \in 0 .. at.TableSize - 1 : \A j \in 0 .. i : at.AtomTable[j].idx <= at.DataSize}
IsAtom(at, i) == i \in 0 .. at.TableSize - 1 /\ at.AtomTable[i].idx <= at.DataSize

\* Mutant: an entry of another size is passed over without a comparison.
MatchesSized(at, i, s) ==
    /\ at.AtomTable[i].q = AtomHashString(s) /\ at.AtomTable[i].idsize = atomlen(s)
    /\ s \in Number \/ at.AtomData[at.AtomTable[i].idx] = s

Matches(at, i, s) ==
    /\ at.AtomTable[i].q = AtomHashString(s)
    /\ s \in Number \/ ( /\ at.AtomTable[i].idx \in DOMAIN at.AtomData
                         /\ at.AtomData[at.AtomTable[i].idx] = s )

None == -1
FindAtomEx(at, s) ==
    LET hits == {i \in Reached(at) : Matches(at, i, s)}
    IN IF hits = {} THEN None ELSE Min(hits)

----------------------------------------------------------------------------
(* AddAtomEx *)

Free(at, i) == at.AtomTable[i].q = 0 /\ at.AtomTable[i].refcnt = 0
\* Mutant: any free entry, whatever its size.
RoomUnmeasured(at, s) == {i \in Reached(at) : Free(at, i) /\ at.AtomTable[i].idsize > 0}

\* The free entries with room for s.  At least one byte must be left over.
Room(at, s) == {i \in Reached(at) : Free(at, i) /\ at.AtomTable[i].idsize > atomlen(s)}

Tightest(at, I) == {i \in I : \A j \in I : at.AtomTable[i].idsize <= at.AtomTable[j].idsize}

\* Mutant: an atom that is found is not counted again.
AnotherUncounted(at, i) == at

Another(at, i) ==
    IF at.AtomTable[i].idsize = 0 THEN at
    ELSE [at EXCEPT !.AtomTable = [at.AtomTable EXCEPT ![i].refcnt = @ + 1]]

Refill(at, i, s) ==
    [at EXCEPT !.AtomTable = [at.AtomTable EXCEPT ![i].q = AtomHashString(s), ![i].refcnt = 1],
               !.AtomData = [at.AtomData EXCEPT ![at.AtomTable[i].idx] = s]]

\* Mutant: the table is reallocated to the size it had.
ExtendShort(at, s) ==
    LET new == [q |-> AtomHashString(s), refcnt |-> 1, idsize |-> atomlen(s), idx |-> 0]
    IN [at EXCEPT !.AtomTable = [i \in 0 .. at.TableSize - 1 |-> new], !.TableSize = @ + 1]

Extend(at, s) ==
    LET new == [q |-> AtomHashString(s), refcnt |-> 1, idsize |-> atomlen(s),
                idx |-> IF s \in Number THEN 0 ELSE at.DataSize]
    IN [AtomTable |-> [i \in 0 .. at.TableSize |->
                          IF i = at.TableSize THEN new ELSE at.AtomTable[i]],
        AtomData |-> IF s \in Number THEN at.AtomData
                     ELSE [x \in DOMAIN at.AtomData \cup {at.DataSize} |->
                              IF x = at.DataSize THEN s ELSE at.AtomData[x]],
        TableSize |-> at.TableSize + 1,
        DataSize |-> at.DataSize + atomlen(s)]

\* The index AddAtomEx returns, from ATOMBASE, and the table it leaves.
AddedAt(at, s) ==
    IF FindAtomEx(at, s) # None THEN FindAtomEx(at, s)
    ELSE IF s \notin Number /\ Room(at, s) # {} THEN Min(Tightest(at, Room(at, s)))
    ELSE at.TableSize
AddAtomEx(at, s) ==
    IF FindAtomEx(at, s) # None THEN Another(at, FindAtomEx(at, s))
    ELSE IF s \notin Number /\ Room(at, s) # {}
         THEN Refill(at, Min(Tightest(at, Room(at, s))), s)
    ELSE Extend(at, s)

----------------------------------------------------------------------------
(* DeleteAtomEx, LockAtomEx and GetAtomNameEx *)

\* Mutant: an entry that nobody counts on any more keeps its hash.
DeleteAtomKept(at, i) ==
    IF ~IsAtom(at, i) \/ at.AtomTable[i].idsize = 0 THEN at
    ELSE [at EXCEPT !.AtomTable = [at.AtomTable EXCEPT ![i].refcnt = @ - 1]]

DeleteAtomEx(at, i) ==
    IF ~IsAtom(at, i) THEN at
    ELSE LET left == IF at.AtomTable[i].idsize # 0 THEN at.AtomTable[i].refcnt - 1
                     ELSE at.AtomTable[i].refcnt
         IN [at EXCEPT !.AtomTable = [at.AtomTable EXCEPT
                ![i].refcnt = left, ![i].q = IF left = 0 THEN 0 ELSE @]]

LockAtomEx(at, i) ==
    IF ~IsAtom(at, i) THEN at
    ELSE [at EXCEPT !.AtomTable = [at.AtomTable EXCEPT ![i].refcnt = @ + 1]]

GetAtomNameEx(at, i) ==
    IF ~IsAtom(at, i) THEN None
    ELSE IF at.AtomTable[i].idsize = 0 THEN at.AtomTable[i].q
    ELSE at.AtomData[at.AtomTable[i].idx]
=============================================================================
