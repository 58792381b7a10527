------------------------------- MODULE Atoms --------------------------------
(***************************************************************************)
(* A table of atoms and its clients: the local table of an application     *)
(* (AddAtom, FindAtom, DeleteAtom, LockAtom), or one of the private tables *)
(* of the library (classes, window properties).                            *)
(*                                                                         *)
(* held says who relies on what: held[i][s] counts the clients that were   *)
(* given the atom with index i for s, by an addition or a lock, and have   *)
(* not given it back.  A client deletes only what it holds.                *)
(***************************************************************************)
EXTENDS AtomTable

CONSTANTS
    MaxTable,    \* a table has at most this many entries: ATOM is 16 bits
    MaxHeld      \* bound on the clients that hold one atom, and on the locks
                 \* an integer atom counts: no deletion takes them back

ASSUME BoundAssumption == MaxTable \in Nat /\ MaxHeld \in Nat

\* A string that ends in the byte n would be taken for the integer atom n, and
\* the integer for the string.  Integer atoms of 256 and more meet no string.
ASSUME DistinctAssumption == \A s \in Name : Hash[s] \notin Number

VARIABLES table, held
vars == <<table, held>>

Index == 0 .. MaxTable - 1

Init ==
    /\ table = EmptyTable
    /\ held = [i \in Index |-> [s \in Key |-> 0]]

\* An atom past the last index would not fit into 16 bits.
AddAtom(s) ==
    LET i == AddedAt(table, s) IN
    /\ i \in Index /\ held[i][s] < MaxHeld
    /\ table' = AddAtomEx(table, s)
    /\ held' = [held EXCEPT ![i][s] = @ + 1]

LockAtom(i, s) ==
    /\ held[i][s] > 0 /\ held[i][s] < MaxHeld /\ table.AtomTable[i].refcnt < MaxHeld
    /\ table' = LockAtomEx(table, i)
    /\ held' = [held EXCEPT ![i][s] = @ + 1]

DeleteAtom(i, s) ==
    /\ held[i][s] > 0
    /\ table' = DeleteAtomEx(table, i)
    /\ held' = [held EXCEPT ![i][s] = @ - 1]

Next ==
    \/ \E s \in Key : AddAtom(s)
    \/ \E i \in Index, s \in Key : LockAtom(i, s) \/ DeleteAtom(i, s)

Spec == Init /\ [][Next]_vars

----------------------------------------------------------------------------
(* Properties *)

Entries == 0 .. table.TableSize - 1
HasString(i) == table.AtomTable[i].idsize > 0
Text(i) == table.AtomData[table.AtomTable[i].idx]

\* Every variable has its type.
TypeOK ==
    /\ table.TableSize \in 0 .. MaxTable /\ table.DataSize \in Nat
    /\ table.AtomTable \in [Entries -> ATOMENTRY]
    /\ DOMAIN table.AtomData \subseteq Nat
    /\ table.AtomData \in [DOMAIN table.AtomData -> Name]
    /\ held \in [Index -> [Key -> Nat]]

\* The strings of two entries lie apart in AtomData, whichever entries are used
\* again and for what: a string fits its entry, and all of it is in the data.
StringsApart ==
    /\ \A i \in Entries :
         LET e == table.AtomTable[i] IN
         IF HasString(i)
         THEN /\ e.idx \in DOMAIN table.AtomData /\ e.idx + e.idsize <= table.DataSize
              /\ Size[Text(i)] <= e.idsize
         ELSE e.idx = 0 /\ e.q \in Number
    /\ \A i, j \in Entries :
         i # j /\ HasString(i) /\ HasString(j) =>
            \/ table.AtomTable[i].idx + table.AtomTable[i].idsize <= table.AtomTable[j].idx
            \/ table.AtomTable[j].idx + table.AtomTable[j].idsize <= table.AtomTable[i].idx

\* An atom that someone holds stands for the string it was given for, and that
\* string is found under this atom: no addition, deletion or reuse in between.
HeldNamesString ==
    \A i \in Index, s \in Key :
        held[i][s] > 0 => GetAtomNameEx(table, i) = s /\ FindAtomEx(table, s) = i

\* An entry counts those who hold its string and is free when nobody does: it
\* is neither lost nor taken from anyone.
CountsHolders ==
    \A i \in Entries :
        HasString(i) =>
            LET e == table.AtomTable[i] IN
            /\ e.refcnt = held[i][Text(i)]
            /\ e.q = IF e.refcnt = 0 THEN 0 ELSE Hash[Text(i)]

\* The table implements a store of counted names.
Store == INSTANCE AtomStore WITH
    atom <- [s \in Key |-> FindAtomEx(table, s)],
    count <- [s \in Key |-> LET i == FindAtomEx(table, s) IN
                            IF i = None THEN 0
                            ELSE IF HasString(i) THEN table.AtomTable[i].refcnt ELSE 1]
ImplementsStore == Store!Spec
=============================================================================
