---------------------------- MODULE AtomsProofs -----------------------------
(***************************************************************************)
(* The inductive invariant of a table of atoms and its clients, and the    *)
(* theorems that follow from it, for strings of every number, length and   *)
(* hash.                                                                   *)
(***************************************************************************)
EXTENDS Atoms, FiniteSetsExt, FiniteSetTheorems, TLAPS

----------------------------------------------------------------------------
(* Sets of numbers *)

\* A set of natural numbers that is not empty has a smallest element.
LEMMA MinNat ==
    ASSUME NEW S, S \subseteq Nat, S # {}
    PROVE  Min(S) \in S /\ \A y \in S : Min(S) <= y
<1>1. PICK x \in S : \A y \in S : ~ (<<y, x>> \in OpToRel(<, Nat))
  BY NatLessThanWellFounded, WFMin
<1>2. \A y \in S : ~ (y < x)
  BY <1>1, Zenon DEF OpToRel
<1>3. \A y \in S : x <= y
  BY <1>2
<1> QED
  BY <1>3 DEF Min

----------------------------------------------------------------------------
\* A table has its four fields and no more.
Shape == table = [AtomTable |-> table.AtomTable, AtomData |-> table.AtomData,
                  TableSize |-> table.TableSize, DataSize |-> table.DataSize]

\* What the entry i stands for.
Called(i) == IF HasString(i) THEN Text(i) ELSE table.AtomTable[i].q

\* Who holds an atom holds an entry under the name it has.
HeldCalled ==
    \A i \in Index, s \in Key : held[i][s] > 0 => i \in Entries /\ s = Called(i)

\* Integer atoms stay.
IntegersStay == \A i \in Entries : ~HasString(i) => table.AtomTable[i].refcnt > 0

\* No two entries in use are called the same.
OneAtom ==
    \A i, j \in Entries :
        table.AtomTable[i].q # 0 /\ table.AtomTable[j].q # 0 /\ Called(i) = Called(j) => i = j

IInv == Shape /\ TypeOK /\ StringsApart /\ CountsHolders /\ HeldCalled /\ IntegersStay /\ OneAtom

Types == NameAssumption /\ BoundAssumption /\ DistinctAssumption

----------------------------------------------------------------------------
\* The search

\* No entry is out of the reach of a search.
LEMMA AllReached ==
    ASSUME IInv
    PROVE  /\ Reached(table) = Entries
           /\ \A i : IsAtom(table, i) <=> i \in Entries
<1>1. \A i \in Entries : table.AtomTable[i].idx <= table.DataSize
  <2>1. \A i \in Entries : table.AtomTable[i] \in ATOMENTRY /\ table.DataSize \in Nat
    BY DEF IInv, TypeOK
  <2>2. \A i \in Entries : ~HasString(i) => table.AtomTable[i].idx = 0
    BY DEF IInv, StringsApart
  <2>3. \A i \in Entries : HasString(i) =>
            table.AtomTable[i].idx + table.AtomTable[i].idsize <= table.DataSize
    BY DEF IInv, StringsApart
  <2> QED
    BY <2>1, <2>2, <2>3 DEF ATOMENTRY
<1>2. \A i \in Entries : 0 .. i \subseteq Entries
  BY DEF IInv, TypeOK, Entries
<1> QED
  BY <1>1, <1>2 DEF Reached, IsAtom, Entries

\* What a search compares.
LEMMA HashOf ==
    ASSUME Types, NEW s \in Key
    PROVE  /\ AtomHashString(s) \in Nat \ {0} /\ atomlen(s) \in Nat
           /\ s \in Name => /\ s \notin Number /\ atomlen(s) = Size[s] /\ Size[s] > 0
                            /\ AtomHashString(s) = Hash[s]
           /\ s \in Number => AtomHashString(s) = s
<1>1. CASE s \in Number
  BY <1>1 DEF Types, NameAssumption, AtomHashString, atomlen
<1>2. CASE s \in Name
  <2>1. s \notin Number /\ Size[s] \in Nat \ {0} /\ Hash[s] \in Nat \ {0}
    BY <1>2 DEF Types, NameAssumption
  <2> QED
    BY <2>1 DEF AtomHashString, atomlen
<1> QED
  BY <1>1, <1>2 DEF Key

\* An entry matches a string when it is in use and called by it.
LEMMA MatchesCalled ==
    ASSUME IInv, NEW i \in Entries, NEW s \in Key
    PROVE  Matches(table, i, s) <=> table.AtomTable[i].q # 0 /\ Called(i) = s
<1>1. /\ AtomHashString(s) \in Nat \ {0}
      /\ s \in Name => s \notin Number /\ AtomHashString(s) = Hash[s]
      /\ s \in Number => AtomHashString(s) = s
  BY HashOf, NameAssumption, BoundAssumption, DistinctAssumption DEF Types
<1>2. CASE HasString(i)
  <2>1. Text(i) \in Name /\ table.AtomTable[i].idx \in DOMAIN table.AtomData /\ Called(i) = Text(i)
    BY <1>2 DEF IInv, TypeOK, StringsApart, Text, Called
  <2>2. table.AtomTable[i].q \in {0, Hash[Text(i)]}
    BY <1>2 DEF IInv, CountsHolders
  <2>3. Hash[Text(i)] \notin Number /\ Hash[Text(i)] # 0 /\ Text(i) \notin Number /\ 0 \notin Number
    BY <2>1, NameAssumption, DistinctAssumption
  <2> QED
    BY <1>1, <2>1, <2>2, <2>3 DEF Matches, Text, Key
<1>3. CASE ~HasString(i)
  <2>1. table.AtomTable[i].q \in Number /\ Called(i) = table.AtomTable[i].q
    BY <1>3 DEF IInv, StringsApart, Called
  <2>2. 0 \notin Number /\ (s \in Name => Hash[s] \notin Number /\ s \notin Number)
    BY NameAssumption, DistinctAssumption
  <2> QED
    BY <1>1, <2>1, <2>2 DEF Matches, Key
<1> QED
  BY <1>1, <1>2, <1>3

\* A search finds the one entry in use that is called by the string, if there is one.
LEMMA SearchFinds ==
    ASSUME IInv, NEW s \in Key
    PROVE  /\ \A i \in Entries : Matches(table, i, s) => FindAtomEx(table, s) = i
           /\ FindAtomEx(table, s) # None =>
                FindAtomEx(table, s) \in Entries /\ Matches(table, FindAtomEx(table, s), s)
<1> DEFINE hits == {i \in Reached(table) : Matches(table, i, s)}
<1>1. hits \subseteq Nat /\ hits \subseteq Entries
  BY AllReached DEF Entries, IInv, TypeOK
<1>2. \A i, j \in hits : i = j
  BY <1>1, MatchesCalled DEF IInv, OneAtom
<1>3. FindAtomEx(table, s) = IF hits = {} THEN None ELSE Min(hits)
  BY DEF FindAtomEx
<1>4. hits # {} => Min(hits) \in hits
  <2> HIDE DEF hits
  <2> QED
    BY <1>1, MinNat
<1>5. \A i \in Entries : Matches(table, i, s) => i \in hits
  BY AllReached
<1> QED
  BY <1>1, <1>2, <1>3, <1>4, <1>5 DEF None, Entries

----------------------------------------------------------------------------
\* The steps

\* A step changes the entry i and who holds it: the entry keeps its place and
\* its size and is called s, which all who hold it do and no other entry is.
EditedEntry(i, s, n) ==
    /\ Shape' /\ table'.TableSize = table.TableSize /\ table'.DataSize = table.DataSize
    /\ table'.AtomTable \in [Entries -> ATOMENTRY]
    /\ \A j \in Entries \ {i} : table'.AtomTable[j] = table.AtomTable[j]
    /\ table'.AtomTable[i].idx = table.AtomTable[i].idx
    /\ table'.AtomTable[i].idsize = table.AtomTable[i].idsize
    /\ held' = [held EXCEPT ![i][s] = n]
    /\ \A r \in Key \ {s} : held[i][r] = 0
    /\ table'.AtomTable[i].q # 0 => \A j \in Entries : Matches(table, j, s) => j = i

EditedString(i, s, n) ==
    /\ s \in Name /\ Size[s] <= table.AtomTable[i].idsize
    /\ table'.AtomData = [table.AtomData EXCEPT ![table.AtomTable[i].idx] = s]
    /\ table'.AtomTable[i].refcnt = n
    /\ table'.AtomTable[i].q = IF n = 0 THEN 0 ELSE Hash[s]

EditedInteger(i, s) ==
    /\ table'.AtomData = table.AtomData
    /\ table'.AtomTable[i].refcnt > 0
    /\ table'.AtomTable[i].q = s /\ table.AtomTable[i].q = s

\* A step leaves what every entry but i is called, and i is called s.
CalledNow(i, s) ==
    /\ i \in Entries' /\ Entries' \ {i} = Entries \ {i}
    /\ \A j \in Entries \ {i} :
         table'.AtomTable[j].q = table.AtomTable[j].q /\ Called(j)' = Called(j)
    /\ Called(i)' = s

LEMMA OneEntry ==
    ASSUME IInv, NEW i \in Entries, NEW s \in Key, NEW n \in Nat,
           EditedEntry(i, s, n),
           HasString(i) => EditedString(i, s, n),
           ~HasString(i) => EditedInteger(i, s)
    PROVE  IInv' /\ CalledNow(i, s)
<1> USE DEF EditedEntry, EditedString, EditedInteger
<1> DEFINE T == table.AtomTable
           D == table.AtomData
<1>1. /\ Entries' = Entries /\ i \in Index /\ Entries \subseteq Index
      /\ T \in [Entries -> ATOMENTRY] /\ D \in [DOMAIN D -> Name]
      /\ held \in [Index -> [Key -> Nat]]
  <2>1. Entries' = Entries
    BY DEF Entries
  <2>2. Entries \subseteq Index
    BY BoundAssumption DEF IInv, TypeOK, Entries, Index
  <2> QED
    BY <2>1, <2>2 DEF IInv, TypeOK
<1>2. /\ T' \in [Entries -> ATOMENTRY]
      /\ \A j \in Entries : T'[j].idx = T[j].idx /\ T'[j].idsize = T[j].idsize
      /\ \A j \in Entries \ {i} : T'[j] = T[j]
  OBVIOUS
<1>3. /\ HasString(i) => T[i].idx \in DOMAIN D
      /\ D' \in [DOMAIN D -> Name] /\ DOMAIN D' = DOMAIN D
      /\ HasString(i) => D'[T[i].idx] = s
      /\ \A x \in DOMAIN D : x # T[i].idx \/ ~HasString(i) => D'[x] = D[x]
  BY <1>1 DEF IInv, StringsApart
<1>4. /\ held' \in [Index -> [Key -> Nat]] /\ held'[i][s] = n
      /\ \A r \in Key \ {s} : held'[i][r] = 0
      /\ \A j \in Index \ {i} : held'[j] = held[j]
  BY <1>1
<1>5. TypeOK'
  BY <1>1, <1>2, <1>3, <1>4 DEF IInv, TypeOK
<1>6. /\ \A j \in Entries : HasString(j)' <=> HasString(j)
      /\ HasString(i) => Text(i)' = s
      /\ \A j \in Entries \ {i} : HasString(j) => Text(j)' = Text(j)
  <2>1. \A j \in Entries : HasString(j)' <=> HasString(j)
    BY <1>2 DEF HasString
  <2>2. HasString(i) => Text(i)' = s
    BY <1>2, <1>3 DEF Text
  <2>3. ASSUME NEW j \in Entries \ {i}, HasString(j)
        PROVE  Text(j)' = Text(j)
    <3>1. T[j].idx \in DOMAIN D /\ T[j].idsize > 0
      BY <2>3 DEF IInv, StringsApart, HasString
    <3>2. HasString(i) => T[i].idx # T[j].idx
      BY <1>1, <2>3 DEF IInv, StringsApart, HasString, ATOMENTRY
    <3> QED
      BY <1>2, <1>3, <3>1, <3>2 DEF Text
  <2> QED
    BY <2>1, <2>2, <2>3
<1>7. StringsApart'
  <2>1. ASSUME NEW j \in Entries
        PROVE  IF HasString(j)' THEN /\ T'[j].idx \in DOMAIN D'
                                     /\ T'[j].idx + T'[j].idsize <= table'.DataSize
                                     /\ Size[Text(j)'] <= T'[j].idsize
               ELSE T'[j].idx = 0 /\ T'[j].q \in Number
    BY <1>2, <1>3, <1>6 DEF IInv, StringsApart
  <2>2. ASSUME NEW j \in Entries, NEW k \in Entries, j # k, HasString(j)', HasString(k)'
        PROVE  \/ T'[j].idx + T'[j].idsize <= T'[k].idx
               \/ T'[k].idx + T'[k].idsize <= T'[j].idx
    BY <1>2, <1>6, <2>2 DEF IInv, StringsApart
  <2> QED
    BY <1>1, <2>1, <2>2 DEF StringsApart
<1>8. CountsHolders'
  BY <1>1, <1>2, <1>4, <1>6 DEF IInv, CountsHolders
<1>9. \A j \in Entries : Called(j)' = IF j = i THEN s ELSE Called(j)
  BY <1>2, <1>6 DEF Called
<1>10. HeldCalled'
  BY <1>1, <1>4, <1>9 DEF IInv, HeldCalled
<1>11. IntegersStay'
  BY <1>1, <1>2, <1>6 DEF IInv, IntegersStay
<1>12. OneAtom'
  <2>1. ASSUME NEW j \in Entries, T[j].q # 0, Called(j) = s, T'[i].q # 0
        PROVE  j = i
    BY <2>1, MatchesCalled
  <2> QED
    BY <1>1, <1>2, <1>9, <2>1 DEF IInv, OneAtom
<1>13. CalledNow(i, s)
  BY <1>1, <1>2, <1>9 DEF CalledNow
<1> QED
  BY <1>5, <1>7, <1>8, <1>10, <1>11, <1>12, <1>13 DEF IInv

\* The entry of a name that is held or found, as its holders see it.
LEMMA HeldEntry ==
    ASSUME IInv, NEW i \in Entries, NEW s \in Key, table.AtomTable[i].q # 0, Called(i) = s
    PROVE  /\ \A r \in Key \ {s} : held[i][r] = 0
           /\ i \in Index /\ held[i][s] \in Nat
           /\ table.AtomTable[i] \in ATOMENTRY
           /\ HasString(i) => /\ s \in Name /\ Size[s] <= table.AtomTable[i].idsize
                              /\ table.AtomTable[i].refcnt = held[i][s]
                              /\ table.AtomTable[i].q = Hash[s]
                              /\ table.AtomData = [table.AtomData EXCEPT ![table.AtomTable[i].idx] = s]
           /\ ~HasString(i) => table.AtomTable[i].refcnt > 0 /\ table.AtomTable[i].q = s
           /\ \A j \in Entries : Matches(table, j, s) => j = i
<1>1. /\ i \in Index /\ held \in [Index -> [Key -> Nat]] /\ table.AtomTable[i] \in ATOMENTRY
  BY SMTT(30), BoundAssumption DEF IInv, TypeOK, Index, Entries
<1>2. \A r \in Key \ {s} : held[i][r] = 0
  BY <1>1 DEF IInv, HeldCalled
<1>3. \A j \in Entries : Matches(table, j, s) => j = i
  BY MatchesCalled DEF IInv, OneAtom
<1>4. ASSUME HasString(i)
      PROVE  /\ s \in Name /\ Size[s] <= table.AtomTable[i].idsize
             /\ table.AtomTable[i].refcnt = held[i][s]
             /\ table.AtomTable[i].q = Hash[s]
             /\ table.AtomData = [table.AtomData EXCEPT ![table.AtomTable[i].idx] = s]
  BY <1>4 DEF Called, Text, IInv, StringsApart, TypeOK, CountsHolders
<1>5. ~HasString(i) => table.AtomTable[i].refcnt > 0 /\ table.AtomTable[i].q = s
  BY DEF Called, IInv, IntegersStay
<1> QED
  BY <1>1, <1>2, <1>3, <1>4, <1>5

\* One more holder of an atom, counted by its entry; an integer atom may also
\* leave it uncounted.
LEMMA CountedKeeps ==
    ASSUME IInv, NEW i \in Entries, NEW s \in Key, table.AtomTable[i].q # 0, Called(i) = s,
           \/ table' = [table EXCEPT !.AtomTable =
                            [table.AtomTable EXCEPT ![i].refcnt = @ + 1]]
           \/ ~HasString(i) /\ table' = table,
           held' = [held EXCEPT ![i][s] = @ + 1]
    PROVE  IInv' /\ CalledNow(i, s)
<1> DEFINE T == table.AtomTable
<1>1. /\ T \in [Entries -> ATOMENTRY] /\ held \in [Index -> [Key -> Nat]]
      /\ i \in Index /\ held[i][s] \in Nat /\ T[i] \in ATOMENTRY
  BY HeldEntry DEF IInv, TypeOK
<1>2. /\ table'.AtomData = table.AtomData
      /\ table'.TableSize = table.TableSize /\ table'.DataSize = table.DataSize
      /\ Shape'
      /\ table'.AtomTable = T \/ table'.AtomTable = [T EXCEPT ![i].refcnt = @ + 1]
      /\ HasString(i) => table'.AtomTable = [T EXCEPT ![i].refcnt = @ + 1]
  BY DEF IInv, Shape
<1>3. /\ table'.AtomTable \in [Entries -> ATOMENTRY]
      /\ \A j \in Entries \ {i} : table'.AtomTable[j] = T[j]
      /\ table'.AtomTable[i] = T[i] \/ table'.AtomTable[i] = [T[i] EXCEPT !.refcnt = @ + 1]
      /\ HasString(i) => table'.AtomTable[i] = [T[i] EXCEPT !.refcnt = @ + 1]
  <2>1. [T[i] EXCEPT !.refcnt = @ + 1] \in ATOMENTRY
    BY <1>1 DEF ATOMENTRY
  <2>2. CASE table'.AtomTable = T /\ ~HasString(i)
    BY <1>1, <2>2
  <2>3. CASE table'.AtomTable = [T EXCEPT ![i].refcnt = @ + 1]
    <3>1. table'.AtomTable = [T EXCEPT ![i] = [T[i] EXCEPT !.refcnt = @ + 1]]
      BY <2>3
    <3> QED
      BY <1>1, <2>1, <3>1
  <2> QED
    BY <1>2, <2>2, <2>3
<1>4. PICK n \in Nat : n = held[i][s] + 1
  BY <1>1
<1>5. /\ table'.AtomTable[i].idx = T[i].idx /\ table'.AtomTable[i].idsize = T[i].idsize
      /\ table'.AtomTable[i].q = T[i].q
      /\ table'.AtomTable[i].refcnt >= T[i].refcnt
      /\ HasString(i) => table'.AtomTable[i].refcnt = T[i].refcnt + 1
  BY <1>1, <1>3 DEF ATOMENTRY
<1>6. /\ \A r \in Key \ {s} : held[i][r] = 0
      /\ \A j \in Entries : Matches(table, j, s) => j = i
      /\ held' = [held EXCEPT ![i][s] = n]
  BY <1>4, HeldEntry
<1>7. HasString(i) => EditedString(i, s, n)
  BY <1>2, <1>4, <1>5, HeldEntry DEF EditedString
<1>8. ~HasString(i) => EditedInteger(i, s)
  <2>1. ~HasString(i) => T[i].refcnt > 0 /\ T[i].q = s
    BY HeldEntry
  <2>2. T[i].refcnt \in Int /\ table'.AtomTable[i].refcnt \in Int
    BY <1>1, <1>3 DEF ATOMENTRY
  <2> QED
    BY <1>2, <1>5, <2>1, <2>2 DEF EditedInteger
<1>9. EditedEntry(i, s, n)
  BY <1>2, <1>3, <1>5, <1>6 DEF EditedEntry
<1> QED
  BY <1>7, <1>8, <1>9, OneEntry

\* An entry that someone holds is in use.
LEMMA HeldInUse ==
    ASSUME IInv, NEW i \in Index, NEW s \in Key, held[i][s] > 0
    PROVE  table.AtomTable[i].q # 0
<1>1. i \in Entries /\ s = Called(i)
  BY DEF IInv, HeldCalled
<1>2. ~HasString(i) => table.AtomTable[i].q \in Number
  BY <1>1 DEF IInv, StringsApart
<1>3. HasString(i) => s = Text(i) /\ s \in Name /\ Hash[s] # 0
  BY <1>1, NameAssumption DEF IInv, TypeOK, StringsApart, Called, Text
<1>4. HasString(i) => table.AtomTable[i].q = Hash[s]
  <2>1. held \in [Index -> [Key -> Nat]]
    BY DEF IInv, TypeOK
  <2> QED
    BY <1>1, <1>3, <2>1 DEF IInv, CountsHolders
<1> QED
  BY <1>2, <1>3, <1>4, NameAssumption

\* The free entry that is chosen for a string is one of those with room for it.
LEMMA TightestRoom ==
    ASSUME IInv, NEW s \in Key, Room(table, s) # {}
    PROVE  Min(Tightest(table, Room(table, s))) \in Room(table, s)
<1> DEFINE R == Room(table, s)
           sizes == {table.AtomTable[i].idsize : i \in R}
<1>1. R \subseteq Entries /\ R \subseteq Nat /\ R # {}
  BY AllReached DEF Room, Entries
<1>2. \A i \in R : table.AtomTable[i] \in ATOMENTRY
  BY <1>1 DEF IInv, TypeOK
<1>3. sizes \subseteq Nat /\ sizes # {}
  BY <1>1, <1>2 DEF ATOMENTRY
<1>4. Min(sizes) \in sizes /\ \A n \in sizes : Min(sizes) <= n
  <2> HIDE DEF sizes
  <2> QED
    BY <1>3, MinNat
<1>5. PICK i \in R : table.AtomTable[i].idsize = Min(sizes)
  BY <1>4
<1>6. \A j \in R : table.AtomTable[i].idsize <= table.AtomTable[j].idsize
  BY <1>4, <1>5
<1>7. i \in Tightest(table, R) /\ Tightest(table, R) \subseteq R
  BY <1>6 DEF Tightest
<1>8. Tightest(table, R) \subseteq Nat /\ Tightest(table, R) # {}
  BY <1>1, <1>7
<1>9. Min(Tightest(table, R)) \in Tightest(table, R)
  <2> HIDE DEF R
  <2> DEFINE S == Tightest(table, R)
  <2>1. S \subseteq Nat /\ S # {}
    BY <1>8
  <2> HIDE DEF S
  <2>2. Min(S) \in S
    BY <2>1, MinNat
  <2> QED
    BY <2>2 DEF S
<1> QED
  BY <1>7, <1>9

\* A new hash and a new count keep the type of an entry.
LEMMA EntryEdited ==
    ASSUME NEW e \in ATOMENTRY, NEW q \in Nat, NEW n \in Int
    PROVE  /\ [e EXCEPT !.q = q, !.refcnt = n] \in ATOMENTRY
           /\ [e EXCEPT !.refcnt = n, !.q = q] \in ATOMENTRY
<1>1. [e EXCEPT !.q = q] \in ATOMENTRY /\ [e EXCEPT !.refcnt = n] \in ATOMENTRY
  BY DEF ATOMENTRY
<1>2. /\ [[e EXCEPT !.q = q] EXCEPT !.refcnt = n] \in ATOMENTRY
      /\ [[e EXCEPT !.refcnt = n] EXCEPT !.q = q] \in ATOMENTRY
  <2>1. \A f \in ATOMENTRY : [f EXCEPT !.refcnt = n] \in ATOMENTRY /\ [f EXCEPT !.q = q] \in ATOMENTRY
    BY DEF ATOMENTRY
  <2> QED
    BY <1>1, <2>1
<1> QED
  BY <1>2

\* A free entry gets a string that fits it.
LEMMA RefilledKeeps ==
    ASSUME IInv, NEW i \in Entries, NEW s \in Name,
           Free(table, i), table.AtomTable[i].idsize > Size[s],
           \A j \in Entries : ~Matches(table, j, s),
           table' = Refill(table, i, s), held' = [held EXCEPT ![i][s] = @ + 1]
    PROVE  IInv' /\ CalledNow(i, s)
<1> DEFINE T == table.AtomTable
<1>1. /\ T \in [Entries -> ATOMENTRY] /\ held \in [Index -> [Key -> Nat]]
      /\ i \in Index /\ s \in Key /\ T[i] \in ATOMENTRY
  <2>1. Entries \subseteq Index
    BY BoundAssumption DEF IInv, TypeOK, Index, Entries
  <2> QED
    BY <2>1 DEF IInv, TypeOK, Key
<1>2. /\ AtomHashString(s) = Hash[s] /\ Hash[s] \in Nat /\ Size[s] \in Nat
  <2>1. AtomHashString(s) = Hash[s] /\ AtomHashString(s) \in Nat /\ atomlen(s) = Size[s]
        /\ atomlen(s) \in Nat
    BY <1>1, HashOf, NameAssumption, BoundAssumption, DistinctAssumption DEF Types
  <2> QED
    BY <2>1
<1>3. HasString(i)
  BY <1>1, <1>2 DEF HasString, ATOMENTRY
<1>4. \A r \in Key : held[i][r] = 0
  <2>1. held[i][Text(i)] = 0
    BY <1>3 DEF IInv, CountsHolders, Free
  <2>2. \A r \in Key : held[i][r] > 0 => r = Text(i)
    BY <1>1, <1>3 DEF IInv, HeldCalled, Called
  <2> QED
    BY <1>1, <2>1, <2>2
<1>5. /\ table'.AtomData = [table.AtomData EXCEPT ![T[i].idx] = s]
      /\ table'.TableSize = table.TableSize /\ table'.DataSize = table.DataSize
      /\ Shape'
      /\ table'.AtomTable = [T EXCEPT ![i].q = Hash[s], ![i].refcnt = 1]
  BY <1>2 DEF IInv, Shape, Refill
<1>6. /\ table'.AtomTable \in [Entries -> ATOMENTRY]
      /\ \A j \in Entries \ {i} : table'.AtomTable[j] = T[j]
      /\ table'.AtomTable[i] = [T[i] EXCEPT !.q = Hash[s], !.refcnt = 1]
  <2>1. [T[i] EXCEPT !.q = Hash[s], !.refcnt = 1] \in ATOMENTRY
    <3>1. Hash[s] \in Nat /\ 1 \in Int
      BY <1>2
    <3>2. \A q \in Nat, n \in Int : [T[i] EXCEPT !.q = q, !.refcnt = n] \in ATOMENTRY
      BY <1>1, EntryEdited
    <3> QED
      BY <3>1, <3>2
  <2>2. table'.AtomTable = [T EXCEPT ![i] = [T[i] EXCEPT !.q = Hash[s], !.refcnt = 1]]
    BY <1>1, <1>5
  <2> QED
    BY <1>1, <2>1, <2>2
<1>7. /\ table'.AtomTable[i].q = Hash[s] /\ table'.AtomTable[i].refcnt = 1
      /\ table'.AtomTable[i].idx = T[i].idx /\ table'.AtomTable[i].idsize = T[i].idsize
  BY <1>1, <1>6 DEF ATOMENTRY
<1>8. held' = [held EXCEPT ![i][s] = 1]
  <2>1. held[i][s] + 1 = 1
    BY <1>1, <1>4
  <2>2. held' = [held EXCEPT ![i][s] = held[i][s] + 1]
    OBVIOUS
  <2> QED
    BY <2>1, <2>2
<1>9. EditedEntry(i, s, 1)
  BY <1>4, <1>5, <1>6, <1>7, <1>8 DEF EditedEntry
<1>10. EditedString(i, s, 1)
  BY <1>1, <1>2, <1>5, <1>7 DEF EditedString, ATOMENTRY
<1> QED
  BY <1>1, <1>3, <1>9, <1>10, OneEntry

\* An atom that is given back loses a holder, a string without holders its hash.
LEMMA DeletedKeeps ==
    ASSUME IInv, NEW i \in Index, NEW s \in Key, DeleteAtom(i, s)
    PROVE  IInv' /\ CalledNow(i, s)
<1> DEFINE T == table.AtomTable
<1>1. /\ T \in [Entries -> ATOMENTRY] /\ held \in [Index -> [Key -> Nat]]
      /\ i \in Entries /\ s = Called(i) /\ T[i] \in ATOMENTRY
  BY DEF IInv, TypeOK, HeldCalled, DeleteAtom
<1>2. T[i].q # 0
  BY <1>1, HeldInUse DEF DeleteAtom
<1>3. PICK n \in Nat : n = held[i][s] - 1
  BY <1>1 DEF DeleteAtom
<1>4. held' = [held EXCEPT ![i][s] = n] /\ table' = DeleteAtomEx(table, i) /\ IsAtom(table, i)
  BY <1>1, <1>3, AllReached DEF DeleteAtom
<1> DEFINE left == IF HasString(i) THEN T[i].refcnt - 1 ELSE T[i].refcnt
           q == IF left = 0 THEN 0 ELSE T[i].q
<1>5. /\ table'.AtomData = table.AtomData
      /\ table'.TableSize = table.TableSize /\ table'.DataSize = table.DataSize
      /\ Shape'
      /\ table'.AtomTable = [T EXCEPT ![i].refcnt = left, ![i].q = q]
  <2>1. T[i].idsize # 0 <=> HasString(i)
    BY <1>1 DEF HasString, ATOMENTRY
  <2> QED
    BY <1>4, <2>1 DEF IInv, Shape, DeleteAtomEx
<1>6. /\ table'.AtomTable \in [Entries -> ATOMENTRY]
      /\ \A j \in Entries \ {i} : table'.AtomTable[j] = T[j]
      /\ table'.AtomTable[i] = [T[i] EXCEPT !.refcnt = left, !.q = q]
  <2>1. [T[i] EXCEPT !.refcnt = left, !.q = q] \in ATOMENTRY
    <3>1. left \in Int /\ q \in Nat
      BY <1>1 DEF ATOMENTRY
    <3> QED
      BY <1>1, <3>1, EntryEdited
  <2>2. table'.AtomTable = [T EXCEPT ![i] = [T[i] EXCEPT !.refcnt = left, !.q = q]]
    BY <1>1, <1>5
  <2> QED
    BY <1>1, <2>1, <2>2
<1>7. /\ table'.AtomTable[i].q = q /\ table'.AtomTable[i].refcnt = left
      /\ table'.AtomTable[i].idx = T[i].idx /\ table'.AtomTable[i].idsize = T[i].idsize
  BY <1>1, <1>6 DEF ATOMENTRY
<1>8. /\ \A r \in Key \ {s} : held[i][r] = 0
      /\ \A j \in Entries : Matches(table, j, s) => j = i
  BY <1>1, <1>2, HeldEntry
<1>9. EditedEntry(i, s, n)
  BY <1>4, <1>5, <1>6, <1>7, <1>8 DEF EditedEntry
<1>10. HasString(i) => EditedString(i, s, n)
  BY <1>1, <1>2, <1>3, <1>5, <1>7, HeldEntry DEF EditedString
<1>11. ~HasString(i) => EditedInteger(i, s)
  <2>1. ~HasString(i) => T[i].refcnt > 0 /\ T[i].q = s
    BY <1>1, <1>2, HeldEntry
  <2> QED
    BY <1>5, <1>7, <2>1 DEF EditedInteger
<1> QED
  BY <1>1, <1>9, <1>10, <1>11, OneEntry

\* A new entry comes after the others, and so does its string.
LEMMA ExtendedKeeps ==
    ASSUME IInv, NEW s \in Key, NEW i \in Index, i = table.TableSize,
           \A j \in Entries : ~Matches(table, j, s),
           table' = Extend(table, s), held' = [held EXCEPT ![i][s] = @ + 1]
    PROVE  IInv' /\ CalledNow(i, s)
<1> DEFINE T == table.AtomTable
           D == table.AtomData
           new == [q |-> AtomHashString(s), refcnt |-> 1, idsize |-> atomlen(s),
                   idx |-> IF s \in Number THEN 0 ELSE table.DataSize]
<1>1. /\ T \in [Entries -> ATOMENTRY] /\ D \in [DOMAIN D -> Name] /\ DOMAIN D \subseteq Nat
      /\ held \in [Index -> [Key -> Nat]] /\ i \in Nat /\ table.DataSize \in Nat
      /\ i \notin Entries /\ i + 1 \in 0 .. MaxTable
  BY SMTT(30), BoundAssumption DEF IInv, TypeOK, Index, Entries
<1>2. /\ AtomHashString(s) \in Nat \ {0} /\ atomlen(s) \in Nat
      /\ s \in Name => /\ s \notin Number /\ atomlen(s) = Size[s] /\ atomlen(s) > 0
                       /\ AtomHashString(s) = Hash[s]
      /\ s \in Number => AtomHashString(s) = s /\ atomlen(s) = 0
  <2>1. s \in Number => atomlen(s) = 0
    BY DEF atomlen
  <2> QED
    BY <2>1, HashOf, NameAssumption, BoundAssumption, DistinctAssumption DEF Types
<1>3. /\ table'.AtomTable = [j \in 0 .. i |-> IF j = i THEN new ELSE T[j]]
      /\ table'.AtomData = IF s \in Number THEN D
                           ELSE [x \in DOMAIN D \cup {table.DataSize} |->
                                    IF x = table.DataSize THEN s ELSE D[x]]
      /\ table'.TableSize = i + 1 /\ table'.DataSize = table.DataSize + atomlen(s)
      /\ Shape'
  BY DEF Extend, Shape
<1>4. Entries' = Entries \cup {i} /\ 0 .. i = Entries \cup {i}
  BY <1>1, <1>3 DEF Entries
<1>5. /\ new \in ATOMENTRY
      /\ table'.AtomTable \in [Entries' -> ATOMENTRY]
      /\ table'.AtomTable[i] = new /\ \A j \in Entries : table'.AtomTable[j] = T[j]
  <2>1. new \in ATOMENTRY
    BY <1>1, <1>2 DEF ATOMENTRY
  <2> HIDE DEF new
  <2> QED
    BY <1>1, <1>3, <1>4, <2>1
<1>6. /\ table'.AtomData \in [DOMAIN table'.AtomData -> Name]
      /\ DOMAIN table'.AtomData \subseteq Nat /\ DOMAIN D \subseteq DOMAIN table'.AtomData
      /\ \A x \in DOMAIN D : x # table.DataSize => table'.AtomData[x] = D[x]
      /\ s \notin Number => /\ table.DataSize \in DOMAIN table'.AtomData
                            /\ table'.AtomData[table.DataSize] = s
  BY <1>1, <1>3 DEF Key
<1>7. \A r \in Key : held[i][r] = 0
  BY <1>1 DEF IInv, HeldCalled
<1>8. /\ held' \in [Index -> [Key -> Nat]] /\ held'[i][s] = 1
      /\ \A r \in Key \ {s} : held'[i][r] = 0
      /\ \A j \in Index \ {i} : held'[j] = held[j]
  BY <1>1, <1>7
<1>9. TypeOK'
  <2>1. table'.TableSize \in 0 .. MaxTable /\ table'.DataSize \in Nat
    BY <1>1, <1>2, <1>3
  <2> HIDE DEF T, D, new
  <2> QED
    BY <1>5, <1>6, <1>8, <2>1 DEF TypeOK
<1>10. \A j \in Entries : /\ HasString(j)' <=> HasString(j)
                          /\ HasString(j) => /\ T[j].idx \in DOMAIN table'.AtomData
                                             /\ Text(j)' = Text(j)
  <2> TAKE j \in Entries
  <2>1. HasString(j)' <=> HasString(j)
    BY <1>5 DEF HasString
  <2>2. ASSUME HasString(j)
        PROVE  T[j].idx \in DOMAIN D /\ T[j].idx # table.DataSize
    BY <1>1, <2>2 DEF IInv, StringsApart, HasString, ATOMENTRY
  <2> QED
    BY <1>5, <1>6, <2>1, <2>2 DEF Text
<1>11. /\ HasString(i)' <=> s \in Name
       /\ s \in Name => Text(i)' = s
       /\ Called(i)' = s
  <2>1. s \in Name <=> atomlen(s) > 0
    BY <1>2 DEF Key
  <2>2. HasString(i)' <=> s \in Name
    BY <1>5, <2>1 DEF HasString
  <2>3. s \in Name => Text(i)' = s
    BY <1>2, <1>5, <1>6 DEF Text
  <2> QED
    BY <1>2, <1>5, <2>2, <2>3 DEF Called, Key
<1>12. StringsApart'
  <2>1. ASSUME NEW j \in Entries'
        PROVE  LET e == table'.AtomTable[j] IN
               IF HasString(j)' THEN /\ e.idx \in DOMAIN table'.AtomData
                                     /\ e.idx + e.idsize <= table'.DataSize
                                     /\ Size[Text(j)'] <= e.idsize
               ELSE e.idx = 0 /\ e.q \in Number
    <3>1. CASE j \in Entries
      <4>1. table'.AtomTable[j] = T[j] /\ T[j] \in ATOMENTRY
        BY <1>1, <1>5, <3>1
      <4>2. HasString(j)' => /\ T[j].idx \in DOMAIN table'.AtomData
                             /\ T[j].idx + T[j].idsize <= table.DataSize
                             /\ Size[Text(j)'] <= T[j].idsize
        BY <1>10, <3>1 DEF IInv, StringsApart
      <4>3. ~HasString(j)' => T[j].idx = 0 /\ T[j].q \in Number
        BY <1>10, <3>1 DEF IInv, StringsApart
      <4>4. T[j].idx + T[j].idsize \in Nat /\ table.DataSize <= table'.DataSize
            /\ table.DataSize \in Nat /\ table'.DataSize \in Nat
        <5>1. T[j].idx \in Nat /\ T[j].idsize \in Nat
          BY <4>1 DEF ATOMENTRY
        <5> HIDE DEF T
        <5> QED
          BY SMTT(30), <1>1, <1>2, <1>3, <5>1
      <4>5. HasString(j)' => T[j].idx + T[j].idsize <= table'.DataSize
        BY <4>2, <4>4
      <4> QED
        BY <4>1, <4>2, <4>3, <4>5
    <3>2. CASE j = i
      BY <1>1, <1>2, <1>3, <1>5, <1>6, <1>11, <3>2 DEF Key
    <3> QED
      BY <1>4, <3>1, <3>2
  <2>2. ASSUME NEW j \in Entries', NEW k \in Entries', j # k, HasString(j)', HasString(k)'
        PROVE  \/ table'.AtomTable[j].idx + table'.AtomTable[j].idsize <= table'.AtomTable[k].idx
               \/ table'.AtomTable[k].idx + table'.AtomTable[k].idsize <= table'.AtomTable[j].idx
    <3>1. CASE j \in Entries /\ k \in Entries
      BY <1>5, <1>10, <2>2, <3>1 DEF IInv, StringsApart
    <3>2. \A m \in Entries : HasString(m)' => T[m].idx + T[m].idsize <= table.DataSize
      BY <1>10 DEF IInv, StringsApart
    <3>3. HasString(i)' => table'.AtomTable[i].idx = table.DataSize
      BY <1>2, <1>5, <1>11
    <3> QED
      BY <1>4, <1>5, <2>2, <3>1, <3>2, <3>3
  <2> QED
    BY <2>1, <2>2 DEF StringsApart
<1>13. CountsHolders'
  <2>1. ASSUME NEW j \in Entries, HasString(j)'
        PROVE  /\ table'.AtomTable[j].refcnt = held'[j][Text(j)']
               /\ table'.AtomTable[j].q = IF table'.AtomTable[j].refcnt = 0 THEN 0 ELSE Hash[Text(j)']
    <3>1. j \in Index \ {i}
      BY <1>1, BoundAssumption DEF Entries, Index
    <3> QED
      BY <1>5, <1>8, <1>10, <2>1, <3>1 DEF IInv, CountsHolders
  <2>2. HasString(i)' => /\ table'.AtomTable[i].refcnt = held'[i][Text(i)']
                         /\ table'.AtomTable[i].q = Hash[Text(i)'] /\ table'.AtomTable[i].refcnt = 1
    BY <1>2, <1>5, <1>8, <1>11
  <2> QED
    BY <1>4, <2>1, <2>2 DEF CountsHolders
<1>14. \A j \in Entries : Called(j)' = Called(j)
  BY <1>5, <1>10 DEF Called
<1>15. HeldCalled'
  BY <1>4, <1>8, <1>11, <1>14 DEF IInv, HeldCalled
<1>16. IntegersStay'
  BY <1>4, <1>5, <1>10 DEF IInv, IntegersStay
<1>17. OneAtom'
  <2>1. \A j \in Entries : T[j].q # 0 => Called(j) # s
    BY MatchesCalled
  <2> QED
    BY <1>4, <1>5, <1>11, <1>14, <2>1 DEF IInv, OneAtom
<1>18. CalledNow(i, s)
  BY <1>1, <1>4, <1>5, <1>11, <1>14 DEF CalledNow
<1> QED
  BY <1>3, <1>9, <1>12, <1>13, <1>15, <1>16, <1>17, <1>18 DEF IInv

\* An addition, however it is made, keeps the invariant.
LEMMA AddKeeps ==
    ASSUME IInv, NEW s \in Key, AddAtom(s)
    PROVE  /\ IInv'
           /\ \E i \in Index :
                /\ i = AddedAt(table, s) /\ CalledNow(i, s)
                /\ i \in Entries /\ table.AtomTable[i].q # 0 => Called(i) = s
<1> DEFINE T == table.AtomTable
<1>1. PICK i \in Index : /\ i = AddedAt(table, s)
                         /\ table' = AddAtomEx(table, s) /\ held' = [held EXCEPT ![i][s] = @ + 1]
  BY DEF AddAtom
<1>2. CASE FindAtomEx(table, s) # None
  <2>1. i = FindAtomEx(table, s) /\ i \in Entries /\ Matches(table, i, s)
    BY <1>1, <1>2, SearchFinds DEF AddedAt
  <2>2. table' = Another(table, i) /\ T[i].q # 0 /\ Called(i) = s
    BY <1>1, <1>2, <2>1, MatchesCalled DEF AddAtomEx
  <2>3. T[i] \in ATOMENTRY
    BY <2>1 DEF IInv, TypeOK
  <2>4. \/ table' = [table EXCEPT !.AtomTable = [T EXCEPT ![i].refcnt = @ + 1]]
        \/ ~HasString(i) /\ table' = table
    BY <2>2, <2>3 DEF Another, HasString, ATOMENTRY
  <2> QED
    BY <1>1, <2>1, <2>2, <2>4, CountedKeeps
<1>3. CASE FindAtomEx(table, s) = None
  <2>1. \A j \in Entries : ~Matches(table, j, s)
    <3>1. \A j \in Entries : j # None
      BY DEF Entries, None, IInv, TypeOK
    <3> QED
      BY <1>3, <3>1, SearchFinds
  <2>2. CASE s \notin Number /\ Room(table, s) # {}
    <3>1. i = Min(Tightest(table, Room(table, s))) /\ table' = Refill(table, i, s)
      BY <1>1, <1>3, <2>2 DEF AddedAt, AddAtomEx
    <3>2. i \in Room(table, s)
      BY <3>1, <2>2, TightestRoom
    <3>3. i \in Entries /\ Free(table, i) /\ T[i].idsize > atomlen(s)
      BY <3>2, AllReached DEF Room
    <3>4. s \in Name /\ atomlen(s) = Size[s]
      BY <2>2 DEF Key, atomlen
    <3> QED
      BY <1>1, <2>1, <3>1, <3>3, <3>4, RefilledKeeps DEF Free
  <2>3. CASE ~(s \notin Number /\ Room(table, s) # {})
    <3>1. i = table.TableSize /\ table' = Extend(table, s)
      BY <1>1, <1>3, <2>3 DEF AddedAt, AddAtomEx
    <3>2. i \notin Entries
      BY <3>1 DEF Entries, IInv, TypeOK
    <3> QED
      BY <1>1, <2>1, <3>1, <3>2, ExtendedKeeps
  <2> QED
    BY <2>2, <2>3
<1> QED
  BY <1>2, <1>3

\* So does a lock.
LEMMA LockKeeps ==
    ASSUME IInv, NEW i \in Index, NEW s \in Key, LockAtom(i, s)
    PROVE  IInv' /\ CalledNow(i, s)
<1>1. i \in Entries /\ s = Called(i) /\ IsAtom(table, i)
  BY AllReached DEF IInv, HeldCalled, LockAtom
<1>2. table.AtomTable[i].q # 0
  BY <1>1, HeldInUse DEF LockAtom
<1>3. /\ table' = [table EXCEPT !.AtomTable = [table.AtomTable EXCEPT ![i].refcnt = @ + 1]]
      /\ held' = [held EXCEPT ![i][s] = @ + 1]
  BY <1>1 DEF LockAtom, LockAtomEx
<1> QED
  BY <1>1, <1>2, <1>3, CountedKeeps

----------------------------------------------------------------------------
\* The invariant

LEMMA InitHolds == Init => IInv
<1> SUFFICES ASSUME Init PROVE IInv
  OBVIOUS
<1>1. /\ table.TableSize = 0 /\ table.DataSize = 0 /\ Entries = {}
      /\ table.AtomTable = NoEntries /\ table.AtomData = NoEntries /\ Shape
  BY DEF Init, EmptyTable, Entries, Shape
<1>2. NoEntries = [i \in {} |-> i] /\ DOMAIN NoEntries = {}
  BY DEF NoEntries
<1>3. TypeOK
  BY <1>1, <1>2, BoundAssumption DEF Init, TypeOK
<1>4. StringsApart /\ CountsHolders /\ IntegersStay /\ OneAtom
  BY <1>1 DEF StringsApart, CountsHolders, IntegersStay, OneAtom
<1>5. HeldCalled
  BY DEF Init, HeldCalled
<1> QED
  BY <1>1, <1>3, <1>4, <1>5 DEF IInv

\* Every step keeps it.
LEMMA Inductive == IInv /\ [Next]_vars => IInv'
<1> SUFFICES ASSUME IInv, [Next]_vars
             PROVE  IInv'
  OBVIOUS
<1>1. ASSUME NEW s \in Key, AddAtom(s) PROVE IInv'
  BY <1>1, AddKeeps
<1>2. ASSUME NEW i \in Index, NEW s \in Key, LockAtom(i, s) PROVE IInv'
  BY <1>2, LockKeeps
<1>3. ASSUME NEW i \in Index, NEW s \in Key, DeleteAtom(i, s) PROVE IInv'
  BY <1>3, DeletedKeeps
<1>4. CASE UNCHANGED vars
  BY <1>4 DEF vars, IInv, Shape, TypeOK, StringsApart, CountsHolders, HeldCalled, IntegersStay,
              OneAtom, Called, HasString, Text, Entries
<1> QED
  BY <1>1, <1>2, <1>3, <1>4 DEF Next

\* The table of atoms always has the invariant: its strings lie apart, its counts are
\* those of the holders, and no name has two entries.
THEOREM Invariant == Spec => []IInv
BY InitHolds, Inductive, PTL DEF Spec

----------------------------------------------------------------------------
\* The theorems

\* Every variable keeps its type.
THEOREM TypeCorrect == Spec => []TypeOK
<1>1. IInv => TypeOK
  BY DEF IInv
<1> QED
  BY <1>1, Invariant, PTL

\* Strings never run into each other in AtomData, whichever entries are used again.
THEOREM StringsKeptApart == Spec => []StringsApart
<1>1. IInv => StringsApart
  BY DEF IInv
<1> QED
  BY <1>1, Invariant, PTL

\* The count of an entry is the number of those who hold it.
THEOREM HoldersCounted == Spec => []CountsHolders
<1>1. IInv => CountsHolders
  BY DEF IInv
<1> QED
  BY <1>1, Invariant, PTL

\* An atom stands for the string it was given for as long as anyone holds it.
THEOREM HeldAtomsStay == Spec => []HeldNamesString
<1>1. ASSUME IInv, NEW i \in Index, NEW s \in Key, held[i][s] > 0
      PROVE  GetAtomNameEx(table, i) = s /\ FindAtomEx(table, s) = i
  <2>1. i \in Entries /\ s = Called(i) /\ table.AtomTable[i].q # 0
    BY <1>1, HeldInUse DEF IInv, HeldCalled
  <2>2. table.AtomTable[i] \in ATOMENTRY
    BY <1>1, <2>1 DEF IInv, TypeOK
  <2>3. GetAtomNameEx(table, i) = s
    BY <1>1, <2>1, <2>2, AllReached DEF GetAtomNameEx, Called, HasString, Text, ATOMENTRY
  <2>4. FindAtomEx(table, s) = i
    BY <1>1, <2>1, MatchesCalled, SearchFinds
  <2> QED
    BY <2>3, <2>4
<1>2. IInv => HeldNamesString
  BY <1>1 DEF HeldNamesString
<1> QED
  BY <1>2, Invariant, PTL

----------------------------------------------------------------------------
\* The store

InUse(s) == \E i \in Entries : table.AtomTable[i].q # 0 /\ Called(i) = s
atomBar(s) == FindAtomEx(table, s)
countBar(s) == LET i == FindAtomEx(table, s) IN
               IF i = None THEN 0 ELSE IF HasString(i) THEN table.AtomTable[i].refcnt ELSE 1

\* What the store sees of the table.
StoreView ==
    \A s \in Key :
      /\ \A i \in Entries : atomBar(s) = i <=> table.AtomTable[i].q # 0 /\ Called(i) = s
      /\ atomBar(s) \in Entries \cup {None}
      /\ countBar(s) = IF atomBar(s) = None THEN 0
                       ELSE IF s \in Name THEN held[atomBar(s)][s] ELSE 1
      /\ atomBar(s) # None => countBar(s) > 0

\* A string that is called so by an entry is a string, an integer an integer.
CalledKinds ==
    \A i \in Entries :
       /\ HasString(i) => Called(i) \in Name /\ Called(i) \notin Number
       /\ ~HasString(i) => Called(i) \in Number /\ Called(i) \notin Name
       /\ HasString(i) => (table.AtomTable[i].q # 0 <=> held[i][Called(i)] > 0)
       /\ ~HasString(i) => table.AtomTable[i].q # 0

\* The invariant tells strings from integers.
LEMMA Kinds == IInv => CalledKinds
<1> SUFFICES ASSUME IInv, NEW i \in Entries
             PROVE  /\ HasString(i) => Called(i) \in Name /\ Called(i) \notin Number
                    /\ ~HasString(i) => Called(i) \in Number /\ Called(i) \notin Name
                    /\ HasString(i) => (table.AtomTable[i].q # 0 <=> held[i][Called(i)] > 0)
                    /\ ~HasString(i) => table.AtomTable[i].q # 0
  BY DEF CalledKinds
<1>1. CASE HasString(i)
  <2>1. Called(i) = Text(i) /\ Text(i) \in Name /\ Hash[Text(i)] # 0 /\ Text(i) \notin Number
    BY <1>1, NameAssumption DEF IInv, TypeOK, StringsApart, Called, Text
  <2>2. i \in Index /\ held[i][Text(i)] \in Nat
    BY <2>1, BoundAssumption DEF IInv, TypeOK, Entries, Index, Key
  <2> QED
    BY <1>1, <2>1, <2>2 DEF IInv, CountsHolders
<1>2. CASE ~HasString(i)
  <2>1. table.AtomTable[i].q \in Number
    BY <1>2 DEF IInv, StringsApart
  <2> QED
    BY <1>2, <2>1, NameAssumption DEF Called
<1> QED
  BY <1>1, <1>2

\* A search of the table looks an atom up in the store.
LEMMA Views == IInv => StoreView
<1> SUFFICES ASSUME IInv, NEW s \in Key
             PROVE  /\ \A i \in Entries : atomBar(s) = i <=> table.AtomTable[i].q # 0 /\ Called(i) = s
                    /\ atomBar(s) \in Entries \cup {None}
                    /\ countBar(s) = IF atomBar(s) = None THEN 0
                                     ELSE IF s \in Name THEN held[atomBar(s)][s] ELSE 1
                    /\ atomBar(s) # None => countBar(s) > 0
  BY DEF StoreView
<1>0. CalledKinds
  BY Kinds
<1>1. \A i \in Entries : i # None
  BY DEF Entries, None, IInv, TypeOK
<1>2. \A i \in Entries : Matches(table, i, s) <=> table.AtomTable[i].q # 0 /\ Called(i) = s
  BY MatchesCalled
<1>3. \A i \in Entries : atomBar(s) = i <=> table.AtomTable[i].q # 0 /\ Called(i) = s
  BY <1>1, <1>2, SearchFinds DEF atomBar
<1>4. atomBar(s) \in Entries \cup {None}
  BY SearchFinds DEF atomBar
<1>5. ASSUME NEW i \in Entries, atomBar(s) = i
      PROVE  /\ countBar(s) = IF s \in Name THEN held[i][s] ELSE 1
             /\ countBar(s) > 0
  <2>1. table.AtomTable[i].q # 0 /\ Called(i) = s
    BY <1>3, <1>5
  <2>2. HasString(i) <=> s \in Name
    BY <1>0, <2>1 DEF CalledKinds
  <2>3. HasString(i) => held[i][s] > 0
    <3>1. HasString(i) => (table.AtomTable[i].q # 0 <=> held[i][Called(i)] > 0)
      BY <1>0 DEF CalledKinds
    <3> QED
      BY <2>1, <3>1
  <2>4. HasString(i) => table.AtomTable[i].refcnt = held[i][s]
    BY <2>1 DEF IInv, CountsHolders, Called
  <2> QED
    BY <1>1, <1>5, <2>2, <2>3, <2>4 DEF countBar, atomBar
<1>6. atomBar(s) = None => countBar(s) = 0
  BY DEF countBar, atomBar
<1> QED
  BY <1>3, <1>4, <1>5, <1>6

\* A step that makes one entry be called s, and changes who holds it by one,
\* is a step of the store or none.
LEMMA StoreStep ==
    ASSUME IInv, IInv', NEW i \in Index, NEW s \in Key, CalledNow(i, s),
           FindAtomEx(table, s) \in {i, None},
           i \in Entries /\ table.AtomTable[i].q # 0 => Called(i) = s,
           NEW n \in Nat, n = held[i][s] + 1 \/ n + 1 = held[i][s],
           held' = [held EXCEPT ![i][s] = n]
    PROVE  [Store!Next]_(<<[r \in Key |-> atomBar(r)], [r \in Key |-> countBar(r)]>>)
<1>1. StoreView /\ CalledKinds /\ StoreView' /\ CalledKinds'
  <2>1. (IInv => StoreView)' /\ (IInv => CalledKinds)'
    BY Views, Kinds, PTL
  <2> QED
    BY <2>1, Views, Kinds
<1>2. held \in [Index -> [Key -> Nat]] /\ held' \in [Index -> [Key -> Nat]] /\ held'[i][s] = n
  BY DEF IInv, TypeOK
<1>3. ASSUME NEW r \in Key \ {s}
      PROVE  atomBar(r)' = atomBar(r) /\ countBar(r)' = countBar(r)
  <2>1. \A j \in Entries : atomBar(r) = j => j # i /\ j \in Entries' /\ atomBar(r)' = j
    BY <1>1 DEF StoreView, CalledNow
  <2>2. \A j \in Entries' : atomBar(r)' = j => j # i /\ j \in Entries /\ atomBar(r) = j
    BY <1>1 DEF StoreView, CalledNow
  <2>3. atomBar(r)' = atomBar(r) /\ atomBar(r) # i
    <3>1. atomBar(r) \in Entries \cup {None} /\ atomBar(r)' \in Entries' \cup {None}
      BY <1>1 DEF StoreView
    <3>2. i # None
      BY DEF None, Index
    <3> QED
      BY <2>1, <2>2, <3>1, <3>2
  <2>4. atomBar(r) # None => atomBar(r) \in Index
    BY <1>1, BoundAssumption DEF StoreView, IInv, TypeOK, Entries, Index
  <2>5. atomBar(r) # None => held'[atomBar(r)][r] = held[atomBar(r)][r]
    BY <1>2, <2>3, <2>4
  <2>6. /\ countBar(r) = IF atomBar(r) = None THEN 0 ELSE IF r \in Name THEN held[atomBar(r)][r] ELSE 1
        /\ countBar(r)' = IF atomBar(r)' = None THEN 0
                          ELSE IF r \in Name THEN held'[atomBar(r)'][r] ELSE 1
    BY <1>1 DEF StoreView
  <2> QED
    BY <2>3, <2>5, <2>6
<1>4. atomBar(s)' = IF s \in Name /\ n = 0 THEN None ELSE i
  <2>1. table'.AtomTable[i].q # 0 <=> ~(s \in Name /\ n = 0)
    <3>1. /\ HasString(i)' => s \in Name /\ (table'.AtomTable[i].q # 0 <=> n > 0)
          /\ ~HasString(i)' => s \notin Name /\ table'.AtomTable[i].q # 0
      BY <1>1, <1>2 DEF CalledKinds, CalledNow
    <3> QED
      BY <3>1
  <2>2. atomBar(s)' = i <=> table'.AtomTable[i].q # 0
    BY <1>1 DEF StoreView, CalledNow
  <2>3. ASSUME NEW j \in Entries' \ {i}, atomBar(s)' = j PROVE FALSE
    BY <1>1, <2>3 DEF StoreView, CalledNow, atomBar, None, Entries
  <2>4. atomBar(s)' \in Entries' \cup {None}
    BY <1>1 DEF StoreView
  <2> QED
    BY <2>1, <2>2, <2>3, <2>4
<1>5. countBar(s)' = IF s \in Name THEN n ELSE 1
  <2>1. i # None
    BY DEF None, Index
  <2>2. countBar(s)' = IF atomBar(s)' = None THEN 0
                       ELSE IF s \in Name THEN held'[atomBar(s)'][s] ELSE 1
    BY <1>1 DEF StoreView
  <2> QED
    BY <1>2, <1>4, <2>1, <2>2
<1> DEFINE atoms == [r \in Key |-> atomBar(r)]
           counts == [r \in Key |-> countBar(r)]
<1>6. /\ atoms' = [atoms EXCEPT ![s] = atomBar(s)'] /\ counts' = [counts EXCEPT ![s] = countBar(s)']
      /\ atoms[s] = atomBar(s) /\ counts[s] = countBar(s)
  BY <1>3
<1>7. CASE atomBar(s) = None
  <2>1. ~(i \in Entries /\ table.AtomTable[i].q # 0)
    BY <1>1, <1>7 DEF StoreView, None, Index
  <2>2. held[i][s] = 0 /\ n = 1 /\ countBar(s) = 0
    <3>1. ~(held[i][s] > 0)
      BY <2>1, HeldInUse DEF IInv, HeldCalled
    <3>2. held[i][s] = 0 /\ n = 1
      BY <1>2, <3>1
    <3> QED
      BY <1>1, <1>7, <3>2 DEF StoreView
  <2>3. \A r \in Key : atomBar(r) # i
    BY <1>1, <2>1 DEF StoreView, None, Index
  <2>4. atoms'[s] = i /\ i \in Nat \ {atoms[r] : r \in Key}
    BY <1>4, <2>2, <2>3 DEF Index
  <2>5. atoms' = [atoms EXCEPT ![s] = atoms'[s]] /\ counts' = [counts EXCEPT ![s] = 1]
        /\ counts[s] = 0
    BY <1>3, <1>5, <2>2
  <2>6. Store!Add(s)
    BY <2>4, <2>5 DEF Store!Add, Store!Key, Key, atomBar, countBar
  <2> QED
    BY <2>6 DEF Store!Next, Store!Key, Key
<1>8. CASE atomBar(s) = i /\ s \in Name
  <2>1. countBar(s) = held[i][s] /\ countBar(s) > 0 /\ i # None
    BY <1>1, <1>8 DEF StoreView, None, Index
  <2>2. CASE n = held[i][s] + 1
    <3>1. atoms' = atoms /\ counts' = [counts EXCEPT ![s] = @ + 1] /\ counts[s] > 0
      <4>1. atomBar(s)' = atomBar(s) /\ countBar(s)' = countBar(s) + 1
        BY <1>2, <1>4, <1>5, <1>8, <2>1, <2>2
      <4> HIDE DEF atoms, counts
      <4>2. atoms' = [atoms EXCEPT ![s] = atoms[s]] /\ counts' = [counts EXCEPT ![s] = counts[s] + 1]
        BY <1>6, <4>1
      <4> QED
        BY <1>6, <2>1, <4>2 DEF atoms
    <3>2. Store!Count(s)
      BY <1>8, <3>1 DEF Store!Count, Store!Key, Key, atomBar, countBar
    <3> QED
      BY <3>2 DEF Store!Next, Store!Key, Key
  <2>3. CASE n + 1 = held[i][s]
    <3>1. /\ counts' = [counts EXCEPT ![s] = @ - 1] /\ counts[s] > 0
          /\ atoms' = IF counts[s] = 1 THEN [atoms EXCEPT ![s] = None] ELSE atoms
      <4>1. /\ countBar(s)' = countBar(s) - 1
            /\ atomBar(s)' = IF countBar(s) = 1 THEN None ELSE atomBar(s)
        <5>1. held[i][s] \in Nat /\ n = held[i][s] - 1
          BY <1>2, <2>3
        <5> QED
          BY <1>4, <1>5, <1>8, <2>1, <5>1
      <4> HIDE DEF atoms, counts
      <4>2. counts' = [counts EXCEPT ![s] = counts[s] - 1] /\ counts[s] > 0
        BY <1>6, <2>1, <4>1
      <4>3. counts[s] = 1 => atoms' = [atoms EXCEPT ![s] = None]
        BY <1>6, <4>1
      <4>4. counts[s] # 1 => atoms' = [atoms EXCEPT ![s] = atoms[s]]
        BY <1>6, <4>1
      <4>5. [atoms EXCEPT ![s] = atoms[s]] = atoms
        BY DEF atoms
      <4> QED
        BY <4>2, <4>3, <4>4, <4>5
    <3>2. Store!Delete(s)
      BY <1>8, <3>1 DEF Store!Delete, Store!Key, Key, atomBar, countBar
    <3> QED
      BY <3>2 DEF Store!Next, Store!Key, Key
  <2> QED
    BY <2>2, <2>3
<1>9. CASE atomBar(s) = i /\ s \in Number
  <2>1. countBar(s) = 1 /\ s \notin Name
    BY <1>1, <1>9, NameAssumption DEF StoreView, None, Index
  <2>2. atoms' = atoms /\ counts' = counts
    BY <1>3, <1>4, <1>5, <1>9, <2>1
  <2> QED
    BY <2>2
<1> QED
  BY <1>7, <1>8, <1>9 DEF Key, atomBar

\* The table implements the store: a string keeps the atom it gets for as long as
\* someone counts on it, and no other string gets it.
THEOREM TableImplementsStore == Spec => ImplementsStore
<1>1. Init => Store!Init
  <2> SUFFICES ASSUME Init PROVE Store!Init
    OBVIOUS
  <2>1. IInv /\ Entries = {}
    BY InitHolds DEF Init, EmptyTable, Entries
  <2>2. StoreView
    BY <2>1, Views
  <2>3. \A s \in Key : atomBar(s) = None /\ countBar(s) = 0
    BY <2>1, <2>2 DEF StoreView
  <2> QED
    BY <2>3 DEF Store!Init, Store!Key, Key, atomBar, countBar
<1>2. ASSUME IInv, IInv', [Next]_vars
      PROVE  [Store!Next]_(<<[r \in Key |-> atomBar(r)], [r \in Key |-> countBar(r)]>>)
  <2>1. ASSUME NEW i \in Index, NEW s \in Key, held[i][s] > 0
        PROVE  i \in Entries /\ FindAtomEx(table, s) = i /\ Called(i) = s
    <3>1. i \in Entries /\ Called(i) = s /\ table.AtomTable[i].q # 0
      BY <1>2, <2>1, HeldInUse DEF IInv, HeldCalled
    <3> QED
      BY <1>2, <3>1, MatchesCalled, SearchFinds
  <2>2. held \in [Index -> [Key -> Nat]]
    BY <1>2 DEF IInv, TypeOK
  <2>3. ASSUME NEW s \in Key, AddAtom(s)
        PROVE  Store!Next \/ UNCHANGED <<[r \in Key |-> atomBar(r)], [r \in Key |-> countBar(r)]>>
    <3>1. PICK i \in Index :
             /\ i = AddedAt(table, s) /\ CalledNow(i, s)
             /\ i \in Entries /\ table.AtomTable[i].q # 0 => Called(i) = s
      BY <1>2, <2>3, AddKeeps
    <3>2. FindAtomEx(table, s) \in {i, None}
      BY <3>1 DEF AddedAt
    <3>3. PICK n \in Nat : n = held[i][s] + 1 /\ held' = [held EXCEPT ![i][s] = n]
      <4>1. held[i][s] + 1 \in Nat
        BY <2>2
      <4> QED
        BY <2>2, <2>3, <3>1, <4>1 DEF AddAtom
    <3> QED
      BY <1>2, <3>1, <3>2, <3>3, StoreStep
  <2>4. ASSUME NEW i \in Index, NEW s \in Key, LockAtom(i, s)
        PROVE  Store!Next \/ UNCHANGED <<[r \in Key |-> atomBar(r)], [r \in Key |-> countBar(r)]>>
    <3>1. CalledNow(i, s) /\ FindAtomEx(table, s) = i /\ Called(i) = s
      BY <1>2, <2>1, <2>4, LockKeeps DEF LockAtom
    <3>2. PICK n \in Nat : n = held[i][s] + 1 /\ held' = [held EXCEPT ![i][s] = n]
      <4>1. held[i][s] + 1 \in Nat
        BY <2>2
      <4> QED
        BY <2>2, <2>4, <4>1 DEF LockAtom
    <3> QED
      BY <1>2, <3>1, <3>2, StoreStep
  <2>5. ASSUME NEW i \in Index, NEW s \in Key, DeleteAtom(i, s)
        PROVE  Store!Next \/ UNCHANGED <<[r \in Key |-> atomBar(r)], [r \in Key |-> countBar(r)]>>
    <3>1. CalledNow(i, s) /\ FindAtomEx(table, s) = i /\ Called(i) = s
      BY <1>2, <2>1, <2>5, DeletedKeeps DEF DeleteAtom
    <3>2. PICK n \in Nat : n + 1 = held[i][s] /\ held' = [held EXCEPT ![i][s] = n]
      <4>1. held[i][s] - 1 \in Nat /\ held[i][s] - 1 + 1 = held[i][s]
        BY <2>2, <2>5 DEF DeleteAtom
      <4> QED
        BY <2>5, <4>1 DEF DeleteAtom
    <3> QED
      BY <1>2, <3>1, <3>2, StoreStep
  <2>6. ASSUME UNCHANGED vars
        PROVE  UNCHANGED <<[r \in Key |-> atomBar(r)], [r \in Key |-> countBar(r)]>>
    BY <2>6 DEF vars, atomBar, countBar, HasString
  <2> QED
    BY <1>2, <2>3, <2>4, <2>5, <2>6 DEF Next
<1>3. IInv /\ IInv' /\ [Next]_vars => [Store!Next]_(<<[s \in Key |-> FindAtomEx(table, s)],
         [s \in Key |-> LET i == FindAtomEx(table, s) IN
                         IF i = None THEN 0
                         ELSE IF HasString(i) THEN table.AtomTable[i].refcnt ELSE 1]>>)
  BY <1>2 DEF atomBar, countBar
<1> QED
  BY <1>1, <1>3, Invariant, PTL DEF Spec, ImplementsStore, Store!Spec

=============================================================================
