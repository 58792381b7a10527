---------------------------- MODULE LoaderProofs ----------------------------
(***************************************************************************)
(* The inductive invariants of the module table and the loader, and the    *)
(* theorems that follow from them, for any files, imports, handles and     *)
(* sizes of the index.                                                     *)
(***************************************************************************)
EXTENDS Loader, FiniteSetsExt, FiniteSetTheorems, TLAPS, SequenceTheorems

----------------------------------------------------------------------------
(* Sets of numbers *)

\* A set of natural numbers that is not empty has a smallest element.
LEMMA MinNat ==
    ASSUME NEW S, S \subseteq Nat, S # {}
    PROVE  Min(S) \in S /\ \A y \in S : Min(S) <= y
<1>1. PICK x \in S : \A y \in S : ~ (<<y, x>> \in OpToRel(<, Nat))
  BY NatLessThanWellFounded, WFMin
<1>2. \A y \in S : ~ (y < x)
  BY <1>1, Zenon DEF OpToRel
<1>3. \A y \in S : x <= y
  BY <1>2
<1> QED
  BY <1>3 DEF Min

----------------------------------------------------------------------------
Types == FileAssumption /\ TableAssumption

Mod == Module \cup {Blank}

\* Objects that are found the same way.
Like(m, o) == m.name = o.name /\ m.bModIndex = o.bModIndex

ListedOnce == \A i, j \in Places : lpModuleHead[i] = lpModuleHead[j] => i = j

NamesApart == \A g, h \in Listed : info[g].name = info[h].name => g = h

TableInv == ListedOnce /\ PointersLive /\ NamesApart

\* A load in progress has its own module, and that exists.
FramesLive == \A t \in Task : \A i \in 1 .. Len(stack[t]) : info[stack[t][i].h] # Blank
FramesApart ==
    \A t, u \in Task : \A i \in 1 .. Len(stack[t]), j \in 1 .. Len(stack[u]) :
        stack[t][i].h = stack[u][j].h => t = u /\ i = j
FramesInv == FramesLive /\ FramesApart

\* All but the bounds of the model.
Core ==
    /\ lpModuleTable \in [Index -> Handle \cup {NoHandle}]
    /\ bModIndex \in Index
    /\ lpModuleHead \in Seq(Handle)
    /\ info \in [Handle -> Mod]
    /\ stack \in [Task -> Seq(Frame)]
    /\ holds \in [Handle -> Nat]
    /\ wrapped \in BOOLEAN
    /\ TableInv
    /\ FramesInv

IInv == Core /\ calls \in 0 .. MaxCalls /\ nested \in BOOLEAN /\ halted \in BOOLEAN

----------------------------------------------------------------------------
\* Modules

LEMMA ModFields ==
    ASSUME Types, NEW m \in Mod
    PROVE  /\ m.nRefCnt \in Nat /\ m.bModIndex \in Index
           /\ m.hInst \in BOOLEAN /\ m.pinned \in BOOLEAN
           /\ m.lpModIndex \in Seq(Handle \cup {NoHandle})
           /\ m = Blank <=> m.name = NoHandle
           /\ m # Blank => m \in Module /\ m.name \in File
<1>1. CASE m = Blank
  <2>1. <<>> \in Seq(Handle \cup {NoHandle}) /\ 0 \in Index
    BY DEF Types, TableAssumption, Index
  <2> QED
    BY <1>1, <2>1 DEF Blank
<1>2. CASE m \in Module
  BY <1>2 DEF Module, Blank, Types, TableAssumption
<1> QED
  BY <1>1, <1>2 DEF Mod

\* What the loads change in a module leaves it where it is found.
LEMMA SetCount ==
    ASSUME NEW m \in Module, NEW k \in Nat
    PROVE  /\ [m EXCEPT !.nRefCnt = k] \in Module
           /\ Like([m EXCEPT !.nRefCnt = k], m)
           /\ [m EXCEPT !.nRefCnt = k].nRefCnt = k
           /\ [m EXCEPT !.nRefCnt = k].hInst = m.hInst
BY DEF Module, Like

LEMMA SetInst ==
    ASSUME NEW m \in Module
    PROVE  /\ [m EXCEPT !.hInst = TRUE] \in Module
           /\ Like([m EXCEPT !.hInst = TRUE], m)
           /\ [m EXCEPT !.hInst = TRUE].nRefCnt = m.nRefCnt
BY DEF Module, Like

LEMMA SetPinned ==
    ASSUME NEW m \in Module
    PROVE  /\ [m EXCEPT !.pinned = TRUE] \in Module
           /\ Like([m EXCEPT !.pinned = TRUE], m)
           /\ [m EXCEPT !.pinned = TRUE].nRefCnt = m.nRefCnt
BY DEF Module, Like

LEMMA AddBinding ==
    ASSUME NEW m \in Module, NEW r \in Handle \cup {NoHandle}
    PROVE  /\ [m EXCEPT !.lpModIndex = Append(@, r)] \in Module
           /\ Like([m EXCEPT !.lpModIndex = Append(@, r)], m)
           /\ [m EXCEPT !.lpModIndex = Append(@, r)].nRefCnt = m.nRefCnt
<1>1. Append(m.lpModIndex, r) \in Seq(Handle \cup {NoHandle})
  BY DEF Module
<1> QED
  BY <1>1 DEF Module, Like

LEMMA NewModuleTyped ==
    ASSUME Types, NEW f \in File, bModIndex \in Index
    PROVE  /\ NextIndex \in Index
           /\ NewModule(f) \in Module
           /\ NewModule(f).name = f
           /\ NewModule(f).bModIndex = NextIndex
           /\ NewModule(f).nRefCnt = IF Kind[f] \in {"builtin", "native", "pe"} THEN 1 ELSE 0
           /\ FirstWait(f) \in {"Imports", "Box", "Init"}
<1>1. NextIndex \in Index
  BY DEF NextIndex, Index, Types, TableAssumption
<1>2. <<>> \in Seq(Handle \cup {NoHandle})
  OBVIOUS
<1> QED
  BY <1>1, <1>2 DEF NewModule, Blank, Module, FirstWait

----------------------------------------------------------------------------
\* The list

LEMMA ListedTyped ==
    ASSUME lpModuleHead \in Seq(Handle)
    PROVE  Listed \subseteq Handle
BY DEF Listed, Places

\* A module that is looked up is listed and has the name.
LEMMA HandleFound ==
    ASSUME Types, lpModuleHead \in Seq(Handle), NEW f
    PROVE  /\ GetModuleHandle(f) # NoHandle =>
                GetModuleHandle(f) \in Listed /\ info[GetModuleHandle(f)].name = f
           /\ GetModuleHandle(f) = NoHandle => \A h \in Listed : info[h].name # f
<1> DEFINE found == {i \in Places : info[lpModuleHead[i]].name = f}
<1>1. CASE found = {}
  <2>1. GetModuleHandle(f) = NoHandle
    BY <1>1 DEF GetModuleHandle
  <2> QED
    BY <1>1, <2>1 DEF Listed
<1>2. CASE found # {}
  <2> DEFINE i == CHOOSE i \in found : \A j \in found : i <= j
  <2>1. found \subseteq Nat
    BY DEF Places
  <2>2. \E n \in found : \A j \in found : n <= j
    <3> HIDE DEF found
    <3> QED
      BY <1>2, <2>1, MinNat
  <2>3. i \in found
    BY <2>2
  <2>4. GetModuleHandle(f) = lpModuleHead[i]
    BY <1>2 DEF GetModuleHandle
  <2>5. lpModuleHead[i] \in Listed /\ info[lpModuleHead[i]].name = f
    BY <2>3 DEF Listed
  <2>6. lpModuleHead[i] # NoHandle
    BY <2>5, ListedTyped DEF Types, TableAssumption
  <2> QED
    BY <2>4, <2>5, <2>6
<1> QED
  BY <1>1, <1>2

LEMMA NamesOnceFollows == ListedOnce /\ NamesApart => NamesOnce
BY DEF ListedOnce, NamesApart, NamesOnce, Listed

LEMMA Pushed ==
    ASSUME lpModuleHead \in Seq(Handle), ListedOnce,
           NEW h \in Handle, h \notin Listed, lpModuleHead' = <<h>> \o lpModuleHead
    PROVE  lpModuleHead' \in Seq(Handle) /\ ListedOnce' /\ Listed' = Listed \cup {h}
<1>1. /\ lpModuleHead' \in Seq(Handle)
      /\ Len(lpModuleHead') = Len(lpModuleHead) + 1
      /\ \A i \in 1 .. Len(lpModuleHead) + 1 :
            lpModuleHead'[i] = IF i = 1 THEN h ELSE lpModuleHead[i - 1]
  BY ConcatProperties
<1>2. Listed' = Listed \cup {h}
  <2>1. ASSUME NEW g \in Listed'
        PROVE  g \in Listed \cup {h}
    <3>1. PICK i \in 1 .. Len(lpModuleHead) + 1 : g = lpModuleHead'[i]
      BY <1>1 DEF Listed, Places
    <3>2. i = 1 \/ i - 1 \in 1 .. Len(lpModuleHead)
      OBVIOUS
    <3> QED
      BY <1>1, <3>1, <3>2 DEF Listed, Places
  <2>2. ASSUME NEW i \in 1 .. Len(lpModuleHead)
        PROVE  lpModuleHead[i] \in Listed'
    <3>1. i + 1 \in 1 .. Len(lpModuleHead) + 1 /\ lpModuleHead'[i + 1] = lpModuleHead[i]
      BY <1>1
    <3> QED
      BY <1>1, <3>1 DEF Listed, Places
  <2>3. h \in Listed'
    <3>1. 1 \in 1 .. Len(lpModuleHead) + 1 /\ lpModuleHead'[1] = h
      BY <1>1
    <3> QED
      BY <1>1, <3>1 DEF Listed, Places
  <2> QED
    BY <2>1, <2>2, <2>3 DEF Listed, Places
<1>3. ListedOnce'
  <2>1. SUFFICES ASSUME NEW i \in 1 .. Len(lpModuleHead) + 1, NEW j \in 1 .. Len(lpModuleHead) + 1,
                        lpModuleHead'[i] = lpModuleHead'[j]
                 PROVE  i = j
    BY <1>1 DEF ListedOnce, Places
  <2>2. \A k \in 1 .. Len(lpModuleHead) : lpModuleHead[k] # h
    BY DEF Listed, Places
  <2>3. CASE i = 1 \/ j = 1
    BY <1>1, <2>1, <2>2, <2>3
  <2>4. CASE i # 1 /\ j # 1
    <3>1. i - 1 \in Places /\ j - 1 \in Places /\ lpModuleHead[i - 1] = lpModuleHead[j - 1]
      BY <1>1, <2>1, <2>4 DEF Places
    <3> QED
      BY <3>1 DEF ListedOnce, Places
  <2> QED
    BY <2>3, <2>4
<1> QED
  BY <1>1, <1>2, <1>3

LEMMA Unlinked ==
    ASSUME lpModuleHead \in Seq(Handle), ListedOnce, NEW h \in Handle, Unlink(h)
    PROVE  lpModuleHead' \in Seq(Handle) /\ ListedOnce' /\ Listed' = Listed \ {h}
<1>1. CASE h \notin Listed
  <2>1. lpModuleHead' = lpModuleHead
    BY <1>1 DEF Unlink
  <2> QED
    BY <1>1, <2>1 DEF ListedOnce, Listed, Places
<1>2. CASE h \in Listed
  <2> DEFINE n == Len(lpModuleHead)
             k == CHOOSE i \in Places : lpModuleHead[i] = h
  <2>1. k \in 1 .. n /\ lpModuleHead[k] = h
    BY <1>2 DEF Listed, Places
  <2>2. lpModuleHead' = SubSeq(lpModuleHead, 1, k - 1) \o SubSeq(lpModuleHead, k + 1, n)
    BY <1>2 DEF Unlink
  <2> HIDE DEF k
  <2>3. /\ SubSeq(lpModuleHead, 1, k - 1) \in Seq(Handle)
        /\ Len(SubSeq(lpModuleHead, 1, k - 1)) = k - 1
        /\ \A i \in 1 .. k - 1 : SubSeq(lpModuleHead, 1, k - 1)[i] = lpModuleHead[i]
    <3>1. \A i \in 1 .. k - 1 : lpModuleHead[i] \in Handle
      BY <2>1
    <3> QED
      BY <2>1, <3>1, SubSeqProperties
  <2>4. /\ SubSeq(lpModuleHead, k + 1, n) \in Seq(Handle)
        /\ Len(SubSeq(lpModuleHead, k + 1, n)) = n - k
        /\ \A i \in 1 .. n - k : SubSeq(lpModuleHead, k + 1, n)[i] = lpModuleHead[k + i]
    <3>1. \A i \in k + 1 .. n : lpModuleHead[i] \in Handle
      BY <2>1
    <3>2. k + 1 \in Int /\ n \in Int /\ n - (k + 1) + 1 = n - k
      BY <2>1
    <3>3. /\ SubSeq(lpModuleHead, k + 1, n) \in Seq(Handle)
          /\ Len(SubSeq(lpModuleHead, k + 1, n)) = IF k + 1 <= n THEN n - (k + 1) + 1 ELSE 0
          /\ \A i \in 1 .. n - (k + 1) + 1 :
                SubSeq(lpModuleHead, k + 1, n)[i] = lpModuleHead[(k + 1) + i - 1]
      BY <3>1, <3>2, SubSeqProperties
    <3>4. \A i \in 1 .. n - k : i \in 1 .. n - (k + 1) + 1 /\ (k + 1) + i - 1 = k + i
      BY <2>1
    <3>5. \A i \in 1 .. n - k : SubSeq(lpModuleHead, k + 1, n)[i] = lpModuleHead[k + i]
      BY <3>3, <3>4
    <3>6. Len(SubSeq(lpModuleHead, k + 1, n)) = n - k
      <4>1. (IF k + 1 <= n THEN n - (k + 1) + 1 ELSE 0) = n - k
        BY <2>1
      <4> QED
        BY <3>3, <4>1
    <3> QED
      BY <3>3, <3>5, <3>6
  <2>5. /\ lpModuleHead' \in Seq(Handle)
        /\ Len(lpModuleHead') = n - 1
        /\ \A i \in 1 .. n - 1 :
              lpModuleHead'[i] = IF i < k THEN lpModuleHead[i] ELSE lpModuleHead[i + 1]
    <3> DEFINE a == SubSeq(lpModuleHead, 1, k - 1)
               b == SubSeq(lpModuleHead, k + 1, n)
    <3>1. a \in Seq(Handle) /\ b \in Seq(Handle) /\ lpModuleHead' = a \o b
      BY <2>2, <2>3, <2>4
    <3>2. Len(a) = k - 1 /\ Len(b) = n - k
      BY <2>3, <2>4
    <3>3. \A i \in 1 .. k - 1 : a[i] = lpModuleHead[i]
      BY <2>3
    <3>4. \A i \in 1 .. n - k : b[i] = lpModuleHead[k + i]
      BY <2>4
    <3> HIDE DEF a, b
    <3>5. /\ a \o b \in Seq(Handle)
          /\ Len(a \o b) = Len(a) + Len(b)
          /\ \A i \in 1 .. Len(a) + Len(b) :
                (a \o b)[i] = IF i <= Len(a) THEN a[i] ELSE b[i - Len(a)]
      BY <3>1, ConcatProperties
    <3>6. ASSUME NEW i \in 1 .. n - 1
          PROVE  (a \o b)[i] = IF i < k THEN lpModuleHead[i] ELSE lpModuleHead[i + 1]
      <4>1. CASE i < k
        <5>1. i \in 1 .. k - 1 /\ i <= Len(a) /\ i \in 1 .. Len(a) + Len(b)
          BY <2>1, <3>2, <4>1
        <5>2. (a \o b)[i] = a[i] /\ a[i] = lpModuleHead[i]
          BY <3>3, <3>5, <5>1
        <5> QED
          BY <4>1, <5>2
      <4>2. CASE i >= k
        <5>1. i - (k - 1) \in 1 .. n - k /\ k + (i - (k - 1)) = i + 1
          BY <2>1, <4>2
        <5>2. b[i - (k - 1)] = lpModuleHead[i + 1]
          BY <3>4, <5>1
        <5> QED
          BY <2>1, <3>2, <3>5, <4>2, <5>2
      <4>3. i < k \/ i >= k
        BY <2>1
      <4> QED
        BY <4>1, <4>2, <4>3
    <3>7. Len(a) + Len(b) = n - 1
      BY <2>1, <3>2
    <3>8. lpModuleHead' \in Seq(Handle) /\ Len(lpModuleHead') = n - 1
      BY <3>1, <3>5, <3>7
    <3>9. \A i \in 1 .. n - 1 :
              lpModuleHead'[i] = IF i < k THEN lpModuleHead[i] ELSE lpModuleHead[i + 1]
      BY <3>1, <3>6
    <3> QED
      BY <3>8, <3>9
  <2>6. ListedOnce'
    <3>1. SUFFICES ASSUME NEW i \in 1 .. n - 1, NEW j \in 1 .. n - 1,
                          lpModuleHead'[i] = lpModuleHead'[j]
                   PROVE  i = j
      BY <2>5 DEF ListedOnce, Places
    <3> DEFINE x == IF i < k THEN i ELSE i + 1
               y == IF j < k THEN j ELSE j + 1
    <3>2. x \in Places /\ y \in Places /\ lpModuleHead[x] = lpModuleHead[y]
      BY <2>1, <2>5, <3>1 DEF Places
    <3>3. x = y
      BY <3>2 DEF ListedOnce
    <3> QED
      BY <2>1, <3>3
  <2>7. Listed' = Listed \ {h}
    <3>1. ASSUME NEW i \in 1 .. n - 1
          PROVE  lpModuleHead'[i] \in Listed \ {h}
      <4> DEFINE x == IF i < k THEN i ELSE i + 1
      <4>1. x \in Places /\ x # k /\ lpModuleHead'[i] = lpModuleHead[x]
        BY <2>1, <2>5 DEF Places
      <4>2. lpModuleHead[x] # h
        BY <2>1, <4>1 DEF ListedOnce, Places
      <4> QED
        BY <4>1, <4>2 DEF Listed
    <3>2. ASSUME NEW x \in 1 .. n, x # k
          PROVE  lpModuleHead[x] \in Listed'
      <4> DEFINE i == IF x < k THEN x ELSE x - 1
      <4>1. i \in 1 .. n - 1 /\ lpModuleHead'[i] = lpModuleHead[x]
        BY <2>1, <2>5, <3>2
      <4> QED
        BY <2>5, <4>1 DEF Listed, Places
    <3>3. Listed' \subseteq Listed \ {h}
      BY <2>5, <3>1 DEF Listed, Places
    <3>4. Listed \ {h} \subseteq Listed'
      BY <2>1, <3>2 DEF Listed, Places
    <3> QED
      BY <3>3, <3>4
  <2> QED
    BY <2>5, <2>6, <2>7
<1> QED
  BY <1>1, <1>2

----------------------------------------------------------------------------
\* The table

\* Nothing is added or removed, and only objects that are not listed go.
LEMMA TableStays ==
    ASSUME Types, lpModuleHead \in Seq(Handle), TableInv, UNCHANGED tableVars,
           info \in [Handle -> Mod], info' \in [Handle -> Mod],
           \A h \in Listed : Like(info'[h], info[h])
    PROVE  TableInv' /\ Listed' = Listed
<1>1. Listed' = Listed /\ lpModuleTable' = lpModuleTable /\ lpModuleHead' = lpModuleHead
  BY DEF tableVars, Listed, Places
<1>2. Listed \subseteq Handle
  BY ListedTyped
<1>3. ListedOnce'
  BY <1>1 DEF TableInv, ListedOnce, Places
<1>4. \A h \in Listed : info'[h] # Blank
  BY <1>2, ModFields DEF TableInv, PointersLive, Like
<1>5. PointersLive'
  BY <1>1, <1>4 DEF TableInv, PointersLive, Like
<1>6. NamesApart'
  BY <1>1 DEF TableInv, NamesApart, Like
<1> QED
  BY <1>1, <1>3, <1>5, <1>6 DEF TableInv

\* A module of a name that is not listed is added.
LEMMA TableGrows ==
    ASSUME Types, lpModuleHead \in Seq(Handle), TableInv, NEW h \in Handle, h \notin Listed,
           lpModuleTable \in [Index -> Handle \cup {NoHandle}], bModIndex \in Index,
           NewModuleEntry(h), info \in [Handle -> Mod], info' \in [Handle -> Mod],
           \A g \in Listed : Like(info'[g], info[g]),
           info'[h] # Blank, info'[h].bModIndex = NextIndex,
           \A g \in Listed : info[g].name # info'[h].name
    PROVE  /\ TableInv' /\ Listed' = Listed \cup {h}
           /\ lpModuleHead' \in Seq(Handle) /\ bModIndex' \in Index
           /\ lpModuleTable' \in [Index -> Handle \cup {NoHandle}]
<1>1. lpModuleHead' \in Seq(Handle) /\ ListedOnce' /\ Listed' = Listed \cup {h}
  BY Pushed DEF NewModuleEntry, TableInv
<1>2. Listed \subseteq Handle
  BY ListedTyped
<1>3. NextIndex \in Index
  BY DEF NextIndex, Index, Types, TableAssumption
<1>4. \A g \in Listed : info'[g] # Blank
  BY <1>2, ModFields DEF TableInv, PointersLive, Like
<1>5. PointersLive'
  <2>1. \A g \in Listed' : info'[g] # Blank
    BY <1>1, <1>4
  <2>2. ASSUME NEW i \in Index, lpModuleTable'[i] # NoHandle
        PROVE  lpModuleTable'[i] \in Listed' /\ info'[lpModuleTable'[i]].bModIndex = i
    <3>1. CASE i = NextIndex
      BY <1>1, <3>1 DEF NewModuleEntry
    <3>2. CASE i # NextIndex
      <4>1. lpModuleTable'[i] = lpModuleTable[i]
        BY <3>2 DEF NewModuleEntry
      <4> QED
        BY <1>1, <2>2, <4>1 DEF TableInv, PointersLive, Like
    <3> QED
      BY <3>1, <3>2
  <2> QED
    BY <2>1, <2>2 DEF PointersLive
<1>6. NamesApart'
  BY <1>1 DEF TableInv, NamesApart, Like
<1>7. bModIndex' \in Index /\ lpModuleTable' \in [Index -> Handle \cup {NoHandle}]
  BY <1>3 DEF NewModuleEntry
<1> QED
  BY <1>1, <1>5, <1>6, <1>7 DEF TableInv

\* A module is removed, or what was removed before once more.
LEMMA TableShrinks ==
    ASSUME Types, lpModuleHead \in Seq(Handle), TableInv, NEW h \in Handle,
           lpModuleTable \in [Index -> Handle \cup {NoHandle}], bModIndex \in Index,
           FreeModuleEntry(h), info \in [Handle -> Mod], info' \in [Handle -> Mod],
           \A g \in Listed \ {h} : Like(info'[g], info[g])
    PROVE  /\ TableInv' /\ Listed' = Listed \ {h}
           /\ lpModuleHead' \in Seq(Handle) /\ bModIndex' \in Index
           /\ lpModuleTable' \in [Index -> Handle \cup {NoHandle}]
<1>1. lpModuleHead' \in Seq(Handle) /\ ListedOnce' /\ Listed' = Listed \ {h}
  BY Unlinked DEF FreeModuleEntry, TableInv
<1>2. Listed \subseteq Handle
  BY ListedTyped
<1>3. info[h].bModIndex \in Index
  BY ModFields
<1>4. \A g \in Listed' : info'[g] # Blank
  BY <1>1, <1>2, ModFields DEF TableInv, PointersLive, Like
<1>5. PointersLive'
  <2>1. ASSUME NEW i \in Index, lpModuleTable'[i] # NoHandle
        PROVE  lpModuleTable'[i] \in Listed' /\ info'[lpModuleTable'[i]].bModIndex = i
    <3>1. i # info[h].bModIndex /\ lpModuleTable'[i] = lpModuleTable[i]
      BY <1>3, <2>1 DEF FreeModuleEntry
    <3>2. lpModuleTable[i] \in Listed /\ info[lpModuleTable[i]].bModIndex = i
      BY <2>1, <3>1 DEF TableInv, PointersLive
    <3> QED
      BY <1>1, <3>1, <3>2 DEF Like
  <2> QED
    BY <1>4, <2>1 DEF PointersLive
<1>6. NamesApart'
  BY <1>1 DEF TableInv, NamesApart, Like
<1>7. bModIndex' \in Index /\ lpModuleTable' \in [Index -> Handle \cup {NoHandle}]
  <2>1. (bModIndex - 1) % MaxIndex \in Index
    BY DEF Index, Types, TableAssumption
  <2> QED
    BY <2>1 DEF FreeModuleEntry
<1> QED
  BY <1>1, <1>5, <1>6, <1>7 DEF TableInv

----------------------------------------------------------------------------
\* Where loads return to

\* The module of the load that goes on gets what it asked for; all others, and all
\* stacks but this one, are left alone.
ReturnEffect(t, s, r, hInst, modules) ==
    /\ info' \in [Handle -> Mod]
    /\ \A g \in Handle : Like(info'[g], modules[g]) /\ info'[g].nRefCnt = modules[g].nRefCnt
    /\ stack' \in [Task -> Seq(Frame)]
    /\ \A u \in Task \ {t} : stack'[u] = stack[u]
    /\ Len(stack'[t]) = Len(s)
    /\ \A i \in 1 .. Len(s) : stack'[t][i].h = s[i].h /\ stack'[t][i].file = s[i].file
    /\ \A i \in 1 .. Len(s) : i # Len(s) => stack'[t][i] = s[i]
    /\ holds' \in [Handle -> Nat]
    /\ \/ holds' = holds
       \/ /\ s = <<>> \/ s[Len(s)].at # "Imports"
          /\ hInst /\ holds' = [holds EXCEPT ![r] = @ + 1]

LEMMA Returned ==
    ASSUME Types, stack \in [Task -> Seq(Frame)], holds \in [Handle -> Nat],
           NEW t \in Task, NEW s \in Seq(Frame), NEW r \in Handle \cup {NoHandle},
           NEW hInst \in BOOLEAN, hInst => r \in Handle, NEW modules \in [Handle -> Mod],
           s # <<>> => modules[s[Len(s)].h] # Blank,
           Return(t, s, r, hInst, modules)
    PROVE  ReturnEffect(t, s, r, hInst, modules)
<1> USE DEF ReturnEffect
<1> DEFINE f == s[Len(s)]
           resolved == [modules EXCEPT ![f.h].lpModIndex = Append(@, r)]
           blocked == [s EXCEPT ![Len(s)].at = "Box"]
<1>1. CASE s = <<>> \/ f.at # "Imports"
  <2>1. /\ stack' = [stack EXCEPT ![t] = s] /\ info' = modules
        /\ holds' = IF hInst THEN [holds EXCEPT ![r] = @ + 1] ELSE holds
    BY <1>1 DEF Return
  <2>2. holds' \in [Handle -> Nat] /\ stack' \in [Task -> Seq(Frame)] /\ stack'[t] = s
    BY <2>1
  <2> QED
    BY <1>1, <2>1, <2>2 DEF Like
<1>2. CASE s # <<>> /\ f.at = "Imports"
  <2>1. Len(s) \in 1 .. Len(s) /\ f \in Frame /\ f.h \in Handle
    <3>1. Len(s) \in 1 .. Len(s)
      BY <1>2
    <3>2. f \in Frame
      BY <3>1
    <3> HIDE DEF f
    <3> QED
      BY <3>1, <3>2 DEF Frame
  <2>2. /\ resolved \in [Handle -> Mod]
        /\ resolved[f.h] # Blank
        /\ \A g \in Handle : /\ Like(resolved[g], modules[g])
                             /\ resolved[g].nRefCnt = modules[g].nRefCnt
                             /\ modules[g] # Blank => resolved[g] # Blank
    <3>1. modules[f.h] \in Module
      BY <1>2, <2>1 DEF Mod
    <3>2. /\ resolved[f.h] = [modules[f.h] EXCEPT !.lpModIndex = Append(@, r)]
          /\ \A g \in Handle : g # f.h => resolved[g] = modules[g]
      BY <2>1
    <3>3. /\ resolved[f.h] \in Module /\ Like(resolved[f.h], modules[f.h])
          /\ resolved[f.h].nRefCnt = modules[f.h].nRefCnt
      <4> DEFINE m == modules[f.h]
                 o == resolved[f.h]
      <4>1. m \in Module
        BY <3>1
      <4>2. o = [m EXCEPT !.lpModIndex = Append(@, r)]
        BY <3>2
      <4> HIDE DEF m, o
      <4>3. o \in Module /\ Like(o, m) /\ o.nRefCnt = m.nRefCnt
        BY <4>1, <4>2, AddBinding
      <4> QED
        BY <4>3 DEF m, o
    <3>4. resolved[f.h] # Blank
      BY <3>3 DEF Module, Blank, Types, TableAssumption
    <3> QED
      BY <3>2, <3>3, <3>4 DEF Mod, Like
  <2>3. /\ blocked \in Seq(Frame) /\ Len(blocked) = Len(s)
        /\ \A i \in 1 .. Len(s) : blocked[i].h = s[i].h /\ blocked[i].file = s[i].file
        /\ \A i \in 1 .. Len(s) : i # Len(s) => blocked[i] = s[i]
    <3>1. [f EXCEPT !.at = "Box"] \in Frame
      BY <2>1 DEF Frame
    <3> QED
      BY <2>1, <3>1
  <2> HIDE DEF f, resolved, blocked
  <2>4. holds' = holds
    BY <1>2 DEF Return, f
  <2>5. CASE Kind[f.file] # "pe"
    <3>1. stack' = [stack EXCEPT ![t] = s] /\ info' = resolved
      BY <1>2, <2>5 DEF Return, f, resolved
    <3> QED
      BY <2>2, <2>4, <3>1
  <2>6. CASE Kind[f.file] = "pe" /\ hInst /\ modules[r] # Blank
    <3>1. stack' = [stack EXCEPT ![t] = s] /\ info' = [resolved EXCEPT ![r].pinned = TRUE]
      BY <1>2, <2>6 DEF Return, f, resolved
    <3>2. resolved[r] \in Module
      BY <2>2, <2>6 DEF Mod
    <3>3. /\ info'[r] = [resolved[r] EXCEPT !.pinned = TRUE]
          /\ \A g \in Handle : g # r => info'[g] = resolved[g]
      BY <2>2, <2>6, <3>1
    <3>4. info'[r] \in Module /\ Like(info'[r], resolved[r]) /\ info'[r].nRefCnt = resolved[r].nRefCnt
      BY <3>2, <3>3, SetPinned
    <3>5. info' \in [Handle -> Mod]
      BY <2>2, <3>1, <3>3, <3>4 DEF Mod
    <3> QED
      BY <2>2, <2>4, <3>1, <3>3, <3>4, <3>5 DEF Like
  <2>7. CASE Kind[f.file] = "pe" /\ ~(hInst /\ modules[r] # Blank)
    <3>1. stack' = [stack EXCEPT ![t] = blocked] /\ info' = modules
      BY <1>2, <2>7 DEF Return, f, blocked
    <3> QED
      BY <2>3, <2>4, <3>1 DEF Like
  <2> QED
    BY <2>5, <2>6, <2>7
<1> QED
  BY <1>1, <1>2

----------------------------------------------------------------------------
\* Stacks

\* No load begins.
LEMMA FramesKept ==
    ASSUME stack \in [Task -> Seq(Frame)], stack' \in [Task -> Seq(Frame)], FramesInv,
           \A u \in Task : Len(stack'[u]) <= Len(stack[u]),
           \A u \in Task : \A i \in 1 .. Len(stack'[u]) :
                stack'[u][i].h = stack[u][i].h /\ info'[stack[u][i].h] # Blank
    PROVE  FramesInv'
<1>1. \A u \in Task : Len(stack[u]) \in Nat /\ Len(stack'[u]) \in Nat
  OBVIOUS
<1>2. \A u \in Task : 1 .. Len(stack'[u]) \subseteq 1 .. Len(stack[u])
  BY <1>1
<1>3. FramesLive'
  BY DEF FramesLive
<1>4. FramesApart'
  BY <1>2 DEF FramesInv, FramesApart
<1> QED
  BY <1>3, <1>4 DEF FramesInv

\* One begins, with a module of its own.
LEMMA FramesPushed ==
    ASSUME stack \in [Task -> Seq(Frame)], FramesInv, NEW t \in Task, NEW f \in Frame,
           stack' = [stack EXCEPT ![t] = Append(@, f)],
           \A u \in Task : \A i \in 1 .. Len(stack[u]) :
                stack[u][i].h # f.h /\ info'[stack[u][i].h] # Blank,
           info'[f.h] # Blank
    PROVE  FramesInv' /\ stack' \in [Task -> Seq(Frame)]
<1>1. /\ stack' \in [Task -> Seq(Frame)]
      /\ \A u \in Task \ {t} : stack'[u] = stack[u]
      /\ Len(stack'[t]) = Len(stack[t]) + 1
      /\ \A i \in 1 .. Len(stack[t]) : stack'[t][i] = stack[t][i]
      /\ stack'[t][Len(stack[t]) + 1] = f
  OBVIOUS
<1>2. \A u \in Task : \A i \in 1 .. Len(stack'[u]) :
          \/ i \in 1 .. Len(stack[u]) /\ stack'[u][i] = stack[u][i]
          \/ u = t /\ i = Len(stack[t]) + 1 /\ stack'[u][i] = f
  <2>1. SUFFICES ASSUME NEW u \in Task, NEW i \in 1 .. Len(stack'[u])
                 PROVE  \/ i \in 1 .. Len(stack[u]) /\ stack'[u][i] = stack[u][i]
                        \/ u = t /\ i = Len(stack[t]) + 1 /\ stack'[u][i] = f
    OBVIOUS
  <2>2. CASE u = t
    BY <1>1, <2>2
  <2>3. CASE u # t
    BY <1>1, <2>3
  <2> QED
    BY <2>2, <2>3
<1>3. FramesLive'
  BY <1>2 DEF FramesLive
<1>4. FramesApart'
  BY <1>2 DEF FramesInv, FramesApart
<1> QED
  BY <1>1, <1>3, <1>4 DEF FramesInv

LEMMA TopFacts ==
    ASSUME Types, Core, NEW t \in Task, stack[t] # <<>>
    PROVE  /\ Len(stack[t]) \in Nat \ {0}
           /\ Top(t) \in Frame /\ Top(t).h \in Handle /\ Top(t).file \in File
           /\ info[Top(t).h] \in Module
           /\ Below(t) \in Seq(Frame) /\ Len(Below(t)) = Len(stack[t]) - 1
           /\ \A i \in 1 .. Len(stack[t]) - 1 : Below(t)[i] = stack[t][i]
           /\ \A u \in Task : \A i \in 1 .. Len(stack[u]) :
                stack[u][i].h = Top(t).h => u = t /\ i = Len(stack[t])
           /\ Below(t) # <<>> =>
                /\ Below(t)[Len(Below(t))].h \in Handle
                /\ Below(t)[Len(Below(t))].h # Top(t).h
                /\ info[Below(t)[Len(Below(t))].h] # Blank
<1> DEFINE n == Len(stack[t])
<1>1. stack[t] \in Seq(Frame) /\ n \in Nat \ {0}
  BY DEF Core
<1>2. Top(t) \in Frame /\ Top(t) = stack[t][n]
  BY <1>1 DEF Top
<1>3. Top(t).h \in Handle /\ Top(t).file \in File
  BY <1>2 DEF Frame
<1>4. info[Top(t).h] \in Module
  BY <1>1, <1>2, <1>3 DEF Core, FramesInv, FramesLive, Mod
<1>5. /\ Below(t) \in Seq(Frame) /\ Len(Below(t)) = n - 1
      /\ \A i \in 1 .. n - 1 : Below(t)[i] = stack[t][i]
  BY <1>1 DEF Below
<1>6. \A u \in Task : \A i \in 1 .. Len(stack[u]) : stack[u][i].h = Top(t).h => u = t /\ i = n
  BY <1>1, <1>2 DEF Core, FramesInv, FramesApart
<1>7. ASSUME Below(t) # <<>>
      PROVE  /\ Below(t)[Len(Below(t))].h \in Handle
             /\ Below(t)[Len(Below(t))].h # Top(t).h
             /\ info[Below(t)[Len(Below(t))].h] # Blank
  <2>1. n - 1 \in 1 .. n /\ n - 1 \in 1 .. n - 1 /\ Below(t)[Len(Below(t))] = stack[t][n - 1]
    BY <1>1, <1>5, <1>7
  <2>2. stack[t][n - 1] \in Frame
    BY <1>1, <2>1
  <2>3. info[stack[t][n - 1].h] # Blank
    BY <2>1 DEF Core, FramesInv, FramesLive
  <2>4. stack[t][n - 1].h # Top(t).h
    BY <1>1, <1>6, <2>1
  <2> QED
    BY <2>1, <2>2, <2>3, <2>4 DEF Frame
<1> QED
  BY <1>1, <1>2, <1>3, <1>4, <1>5, <1>6, <1>7

\* A listed module, and that of a load, is a Module.
LEMMA ListedModules ==
    ASSUME Types, Core
    PROVE  /\ Listed \subseteq Handle
           /\ \A h \in Listed : info[h] \in Module
           /\ \A t \in Task : \A i \in 1 .. Len(stack[t]) :
                stack[t][i].h \in Handle /\ info[stack[t][i].h] \in Module
<1>1. Listed \subseteq Handle
  BY ListedTyped DEF Core
<1>2. \A h \in Listed : info[h] \in Module
  BY <1>1 DEF Core, TableInv, PointersLive, Mod
<1>3. ASSUME NEW t \in Task, NEW i \in 1 .. Len(stack[t])
      PROVE  stack[t][i].h \in Handle /\ info[stack[t][i].h] \in Module
  <2>1. stack[t] \in Seq(Frame)
    BY DEF Core
  <2>2. stack[t][i] \in Frame
    BY <2>1
  <2>3. stack[t][i].h \in Handle
    BY <2>2 DEF Frame
  <2> QED
    BY <2>3 DEF Core, FramesInv, FramesLive, Mod
<1> QED
  BY <1>1, <1>2, <1>3

LEMMA ReturnedFrames ==
    ASSUME Types, Core, NEW t \in Task, NEW s \in Seq(Frame), NEW r \in Handle \cup {NoHandle},
           NEW hInst \in BOOLEAN, hInst => r \in Handle, NEW modules \in [Handle -> Mod],
           Len(s) <= Len(stack[t]), \A i \in 1 .. Len(s) : s[i] = stack[t][i],
           \A i \in 1 .. Len(s) : modules[s[i].h] # Blank,
           \A u \in Task \ {t} : \A i \in 1 .. Len(stack[u]) : modules[stack[u][i].h] # Blank,
           Return(t, s, r, hInst, modules)
    PROVE  /\ FramesInv'
           /\ info' \in [Handle -> Mod]
           /\ \A g \in Handle : Like(info'[g], modules[g]) /\ info'[g].nRefCnt = modules[g].nRefCnt
           /\ stack' \in [Task -> Seq(Frame)]
           /\ holds' \in [Handle -> Nat]
<1>1. s # <<>> => Len(s) \in 1 .. Len(s)
  OBVIOUS
<1>2. s # <<>> => modules[s[Len(s)].h] # Blank
  BY <1>1
<1>3. /\ info' \in [Handle -> Mod]
      /\ \A g \in Handle : Like(info'[g], modules[g]) /\ info'[g].nRefCnt = modules[g].nRefCnt
      /\ stack' \in [Task -> Seq(Frame)]
      /\ \A u \in Task \ {t} : stack'[u] = stack[u]
      /\ Len(stack'[t]) = Len(s)
      /\ \A i \in 1 .. Len(s) : stack'[t][i].h = s[i].h
      /\ holds' \in [Handle -> Nat]
  <2>1. stack \in [Task -> Seq(Frame)] /\ holds \in [Handle -> Nat]
    BY DEF Core
  <2>2. ReturnEffect(t, s, r, hInst, modules)
    BY <1>2, <2>1, Returned
  <2> QED
    BY <2>2 DEF ReturnEffect
<1>4. \A g \in Handle : modules[g] # Blank => info'[g] # Blank
  BY <1>3, ModFields DEF Like
<1>5. \A u \in Task : Len(stack'[u]) <= Len(stack[u])
  <2>1. \A u \in Task : Len(stack[u]) \in Nat
    BY DEF Core
  <2> QED
    BY <1>3, <2>1
<1>6. ASSUME NEW u \in Task, NEW i \in 1 .. Len(stack'[u])
      PROVE  stack'[u][i].h = stack[u][i].h /\ info'[stack[u][i].h] # Blank
  <2>1. CASE u = t
    <3>1. i \in 1 .. Len(s) /\ i \in 1 .. Len(stack[t])
      BY <1>3, <1>5, <2>1 DEF Core
    <3>2. stack'[t][i].h = stack[t][i].h /\ modules[stack[t][i].h] # Blank
      BY <1>3, <3>1
    <3> QED
      BY <1>4, <2>1, <3>1, <3>2, ListedModules
  <2>2. CASE u # t
    <3>1. u \in Task \ {t} /\ stack'[u] = stack[u] /\ modules[stack[u][i].h] # Blank
      BY <1>3, <2>2
    <3> QED
      BY <1>4, <3>1, ListedModules
  <2> QED
    BY <2>1, <2>2
<1>7. FramesInv'
  BY <1>3, <1>5, <1>6, FramesKept DEF Core
<1> QED
  BY <1>3, <1>7

----------------------------------------------------------------------------
\* The steps of the loader

LEMMA CreateKeeps ==
    ASSUME Types, Core, NEW t \in Task, NEW f \in File, GetModuleHandle(f) = NoHandle,
           CreateModuleInstance(t, f)
    PROVE  Core'
<1>1. PICK h \in Handle :
        /\ info[h] = Blank /\ NewModuleEntry(h)
        /\ info' = [info EXCEPT ![h] = NewModule(f)]
        /\ stack' = [stack EXCEPT ![t] = Append(@, [h |-> h, file |-> f, at |-> FirstWait(f)])]
        /\ holds' = holds
  BY DEF CreateModuleInstance
<1>2. /\ NewModule(f) \in Module /\ NewModule(f).name = f
      /\ NewModule(f).bModIndex = NextIndex /\ FirstWait(f) \in {"Imports", "Box", "Init"}
  BY NewModuleTyped DEF Core
<1>3. h \notin Listed /\ \A u \in Task : \A i \in 1 .. Len(stack[u]) : stack[u][i].h # h
  BY <1>1 DEF Core, TableInv, PointersLive, FramesInv, FramesLive
<1>4. info' \in [Handle -> Mod] /\ info'[h] = NewModule(f)
      /\ \A g \in Handle : g # h => info'[g] = info[g]
  BY <1>1, <1>2 DEF Core, Mod
<1>5. info'[h] # Blank
  BY <1>2, <1>4 DEF Blank, Types, TableAssumption
<1>6. /\ TableInv' /\ lpModuleHead' \in Seq(Handle) /\ bModIndex' \in Index
      /\ lpModuleTable' \in [Index -> Handle \cup {NoHandle}]
  <2>1. \A g \in Listed : Like(info'[g], info[g])
    BY <1>3, <1>4, ListedModules DEF Like
  <2>2. \A g \in Listed : info[g].name # info'[h].name
    BY <1>2, <1>4, HandleFound DEF Core
  <2>3. info'[h].bModIndex = NextIndex
    BY <1>2, <1>4
  <2> QED
    BY <1>1, <1>3, <1>4, <1>5, <2>1, <2>2, <2>3, TableGrows DEF Core
<1>7. FramesInv' /\ stack' \in [Task -> Seq(Frame)]
  <2> DEFINE fr == [h |-> h, file |-> f, at |-> FirstWait(f)]
  <2>1. fr \in Frame /\ fr.h = h
    BY <1>2 DEF Frame
  <2>2. stack' = [stack EXCEPT ![t] = Append(@, fr)]
    BY <1>1
  <2>3. \A u \in Task : \A i \in 1 .. Len(stack[u]) :
            stack[u][i].h # fr.h /\ info'[stack[u][i].h] # Blank
    BY <1>3, <1>4, <2>1, ListedModules DEF Core, FramesInv, FramesLive
  <2> HIDE DEF fr
  <2> QED
    BY <1>5, <2>1, <2>2, <2>3, FramesPushed DEF Core
<1>8. wrapped' \in BOOLEAN
  BY <1>1 DEF NewModuleEntry, Core
<1> QED
  BY <1>1, <1>4, <1>6, <1>7, <1>8 DEF Core

\* A load of a module that is listed, from whatever asks for it.
LEMMA FoundKeeps ==
    ASSUME Types, Core, NEW t \in Task, NEW old \in Listed,
           Return(t, stack[t], old, info[old].hInst, [info EXCEPT ![old].nRefCnt = @ + 1]),
           UNCHANGED tableVars
    PROVE  Core'
<1> DEFINE modules == [info EXCEPT ![old].nRefCnt = @ + 1]
<1>1. old \in Handle /\ info[old] \in Module /\ info[old].hInst \in BOOLEAN
  BY ListedModules DEF Module
<1>2. /\ modules \in [Handle -> Mod]
      /\ \A g \in Handle : Like(modules[g], info[g]) /\ (info[g] # Blank => modules[g] # Blank)
  <2>1. info[old].nRefCnt + 1 \in Nat
    BY <1>1 DEF Module
  <2>2. /\ modules[old] = [info[old] EXCEPT !.nRefCnt = info[old].nRefCnt + 1]
        /\ \A g \in Handle : g # old => modules[g] = info[g]
    BY <1>1 DEF Core
  <2>3. modules[old] \in Module /\ Like(modules[old], info[old])
    BY <1>1, <2>1, <2>2, SetCount
  <2>4. modules[old] # Blank
    BY <2>3 DEF Module, Blank, Types, TableAssumption
  <2>5. modules \in [Handle -> Mod]
    BY <1>1, <2>3 DEF Core, Mod
  <2> QED
    BY <2>2, <2>3, <2>4, <2>5 DEF Like
<1> HIDE DEF modules
<1>3. /\ FramesInv'
      /\ info' \in [Handle -> Mod]
      /\ \A g \in Handle : Like(info'[g], modules[g])
      /\ stack' \in [Task -> Seq(Frame)]
      /\ holds' \in [Handle -> Nat]
  <2>1. \A u \in Task : \A i \in 1 .. Len(stack[u]) : modules[stack[u][i].h] # Blank
    BY <1>2, ListedModules DEF Core, FramesInv, FramesLive
  <2>2. stack[t] \in Seq(Frame) /\ Len(stack[t]) <= Len(stack[t])
    BY DEF Core
  <2>3. Return(t, stack[t], old, info[old].hInst, modules)
    BY DEF modules
  <2>4. /\ \A i \in 1 .. Len(stack[t]) : modules[stack[t][i].h] # Blank
        /\ \A u \in Task \ {t} : \A i \in 1 .. Len(stack[u]) : modules[stack[u][i].h] # Blank
    BY <2>1
  <2> DEFINE s == stack[t]
             k == info[old].hInst
  <2>5. /\ s \in Seq(Frame) /\ k \in BOOLEAN /\ old \in Handle
        /\ Len(s) <= Len(stack[t]) /\ \A i \in 1 .. Len(s) : s[i] = stack[t][i]
        /\ \A i \in 1 .. Len(s) : modules[s[i].h] # Blank
        /\ Return(t, s, old, k, modules)
    BY <1>1, <2>2, <2>3, <2>4
  <2> HIDE DEF s, k
  <2> QED
    BY <1>2, <2>4, <2>5, ReturnedFrames
<1>4. \A h \in Listed : Like(info'[h], info[h])
  BY <1>2, <1>3, ListedModules DEF Like
<1>5. TableInv'
  BY <1>3, <1>4, TableStays DEF Core
<1> QED
  BY <1>3, <1>5 DEF Core, tableVars

LEMMA LoadFileKeeps ==
    ASSUME Types, Core, NEW t \in Task, NEW f \in File, TWIN_LoadFile(t, f)
    PROVE  Core'
<1>1. CASE GetModuleHandle(f) = NoHandle
  BY <1>1, CreateKeeps DEF TWIN_LoadFile
<1>2. CASE GetModuleHandle(f) # NoHandle
  <2>1. GetModuleHandle(f) \in Listed
    BY <1>2, HandleFound DEF Core
  <2> QED
    BY <1>2, <2>1, FoundKeeps DEF TWIN_LoadFile
<1> QED
  BY <1>1, <1>2

\* The modules of the loads that stay, when that of the top one may go.
LEMMA OthersStay ==
    ASSUME Types, Core, NEW t \in Task, stack[t] # <<>>, NEW modules \in [Handle -> Mod],
           \A g \in Handle : g # Top(t).h /\ info[g] # Blank => modules[g] # Blank
    PROVE  /\ Len(Below(t)) <= Len(stack[t])
           /\ \A i \in 1 .. Len(Below(t)) : Below(t)[i] = stack[t][i]
           /\ \A i \in 1 .. Len(Below(t)) : modules[Below(t)[i].h] # Blank
           /\ \A u \in Task \ {t} : \A i \in 1 .. Len(stack[u]) : modules[stack[u][i].h] # Blank
<1>1. /\ Len(stack[t]) \in Nat \ {0} /\ Len(Below(t)) = Len(stack[t]) - 1
      /\ \A i \in 1 .. Len(stack[t]) - 1 : Below(t)[i] = stack[t][i]
      /\ \A u \in Task : \A i \in 1 .. Len(stack[u]) :
            stack[u][i].h = Top(t).h => u = t /\ i = Len(stack[t])
  BY TopFacts
<1>2. \A u \in Task : \A i \in 1 .. Len(stack[u]) :
        stack[u][i].h \in Handle /\ info[stack[u][i].h] # Blank
  BY ListedModules DEF Core, FramesInv, FramesLive
<1>3. ASSUME NEW i \in 1 .. Len(stack[t]) - 1
      PROVE  modules[stack[t][i].h] # Blank
  <2>1. i \in 1 .. Len(stack[t]) /\ i # Len(stack[t])
    BY <1>1
  <2> QED
    BY <1>1, <1>2, <2>1
<1>4. \A u \in Task \ {t} : \A i \in 1 .. Len(stack[u]) : modules[stack[u][i].h] # Blank
  BY <1>1, <1>2
<1> QED
  BY <1>1, <1>3, <1>4

LEMMA FailsKeeps ==
    ASSUME Types, Core, NEW t \in Task, stack[t] # <<>>, LoadFails(t)
    PROVE  Core'
<1> DEFINE h == Top(t).h
           m == IF info[h].pinned THEN [info[h] EXCEPT !.nRefCnt = @ + 1] ELSE Blank
           modules == [info EXCEPT ![h] = m]
<1>1. FreeModuleEntry(h) /\ Return(t, Below(t), NoHandle, FALSE, modules)
  BY DEF LoadFails
<1>2. h \in Handle /\ info[h] \in Module /\ Below(t) \in Seq(Frame)
  BY TopFacts
<1>3. m \in Mod
  <2>1. info[h].nRefCnt + 1 \in Nat
    BY <1>2 DEF Module
  <2> HIDE DEF h
  <2>2. [info[h] EXCEPT !.nRefCnt = info[h].nRefCnt + 1] \in Module
    BY <1>2, <2>1, SetCount
  <2> QED
    BY <2>2 DEF Mod
<1> HIDE DEF h, m
<1>4. modules \in [Handle -> Mod] /\ \A g \in Handle : g # h => modules[g] = info[g]
  BY <1>2, <1>3 DEF Core
<1> HIDE DEF modules
<1>5. /\ FramesInv'
      /\ info' \in [Handle -> Mod]
      /\ \A g \in Handle : Like(info'[g], modules[g])
      /\ stack' \in [Task -> Seq(Frame)]
      /\ holds' \in [Handle -> Nat]
  <2>1. \A g \in Handle : g # Top(t).h /\ info[g] # Blank => modules[g] # Blank
    BY <1>4 DEF h
  <2> QED
    BY <1>1, <1>2, <1>4, <2>1, OthersStay, ReturnedFrames
<1>6. \A g \in Listed \ {h} : Like(info'[g], info[g])
  BY <1>4, <1>5, ListedModules
<1>7. /\ TableInv' /\ lpModuleHead' \in Seq(Handle) /\ bModIndex' \in Index
      /\ lpModuleTable' \in [Index -> Handle \cup {NoHandle}]
  BY <1>1, <1>2, <1>5, <1>6, TableShrinks DEF Core
<1>8. wrapped' \in BOOLEAN
  BY <1>1 DEF FreeModuleEntry, Core
<1> QED
  BY <1>5, <1>7, <1>8 DEF Core

\* The top load returns, and its module goes if it is not listed.
LEMMA TopReturns ==
    ASSUME Types, Core, NEW t \in Task, stack[t] # <<>>, NEW r \in Handle \cup {NoHandle},
           NEW hInst \in BOOLEAN, hInst => r \in Handle, NEW modules \in [Handle -> Mod],
           \A g \in Handle : g # Top(t).h \/ g \in Listed => Like(modules[g], info[g]),
           Return(t, Below(t), r, hInst, modules)
    PROVE  /\ FramesInv'
           /\ info' \in [Handle -> Mod]
           /\ \A g \in Handle : Like(info'[g], modules[g])
           /\ stack' \in [Task -> Seq(Frame)]
           /\ holds' \in [Handle -> Nat]
<1>1. \A g \in Handle : g # Top(t).h /\ info[g] # Blank => modules[g] # Blank
  <2>1. \A g \in Handle : modules[g] \in Mod /\ info[g] \in Mod
    BY DEF Core
  <2> QED
    BY <2>1, ModFields DEF Like
<1>2. Below(t) \in Seq(Frame)
  BY TopFacts
<1>3. /\ Len(Below(t)) <= Len(stack[t])
      /\ \A i \in 1 .. Len(Below(t)) : Below(t)[i] = stack[t][i]
      /\ \A i \in 1 .. Len(Below(t)) : modules[Below(t)[i].h] # Blank
      /\ \A u \in Task \ {t} : \A i \in 1 .. Len(stack[u]) : modules[stack[u][i].h] # Blank
  BY <1>1, OthersStay
<1> DEFINE s == Below(t)
<1>4. /\ s \in Seq(Frame) /\ Return(t, s, r, hInst, modules)
      /\ Len(s) <= Len(stack[t]) /\ \A i \in 1 .. Len(s) : s[i] = stack[t][i]
      /\ \A i \in 1 .. Len(s) : modules[s[i].h] # Blank
  BY <1>2, <1>3
<1> HIDE DEF s
<1> QED
  BY <1>3, <1>4, ReturnedFrames

LEMMA EndsKeeps ==
    ASSUME Types, Core, NEW t \in Task, stack[t] # <<>>, NEW n \in Nat, LoadEnds(t, n)
    PROVE  Core'
<1> DEFINE h == Top(t).h
           m == Released(h)
           modules == [info EXCEPT ![h] = IF m = Blank THEN m ELSE [m EXCEPT !.nRefCnt = n]]
           hInst == m.hInst \/ Kind[Top(t).file] = "pe"
<1>1. Return(t, Below(t), h, hInst, modules) /\ UNCHANGED tableVars
  BY DEF LoadEnds
<1>2. h \in Handle /\ info[h] \in Module
  BY TopFacts
<1>3. m \in Mod /\ (h \in Listed => m = info[h]) /\ (m # Blank => m = info[h])
  BY <1>2 DEF Released, Mod
<1> HIDE DEF h, m
<1>4. hInst \in BOOLEAN
  <2>1. m.hInst \in BOOLEAN
    BY <1>3, ModFields
  <2> QED
    BY <2>1
<1>5. modules \in [Handle -> Mod] /\ \A g \in Handle : g # h \/ g \in Listed => Like(modules[g], info[g])
  <2>1. CASE m = Blank
    <3>1. modules = [info EXCEPT ![h] = m]
      BY <2>1
    <3>2. h \notin Listed
      BY <1>2, <1>3, <2>1 DEF Module, Blank, Types, TableAssumption
    <3> QED
      BY <1>2, <1>3, <3>1, <3>2 DEF Core, Like
  <2>2. CASE m # Blank
    <3>1. modules = [info EXCEPT ![h] = [m EXCEPT !.nRefCnt = n]]
      BY <2>2
    <3>2. [m EXCEPT !.nRefCnt = n] \in Module /\ Like([m EXCEPT !.nRefCnt = n], m)
      BY <1>2, <1>3, <2>2, SetCount
    <3> QED
      BY <1>2, <1>3, <2>2, <3>1, <3>2 DEF Core, Like, Mod
  <2> QED
    BY <2>1, <2>2
<1> HIDE DEF modules, hInst
<1>6. /\ FramesInv'
      /\ info' \in [Handle -> Mod]
      /\ \A g \in Handle : Like(info'[g], modules[g])
      /\ stack' \in [Task -> Seq(Frame)]
      /\ holds' \in [Handle -> Nat]
  <2>1. \A g \in Handle : g # Top(t).h \/ g \in Listed => Like(modules[g], info[g])
    BY <1>5 DEF h
  <2> QED
    BY <1>1, <1>2, <1>4, <1>5, <2>1, TopReturns
<1>7. \A g \in Listed : Like(info'[g], info[g])
  BY <1>5, <1>6, ListedModules DEF Like
<1>8. TableInv'
  BY <1>1, <1>6, <1>7, TableStays DEF Core
<1> QED
  BY <1>1, <1>6, <1>8 DEF Core, tableVars

LEMMA NativeKeeps ==
    ASSUME Types, Core, NEW t \in Task, stack[t] # <<>>, NativeEnds(t)
    PROVE  Core'
<1> DEFINE h == Top(t).h
           f == Top(t).file
           old == GetModuleHandle(f)
           modules == [info EXCEPT ![h] = Released(h)]
<1>1. h \in Handle /\ info[h] \in Module /\ f \in File
  BY TopFacts
<1>2. /\ modules \in [Handle -> Mod]
      /\ \A g \in Handle : g # h => modules[g] = info[g]
      /\ h \in Listed => modules[h] = info[h]
  <2>1. Released(h) \in Mod /\ (h \in Listed => Released(h) = info[h])
    BY <1>1 DEF Released, Mod
  <2> HIDE DEF h
  <2> QED
    BY <1>1, <2>1 DEF Core
<1>3. CASE old # NoHandle
  <2> DEFINE counted == [modules EXCEPT ![old].nRefCnt = 1]
             hInst == info[old].hInst
  <2>1. Return(t, Below(t), old, hInst, counted) /\ UNCHANGED tableVars
    BY <1>3 DEF NativeEnds
  <2>2. old \in Listed
    BY <1>3, HandleFound DEF Core
  <2> HIDE DEF modules, old, h
  <2>3. old \in Handle /\ info[old] \in Module /\ hInst \in BOOLEAN /\ modules[old] = info[old]
    BY <1>2, <2>2, ListedModules DEF Module
  <2>4. /\ counted \in [Handle -> Mod]
        /\ \A g \in Handle : g # h \/ g \in Listed => Like(counted[g], info[g])
    <3>1. /\ counted[old] = [info[old] EXCEPT !.nRefCnt = 1]
          /\ \A g \in Handle : g # old => counted[g] = modules[g]
      BY <1>2, <2>3
    <3> DEFINE n == 1
    <3>4. counted[old] = [info[old] EXCEPT !.nRefCnt = n] /\ n \in Nat
      BY <3>1
    <3> HIDE DEF n, counted
    <3>2. counted[old] \in Module /\ Like(counted[old], info[old])
      BY <2>3, <3>4, SetCount
    <3> USE DEF counted
    <3>3. counted \in [Handle -> Mod]
      BY <1>2, <2>3, <3>2 DEF Mod
    <3> QED
      BY <1>2, <3>1, <3>2, <3>3 DEF Like
  <2> HIDE DEF counted, hInst
  <2>5. /\ FramesInv'
        /\ info' \in [Handle -> Mod]
        /\ \A g \in Handle : Like(info'[g], counted[g])
        /\ stack' \in [Task -> Seq(Frame)]
        /\ holds' \in [Handle -> Nat]
    <3>1. \A g \in Handle : g # Top(t).h \/ g \in Listed => Like(counted[g], info[g])
      BY <2>4 DEF h
    <3>2. old \in Handle \cup {NoHandle} /\ (hInst => old \in Handle)
      BY <2>3
    <3>3. Return(t, Below(t), old, hInst, counted)
      BY <2>1
    <3> QED
      BY <2>3, <2>4, <3>1, <3>2, <3>3, TopReturns
  <2>6. \A g \in Listed : Like(info'[g], info[g])
    BY <2>4, <2>5, ListedModules DEF Like
  <2>7. TableInv'
    BY <2>1, <2>5, <2>6, TableStays DEF Core
  <2> QED
    BY <2>1, <2>5, <2>7 DEF Core, tableVars
<1>4. CASE old = NoHandle
  <2> DEFINE fresh == [Blank EXCEPT !.name = f, !.nRefCnt = 1, !.bModIndex = NextIndex]
  <2>1. PICK k \in Handle :
          /\ modules[k] = Blank /\ NewModuleEntry(k)
          /\ Return(t, Below(t), k, FALSE, [modules EXCEPT ![k] = fresh])
    BY <1>4 DEF NativeEnds
  <2>2. fresh \in Module /\ fresh.name = f /\ fresh.bModIndex = NextIndex
    <3>1. NextIndex \in Index
      BY <1>1, NewModuleTyped DEF Core
    <3>2. <<>> \in Seq(Handle \cup {NoHandle})
      OBVIOUS
    <3> HIDE DEF f
    <3> QED
      BY <1>1, <3>1, <3>2 DEF Blank, Module
  <2>3. \A g \in Listed : info[g].name # f
    BY <1>4, HandleFound DEF Core
  <2>4. k \notin Listed
    BY <1>2, <2>1 DEF Core, TableInv, PointersLive
  <2> DEFINE added == [modules EXCEPT ![k] = fresh]
  <2>5. /\ added \in [Handle -> Mod] /\ added[k] = fresh
        /\ \A g \in Handle : g # k => added[g] = modules[g]
    <3> HIDE DEF modules, fresh
    <3> QED
      BY <1>2, <2>2 DEF Mod
  <2>6. fresh # Blank
    BY <2>2 DEF Module, Blank, Types, TableAssumption
  <2> HIDE DEF added, modules, fresh, f, old
  <2>7. \A g \in Handle : g # h /\ info[g] # Blank => added[g] # Blank
    BY <1>2, <2>5, <2>6
  <2>8. /\ FramesInv'
        /\ info' \in [Handle -> Mod]
        /\ \A g \in Handle : Like(info'[g], added[g])
        /\ stack' \in [Task -> Seq(Frame)]
        /\ holds' \in [Handle -> Nat]
    <3>1. Below(t) \in Seq(Frame)
      BY TopFacts
    <3>2. /\ Len(Below(t)) <= Len(stack[t])
          /\ \A i \in 1 .. Len(Below(t)) : Below(t)[i] = stack[t][i]
          /\ \A i \in 1 .. Len(Below(t)) : added[Below(t)[i].h] # Blank
          /\ \A u \in Task \ {t} : \A i \in 1 .. Len(stack[u]) : added[stack[u][i].h] # Blank
      BY <2>5, <2>7, OthersStay
    <3>3. Return(t, Below(t), k, FALSE, added)
      BY <2>1 DEF added
    <3>4. k \in Handle \cup {NoHandle} /\ FALSE \in BOOLEAN /\ (FALSE => k \in Handle)
      OBVIOUS
    <3> QED
      BY <2>5, <3>1, <3>2, <3>3, <3>4, ReturnedFrames
  <2>9. \A g \in Listed : Like(info'[g], info[g])
    <3>1. \A g \in Listed : g \in Handle /\ g # k /\ modules[g] = info[g]
      BY <1>2, <2>4, ListedModules
    <3> QED
      BY <2>5, <2>8, <3>1 DEF Like
  <2>10. info'[k] # Blank /\ info'[k].bModIndex = NextIndex /\ info'[k].name = f
    BY <2>2, <2>5, <2>6, <2>8, ModFields DEF Like, Mod
  <2>11. /\ TableInv' /\ lpModuleHead' \in Seq(Handle) /\ bModIndex' \in Index
         /\ lpModuleTable' \in [Index -> Handle \cup {NoHandle}]
    <3>1. \A g \in Listed : info[g].name # info'[k].name
      BY <2>3, <2>10
    <3> QED
      BY <2>1, <2>4, <2>8, <2>9, <2>10, <3>1, TableGrows DEF Core
  <2>12. wrapped' \in BOOLEAN
    BY <2>1 DEF NewModuleEntry, Core
  <2> QED
    BY <2>8, <2>11, <2>12 DEF Core
<1> QED
  BY <1>3, <1>4

\* Loads in progress keep their modules.
LEMMA FreeLibraryKeeps ==
    ASSUME Types, Core, NEW t \in Task, NEW h \in Handle, FreeLibrary(t, h)
    PROVE  Core'
<1>1. info[h] \in Mod /\ info[h].nRefCnt \in Nat
  BY ModFields DEF Core
<1>2. holds' \in [Handle -> Nat] /\ stack' = stack
  <2>1. holds' = [holds EXCEPT ![h] = holds[h] - 1] /\ holds[h] > 0 /\ stack' = stack
    BY DEF FreeLibrary
  <2>2. holds[h] - 1 \in Nat
    BY <2>1 DEF Core
  <2> QED
    BY <2>1, <2>2 DEF Core
<1>3. CASE info[h].nRefCnt = 1
  <2> DEFINE m == IF Loading(h) \/ info[h].pinned THEN [info[h] EXCEPT !.nRefCnt = 0] ELSE Blank
  <2>1. FreeModuleEntry(h) /\ info' = [info EXCEPT ![h] = m]
    BY <1>3 DEF FreeLibrary
  <2>2. m \in Mod /\ (Loading(h) => m # Blank)
    <3>1. info[h] \in Module
      BY <1>1, <1>3 DEF Mod, Blank
    <3>2. [info[h] EXCEPT !.nRefCnt = 0] \in Module
      BY <3>1, SetCount
    <3> QED
      BY <3>2 DEF Mod, Module, Blank, Types, TableAssumption
  <2> HIDE DEF m
  <2>3. /\ info' \in [Handle -> Mod] /\ info'[h] = m
        /\ \A g \in Handle : g # h => info'[g] = info[g]
    BY <2>1, <2>2 DEF Core
  <2>4. \A g \in Listed \ {h} : Like(info'[g], info[g])
    BY <2>3, ListedModules DEF Like
  <2>5. /\ TableInv' /\ lpModuleHead' \in Seq(Handle) /\ bModIndex' \in Index
        /\ lpModuleTable' \in [Index -> Handle \cup {NoHandle}]
    BY <2>1, <2>3, <2>4, TableShrinks DEF Core
  <2>6. \A u \in Task : \A i \in 1 .. Len(stack[u]) : info'[stack[u][i].h] # Blank
    <3>1. SUFFICES ASSUME NEW u \in Task, NEW i \in 1 .. Len(stack[u])
                   PROVE  info'[stack[u][i].h] # Blank
      OBVIOUS
    <3>2. stack[u][i].h \in Handle /\ info[stack[u][i].h] # Blank
      BY ListedModules DEF Core, FramesInv, FramesLive
    <3>3. CASE stack[u][i].h = h
      BY <2>2, <2>3, <3>3 DEF Loading
    <3> QED
      BY <2>3, <3>2, <3>3
  <2>7. wrapped' \in BOOLEAN
    BY <2>1 DEF FreeModuleEntry, Core
  <2>8. FramesInv'
    BY <1>2, <2>6 DEF Core, FramesInv, FramesLive, FramesApart
  <2> QED
    BY <1>2, <2>3, <2>5, <2>7, <2>8 DEF Core
<1>4. CASE info[h].nRefCnt # 1
  <2>1. /\ UNCHANGED tableVars
        /\ info' = IF info[h].nRefCnt = 0 THEN info
                   ELSE [info EXCEPT ![h].nRefCnt = info[h].nRefCnt - 1]
    BY <1>4 DEF FreeLibrary
  <2>2. CASE info[h].nRefCnt = 0
    <3>1. info' = info
      BY <2>1, <2>2
    <3>2. TableInv'
      BY <2>1, <3>1, TableStays DEF Core, Like
    <3>3. FramesInv'
      BY <1>2, <3>1 DEF Core, FramesInv, FramesLive, FramesApart
    <3> QED
      BY <1>2, <2>1, <3>1, <3>2, <3>3 DEF Core, tableVars
  <2>3. CASE info[h].nRefCnt # 0
    <3> DEFINE n == info[h].nRefCnt - 1
               m == [info[h] EXCEPT !.nRefCnt = n]
    <3>1. info' = [info EXCEPT ![h] = m]
      BY <2>1, <2>3
    <3>2. n \in Nat /\ info[h] \in Module
      BY <1>1, <2>3 DEF Mod, Blank
    <3> HIDE DEF n
    <3>3. m \in Module /\ Like(m, info[h])
      BY <3>2, SetCount
    <3> HIDE DEF m
    <3>4. /\ info' \in [Handle -> Mod]
          /\ \A g \in Handle : Like(info'[g], info[g])
      BY <3>1, <3>3 DEF Core, Like, Mod
    <3>5. TableInv'
      BY <2>1, <3>4, TableStays, ListedModules DEF Core
    <3>6. \A g \in Handle : info[g] # Blank => info'[g] # Blank
      BY <3>4, ModFields DEF Core, Like
    <3>7. FramesLive'
      BY <1>2, <3>6, ListedModules DEF Core, FramesInv, FramesLive
    <3>8. FramesApart'
      BY <1>2 DEF Core, FramesInv, FramesApart
    <3> QED
      BY <1>2, <2>1, <3>4, <3>5, <3>7, <3>8 DEF Core, FramesInv, tableVars
  <2> QED
    BY <2>2, <2>3
<1> QED
  BY <1>3, <1>4

\* The load on top of a stack goes on to its next wait.
LEMMA MovesKeeps ==
    ASSUME Types, Core, NEW t \in Task, stack[t] # <<>>,
           NEW place \in {"Imports", "Box", "Init"},
           stack' = [stack EXCEPT ![t][Len(stack[t])].at = place],
           info' = info \/ info' = [info EXCEPT ![Top(t).h].hInst = TRUE],
           UNCHANGED <<tableVars, holds>>
    PROVE  Core'
<1> DEFINE h == Top(t).h
           n == Len(stack[t])
           top == [stack[t][n] EXCEPT !.at = place]
<1>1. h \in Handle /\ info[h] \in Module /\ n \in 1 .. n /\ stack[t][n] \in Frame
  BY TopFacts DEF Top
<1>2. top \in Frame /\ top.h = stack[t][n].h
  BY <1>1 DEF Frame
<1>3. stack' = [stack EXCEPT ![t] = [stack[t] EXCEPT ![n] = top]]
  OBVIOUS
<1> HIDE DEF top, h
<1>4. /\ info' \in [Handle -> Mod]
      /\ \A g \in Handle : Like(info'[g], info[g])
  <2>1. CASE info' = info
    BY <2>1 DEF Core, Like
  <2>2. CASE info' = [info EXCEPT ![h].hInst = TRUE]
    <3>1. /\ info'[h] = [info[h] EXCEPT !.hInst = TRUE]
          /\ \A g \in Handle : g # h => info'[g] = info[g]
      BY <1>1, <2>2 DEF Core
    <3>2. info'[h] \in Module /\ Like(info'[h], info[h])
      BY <1>1, <3>1, SetInst
    <3>3. info' \in [Handle -> Mod]
      BY <2>2, <3>2 DEF Core, Mod
    <3> QED
      BY <3>1, <3>2, <3>3 DEF Like
  <2> QED
    BY <2>1, <2>2 DEF h
<1>5. TableInv'
  BY <1>4, TableStays, ListedModules DEF Core
<1>6. /\ stack' \in [Task -> Seq(Frame)]
      /\ \A u \in Task : Len(stack'[u]) = Len(stack[u])
      /\ \A u \in Task : \A i \in 1 .. Len(stack[u]) : stack'[u][i].h = stack[u][i].h
  <2>1. /\ [stack[t] EXCEPT ![n] = top] \in Seq(Frame)
        /\ Len([stack[t] EXCEPT ![n] = top]) = n
        /\ \A i \in 1 .. n : [stack[t] EXCEPT ![n] = top][i].h = stack[t][i].h
    BY <1>1, <1>2 DEF Core
  <2> QED
    BY <1>3, <2>1 DEF Core
<1>7. FramesInv'
  <2>1. \A u \in Task : \A i \in 1 .. Len(stack[u]) : info'[stack[u][i].h] # Blank
    BY <1>4, ModFields, ListedModules DEF Core, FramesInv, FramesLive, Like
  <2>2. FramesLive'
    BY <1>6, <2>1 DEF FramesLive
  <2>3. FramesApart'
    BY <1>6 DEF Core, FramesInv, FramesApart
  <2> QED
    BY <2>2, <2>3 DEF FramesInv
<1> QED
  BY <1>4, <1>5, <1>6, <1>7 DEF Core, tableVars

LEMMA ImportKeeps ==
    ASSUME Types, Core, NEW t \in Task, Import(t)
    PROVE  Core'
<1> DEFINE f == Top(t)
           n == Len(info[f.h].lpModIndex) + 1
<1>1. stack[t] # <<>> /\ n <= Len(Imports[f.file]) /\ TWIN_LoadFile(t, Imports[f.file][n])
  BY DEF Import, At
<1>2. f.file \in File /\ info[f.h] \in Module
  BY <1>1, TopFacts
<1>3. n \in Nat \ {0}
  <2>1. info[f.h].lpModIndex \in Seq(Handle \cup {NoHandle})
    BY <1>2 DEF Module
  <2> QED
    BY <2>1
<1> HIDE DEF f, n
<1>4. Imports[f.file] \in Seq(File)
  BY <1>2 DEF Types, FileAssumption
<1>5. Imports[f.file][n] \in File
  BY <1>1, <1>3, <1>4
<1> QED
  BY <1>1, <1>5, LoadFileKeeps

LEMMA ImportsDoneKeeps ==
    ASSUME Types, Core, NEW t \in Task, ImportsDone(t)
    PROVE  Core'
<1> DEFINE f == Top(t)
           resolved == info[f.h].lpModIndex
           lacking == \E i \in 1 .. Len(resolved) : resolved[i] = NoHandle
<1>1. stack[t] # <<>>
  BY DEF ImportsDone, At
<1>2. CASE lacking
  <2>1. LoadFails(t)
    BY <1>2 DEF ImportsDone
  <2> QED
    BY <1>1, <2>1, FailsKeeps
<1>3. CASE ~lacking /\ Kind[f.file] = "short"
  <2> DEFINE box == "Box"
  <2>1. /\ stack' = [stack EXCEPT ![t][Len(stack[t])].at = box]
        /\ info' = info /\ UNCHANGED <<tableVars, holds>>
    BY <1>3 DEF ImportsDone
  <2>2. box \in {"Imports", "Box", "Init"}
    OBVIOUS
  <2> HIDE DEF box
  <2> QED
    BY <1>1, <2>1, <2>2, MovesKeeps
<1>4. CASE ~lacking /\ Kind[f.file] # "short"
  <2> DEFINE init == "Init"
  <2>1. /\ stack' = [stack EXCEPT ![t][Len(stack[t])].at = init]
        /\ info' = [info EXCEPT ![f.h].hInst = TRUE] /\ UNCHANGED <<tableVars, holds>>
    BY <1>4 DEF ImportsDone
  <2>2. init \in {"Imports", "Box", "Init"}
    OBVIOUS
  <2> HIDE DEF init
  <2> QED
    BY <1>1, <2>1, <2>2, MovesKeeps
<1> QED
  BY <1>2, <1>3, <1>4

LEMMA BoxClosesKeeps ==
    ASSUME Types, Core, NEW t \in Task, BoxCloses(t)
    PROVE  Core'
<1>1. stack[t] # <<>>
  BY DEF BoxCloses, At
<1>2. CASE Kind[Top(t).file] = "short"
  <2>1. UNCHANGED <<tableVars, info, stack, holds>>
    BY <1>2 DEF BoxCloses
  <2>2. TableInv'
    BY <2>1, TableStays DEF Core, Like
  <2>3. FramesInv'
    BY <2>1 DEF Core, FramesInv, FramesLive, FramesApart
  <2> QED
    BY <2>1, <2>2, <2>3 DEF Core, tableVars
<1>3. CASE Kind[Top(t).file] # "short"
  <2>1. LoadFails(t)
    BY <1>3 DEF BoxCloses
  <2> QED
    BY <1>1, <2>1, FailsKeeps
<1> QED
  BY <1>2, <1>3

LEMMA InitReturnsKeeps ==
    ASSUME Types, Core, NEW t \in Task, InitReturns(t)
    PROVE  Core'
<1> DEFINE n == info[Top(t).h].nRefCnt
<1>1. stack[t] # <<>>
  BY DEF InitReturns, At
<1>2. n \in Nat /\ n + 1 \in Nat
  BY <1>1, TopFacts DEF Module
<1>3. NativeEnds(t) \/ LoadEnds(t, n) \/ LoadEnds(t, n + 1)
  BY DEF InitReturns
<1> HIDE DEF n
<1> QED
  BY <1>1, <1>2, <1>3, NativeKeeps, EndsKeeps

LEMMA LoadKeeps ==
    ASSUME Types, Core, NEW t \in Task, NEW f \in File, Load(t, f)
    PROVE  Core'
BY LoadFileKeeps DEF Load

----------------------------------------------------------------------------
\* The invariant

LEMMA InitCore ==
    ASSUME Types, Init
    PROVE  IInv
<1>1. Listed = {} /\ Places = {}
  BY DEF Init, Listed, Places
<1>2. TableInv
  <2>1. ListedOnce /\ NamesApart
    BY <1>1 DEF ListedOnce, NamesApart
  <2>2. PointersLive
    BY <1>1 DEF PointersLive, Init
  <2> QED
    BY <2>1, <2>2 DEF TableInv
<1>3. \A t \in Task : stack[t] = <<>> /\ Len(stack[t]) = 0
  BY DEF Init
<1>4. FramesInv
  BY <1>3 DEF FramesInv, FramesLive, FramesApart
<1>5. 0 \in Index /\ 0 \in 0 .. MaxCalls
  BY DEF Index, Types, TableAssumption
<1>6. lpModuleTable \in [Index -> Handle \cup {NoHandle}] /\ bModIndex \in Index
  BY <1>5 DEF Init
<1>7. lpModuleHead \in Seq(Handle) /\ stack \in [Task -> Seq(Frame)]
  BY DEF Init
<1>8. info \in [Handle -> Mod] /\ holds \in [Handle -> Nat]
  BY DEF Init, Mod
<1>9. calls \in 0 .. MaxCalls /\ {halted, wrapped, nested} \subseteq BOOLEAN
  BY <1>5 DEF Init
<1> QED
  BY <1>2, <1>4, <1>6, <1>7, <1>8, <1>9 DEF IInv, Core

LEMMA NextCore ==
    ASSUME Types, IInv, [Next]_vars
    PROVE  IInv'
<1> USE DEF IInv
<1>1. CASE UNCHANGED vars
  <2>1. TableInv'
    BY <1>1, TableStays DEF Core, Like, vars, tableVars
  <2>2. FramesInv'
    BY <1>1 DEF Core, FramesInv, FramesLive, FramesApart, vars
  <2> QED
    BY <1>1, <2>1, <2>2 DEF Core, vars
<1>2. ASSUME NEW t \in Task, NEW f \in File, LoadLibrary(t, f) \/ LoadModule(t, f)
      PROVE  IInv'
  <2>1. Load(t, f)
    BY <1>2 DEF LoadLibrary, LoadModule
  <2>2. Core'
    BY <2>1, LoadKeeps
  <2>3. calls' \in 0 .. MaxCalls /\ halted' \in BOOLEAN /\ nested' \in BOOLEAN
    BY <2>1 DEF Load, MayCall, Types, TableAssumption
  <2> QED
    BY <2>2, <2>3
<1>3. ASSUME NEW t \in Task, NEW h \in Handle, FreeLibrary(t, h)
      PROVE  IInv'
  <2>1. Core'
    BY <1>3, FreeLibraryKeeps
  <2>2. calls' \in 0 .. MaxCalls /\ halted' \in BOOLEAN /\ nested' \in BOOLEAN
    BY <1>3 DEF FreeLibrary, MayCall
  <2> QED
    BY <2>1, <2>2
<1>4. ASSUME NEW t \in Task, Import(t) \/ ImportsDone(t) \/ BoxCloses(t) \/ InitReturns(t)
      PROVE  IInv'
  <2>1. Core'
    BY <1>4, ImportKeeps, ImportsDoneKeeps, BoxClosesKeeps, InitReturnsKeeps
  <2>2. calls' \in 0 .. MaxCalls /\ nested' \in BOOLEAN
    BY <1>4 DEF Import, ImportsDone, BoxCloses, InitReturns
  <2>3. halted' \in BOOLEAN
    <3>1. CASE ImportsDone(t)
      BY <3>1 DEF ImportsDone, LoadFails
    <3>2. CASE Import(t) \/ BoxCloses(t) \/ InitReturns(t)
      BY <3>2 DEF Import, BoxCloses, InitReturns, LoadFails
    <3> QED
      BY <1>4, <3>1, <3>2
  <2> QED
    BY <2>1, <2>2, <2>3
<1> QED
  BY <1>1, <1>2, <1>3, <1>4 DEF Next

\* From the assumptions about the files and the constants on, IInv holds whoever loads
\* and frees while loads wait.
THEOREM LoaderInductive == Spec => []IInv
<1>1. Types
  BY FileAssumption, TableAssumption DEF Types
<1>2. Init => IInv
  BY <1>1, InitCore
<1>3. IInv /\ [Next]_vars => IInv'
  BY <1>1, NextCore
<1> QED
  BY <1>2, <1>3, PTL DEF Spec

----------------------------------------------------------------------------
\* Until something is loaded or freed while a load waits

\* Loads wait for those of their imports, the newest for whatever it is.
BelowImport == \A t \in Task : \A i \in 1 .. Len(stack[t]) - 1 : stack[t][i].at = "Imports"

\* The module of a load in progress is listed under the name of its file, and no program
\* has it yet; a descriptor was counted before its initialisation.
FrameListed(f) ==
    /\ f.h \in Listed /\ info[f.h].name = f.file
    /\ holds[f.h] = 0
    /\ Kind[f.file] = "builtin" => info[f.h].nRefCnt >= 1
FramesListed == \A t \in Task : \A i \in 1 .. Len(stack[t]) : FrameListed(stack[t][i])

\* What programs hold is there, and counted.
HoldsCounted == \A h \in Handle : holds[h] > 0 => h \in Listed /\ info[h].nRefCnt >= holds[h]

\* Indices given out are not above the last one, none is 0, and each leads to its module.
NumbersFind ==
    ~wrapped => \A h \in Listed :
        info[h].bModIndex \in 1 .. bModIndex /\ lpModuleTable[info[h].bModIndex] = h

Alone == BelowImport /\ FramesListed /\ HoldsCounted /\ NumbersFind
AloneInv == ~nested => Alone

LEMMA NumbersStay ==
    ASSUME NumbersFind, UNCHANGED tableVars, \A h \in Listed : Like(info'[h], info[h])
    PROVE  NumbersFind'
BY DEF NumbersFind, tableVars, Listed, Places, Like

LEMMA NumbersGrow ==
    ASSUME Types, Core, NumbersFind, NEW h \in Handle, NewModuleEntry(h),
           Listed' = Listed \cup {h}, info'[h].bModIndex = NextIndex,
           \A g \in Listed : Like(info'[g], info[g])
    PROVE  NumbersFind'
<1>1. SUFFICES ASSUME ~wrapped'
               PROVE  \A g \in Listed' : info'[g].bModIndex \in 1 .. bModIndex'
                                         /\ lpModuleTable'[info'[g].bModIndex] = g
  BY DEF NumbersFind
<1>2. ~wrapped /\ bModIndex' = NextIndex /\ NextIndex # 0
  BY <1>1 DEF NewModuleEntry
<1>3. NextIndex \in Index /\ NextIndex = bModIndex + 1 /\ bModIndex \in Nat
  <2>1. bModIndex \in Nat /\ MaxIndex \in Nat \ {0} /\ bModIndex < MaxIndex
    BY DEF Core, Index, Types, TableAssumption
  <2>2. bModIndex + 1 < MaxIndex \/ bModIndex + 1 = MaxIndex
    BY <2>1
  <2>3. CASE bModIndex + 1 < MaxIndex
    BY <2>1, <2>3 DEF NextIndex, Index
  <2>4. CASE bModIndex + 1 = MaxIndex
    BY <1>2, <2>1, <2>4 DEF NextIndex
  <2> QED
    BY <2>2, <2>3, <2>4
<1>4. lpModuleTable' = [lpModuleTable EXCEPT ![NextIndex] = h]
  BY DEF NewModuleEntry
<1>5. info'[h].bModIndex \in 1 .. bModIndex' /\ lpModuleTable'[info'[h].bModIndex] = h
  BY <1>2, <1>3, <1>4 DEF Core
<1>6. ASSUME NEW g \in Listed
      PROVE  info'[g].bModIndex \in 1 .. bModIndex' /\ lpModuleTable'[info'[g].bModIndex] = g
  <2>1. /\ info'[g].bModIndex = info[g].bModIndex
        /\ info[g].bModIndex \in 1 .. bModIndex /\ lpModuleTable[info[g].bModIndex] = g
    BY <1>2 DEF NumbersFind, Like
  <2>2. info[g].bModIndex # NextIndex /\ info[g].bModIndex \in Index
    <3>1. bModIndex < MaxIndex /\ MaxIndex \in Nat \ {0}
      BY DEF Core, Index, Types, TableAssumption
    <3> QED
      BY <1>3, <2>1, <3>1 DEF Index
  <2> QED
    BY <1>2, <1>3, <1>4, <2>1, <2>2 DEF Core
<1> QED
  BY <1>5, <1>6

LEMMA NumbersShrink ==
    ASSUME Types, Core, NumbersFind, NEW h \in Listed, FreeModuleEntry(h),
           Listed' = Listed \ {h}, \A g \in Listed \ {h} : Like(info'[g], info[g])
    PROVE  NumbersFind'
<1>1. SUFFICES ASSUME ~wrapped', NEW g \in Listed \ {h}
               PROVE  info[g].bModIndex \in 1 .. bModIndex'
                      /\ lpModuleTable'[info[g].bModIndex] = g
  BY DEF NumbersFind, Like
<1>2. ~wrapped
  BY <1>1 DEF FreeModuleEntry
<1>3. /\ info[h].bModIndex \in 1 .. bModIndex /\ lpModuleTable[info[h].bModIndex] = h
      /\ info[g].bModIndex \in 1 .. bModIndex /\ lpModuleTable[info[g].bModIndex] = g
  BY <1>2 DEF NumbersFind
<1>4. info[g].bModIndex # info[h].bModIndex
  BY <1>3
<1>5. bModIndex \in Nat /\ bModIndex < MaxIndex /\ MaxIndex \in Nat \ {0}
  BY DEF Core, Index, Types, TableAssumption
<1>6. bModIndex \in Nat \ {0} /\ (bModIndex - 1) % MaxIndex = bModIndex - 1
  <2>1. bModIndex >= 1
    BY <1>3, <1>5
  <2>2. bModIndex - 1 \in 0 .. MaxIndex - 1
    BY <1>5, <2>1
  <2> QED
    BY <1>5, <2>1, <2>2
<1>7. /\ lpModuleTable' = [lpModuleTable EXCEPT ![info[h].bModIndex] = NoHandle]
      /\ bModIndex' = IF bModIndex = info[h].bModIndex THEN bModIndex - 1 ELSE bModIndex
  BY <1>6 DEF FreeModuleEntry
<1>8. info[g].bModIndex \in Index
  BY <1>3, <1>5 DEF Index
<1>9. lpModuleTable'[info[g].bModIndex] = g
  BY <1>3, <1>4, <1>7, <1>8 DEF Core
<1>10. info[g].bModIndex \in 1 .. bModIndex'
  BY <1>3, <1>4, <1>5, <1>7
<1> QED
  BY <1>9, <1>10

\* No load begins, and the loads below the newest one wait as before.
Shrunk ==
    /\ \A u \in Task : Len(stack'[u]) <= Len(stack[u])
    /\ \A u \in Task : \A i \in 1 .. Len(stack'[u]) :
            /\ stack'[u][i].h = stack[u][i].h /\ stack'[u][i].file = stack[u][i].file
            /\ i # Len(stack'[u]) => stack'[u][i].at = stack[u][i].at

\* A module that stays listed, with its name and at least its count; no program has it.
HandleStays(h) ==
    /\ h \in Listed' /\ info'[h].name = info[h].name
    /\ info[h].nRefCnt \in Nat /\ info'[h].nRefCnt \in Nat
    /\ info'[h].nRefCnt >= info[h].nRefCnt /\ holds'[h] = 0

LEMMA FramesStay ==
    ASSUME Types, Core, Core', BelowImport, FramesListed, Shrunk,
           \A u \in Task : \A i \in 1 .. Len(stack'[u]) : HandleStays(stack[u][i].h)
    PROVE  BelowImport' /\ FramesListed'
<1>1. \A u \in Task : Len(stack[u]) \in Nat /\ Len(stack'[u]) \in Nat
  BY DEF Core
<1>2. ASSUME NEW u \in Task, NEW i \in 1 .. Len(stack'[u]) - 1
      PROVE  stack'[u][i].at = "Imports"
  <2>1. i \in 1 .. Len(stack'[u]) /\ i # Len(stack'[u]) /\ i \in 1 .. Len(stack[u]) - 1
    BY <1>1 DEF Shrunk
  <2> QED
    BY <2>1 DEF Shrunk, BelowImport
<1>3. ASSUME NEW u \in Task, NEW i \in 1 .. Len(stack'[u])
      PROVE  FrameListed(stack[u][i])'
  <2>1. i \in 1 .. Len(stack[u])
    BY <1>1 DEF Shrunk
  <2>2. FrameListed(stack[u][i]) /\ HandleStays(stack[u][i].h)
    BY <2>1 DEF FramesListed
  <2>3. stack'[u][i].h = stack[u][i].h /\ stack'[u][i].file = stack[u][i].file
    BY DEF Shrunk
  <2> QED
    BY <2>2, <2>3 DEF FrameListed, HandleStays
<1> QED
  BY <1>2, <1>3 DEF BelowImport, FramesListed

LEMMA ReturnedStacks ==
    ASSUME Types, Core, NEW t \in Task, NEW s \in Seq(Frame), NEW r, NEW hInst, NEW modules,
           Len(s) <= Len(stack[t]), \A i \in 1 .. Len(s) : s[i] = stack[t][i],
           ReturnEffect(t, s, r, hInst, modules)
    PROVE  Shrunk
<1>1. Len(s) \in Nat /\ \A u \in Task : Len(stack[u]) \in Nat
  BY DEF Core
<1>2. ASSUME NEW u \in Task
      PROVE  /\ Len(stack'[u]) <= Len(stack[u])
             /\ \A i \in 1 .. Len(stack'[u]) :
                  /\ stack'[u][i].h = stack[u][i].h /\ stack'[u][i].file = stack[u][i].file
                  /\ i # Len(stack'[u]) => stack'[u][i].at = stack[u][i].at
  <2>1. CASE u = t
    BY <1>1, <2>1 DEF ReturnEffect
  <2>2. CASE u # t
    BY <1>1, <2>2 DEF ReturnEffect
  <2> QED
    BY <2>1, <2>2
<1> QED
  BY <1>2 DEF Shrunk

\* Modules that are not held are no concern of the programs.
LEMMA HeldOnly ==
    ASSUME Types, Core, HoldsCounted, NEW h \in Handle, h \notin Listed
    PROVE  holds[h] = 0
<1>1. holds[h] \in Nat
  BY DEF Core
<1> QED
  BY <1>1 DEF HoldsCounted

\* The stacks when the top load returns.
LEMMA BelowStacks ==
    ASSUME Types, Core, NEW t \in Task, stack[t] # <<>>, NEW r, NEW hInst, NEW modules,
           ReturnEffect(t, Below(t), r, hInst, modules)
    PROVE  /\ Shrunk
           /\ \A u \in Task : \A i \in 1 .. Len(stack'[u]) :
                i \in 1 .. Len(stack[u]) /\ stack[u][i].h # Top(t).h
<1>1. /\ Len(stack[t]) \in Nat \ {0} /\ Below(t) \in Seq(Frame) /\ Len(Below(t)) = Len(stack[t]) - 1
      /\ \A i \in 1 .. Len(stack[t]) - 1 : Below(t)[i] = stack[t][i]
      /\ \A u \in Task : \A i \in 1 .. Len(stack[u]) :
            stack[u][i].h = Top(t).h => u = t /\ i = Len(stack[t])
  BY TopFacts
<1>2. Shrunk
  BY <1>1, ReturnedStacks
<1>3. Len(stack'[t]) = Len(stack[t]) - 1
  BY <1>1 DEF ReturnEffect
<1>4. ASSUME NEW u \in Task, NEW i \in 1 .. Len(stack'[u])
      PROVE  i \in 1 .. Len(stack[u]) /\ stack[u][i].h # Top(t).h
  <2>1. Len(stack[u]) \in Nat /\ Len(stack'[u]) \in Nat /\ Len(stack'[u]) <= Len(stack[u])
    BY <1>2 DEF Core, Shrunk, ReturnEffect
  <2>2. i \in 1 .. Len(stack[u])
    BY <2>1
  <2>3. u = t => i # Len(stack[t])
    BY <1>1, <1>3
  <2> QED
    BY <1>1, <2>2, <2>3
<1> QED
  BY <1>2, <1>4

\* The module on top of a stack.
LEMMA TopListed ==
    ASSUME Types, Core, FramesListed, NEW t \in Task, stack[t] # <<>>
    PROVE  /\ Top(t).h \in Listed /\ info[Top(t).h].name = Top(t).file
           /\ holds[Top(t).h] = 0
           /\ Kind[Top(t).file] = "builtin" => info[Top(t).h].nRefCnt >= 1
<1>1. Len(stack[t]) \in 1 .. Len(stack[t])
  BY TopFacts
<1> QED
  BY <1>1 DEF FramesListed, FrameListed, Top

LEMMA CreateAlone ==
    ASSUME Types, Core, Core', Alone, NEW t \in Task, NEW f \in File, CreateModuleInstance(t, f),
           \A i \in 1 .. Len(stack[t]) : stack[t][i].at = "Imports"
    PROVE  Alone'
<1>1. PICK h \in Handle :
        /\ info[h] = Blank /\ NewModuleEntry(h)
        /\ info' = [info EXCEPT ![h] = NewModule(f)]
        /\ stack' = [stack EXCEPT ![t] = Append(@, [h |-> h, file |-> f, at |-> FirstWait(f)])]
        /\ holds' = holds
  BY DEF CreateModuleInstance
<1>2. /\ NewModule(f).name = f /\ NewModule(f).bModIndex = NextIndex
      /\ NewModule(f).nRefCnt = IF Kind[f] \in {"builtin", "native", "pe"} THEN 1 ELSE 0
  BY NewModuleTyped DEF Core
<1>3. h \notin Listed
  BY <1>1 DEF Core, TableInv, PointersLive
<1>4. info'[h] = NewModule(f) /\ \A g \in Handle : g # h => info'[g] = info[g]
  BY <1>1 DEF Core
<1>5. Listed' = Listed \cup {h}
  BY <1>1, <1>3, Pushed DEF NewModuleEntry, Core, TableInv
<1>6. NumbersFind'
  <2>1. \A g \in Listed : Like(info'[g], info[g])
    BY <1>3, <1>4, ListedModules DEF Like
  <2>2. info'[h].bModIndex = NextIndex
    BY <1>2, <1>4
  <2> QED
    BY <1>1, <1>5, <2>1, <2>2, NumbersGrow DEF Alone
<1>7. HoldsCounted'
  <2>1. holds[h] = 0
    BY <1>3, HeldOnly DEF Alone
  <2>2. ASSUME NEW g \in Handle, holds'[g] > 0
        PROVE  g \in Listed' /\ info'[g].nRefCnt >= holds'[g]
    <3>1. g # h /\ holds[g] > 0
      BY <1>1, <2>1, <2>2
    <3>2. g \in Listed /\ info[g].nRefCnt >= holds[g]
      BY <3>1 DEF Alone, HoldsCounted
    <3> QED
      BY <1>1, <1>4, <1>5, <3>1, <3>2
  <2> QED
    BY <2>2 DEF HoldsCounted
<1> DEFINE fr == [h |-> h, file |-> f, at |-> FirstWait(f)]
<1>8. fr.h = h /\ fr.file = f
  OBVIOUS
<1>9. stack' = [stack EXCEPT ![t] = Append(@, fr)]
  BY <1>1
<1> HIDE DEF fr
<1>10. /\ \A u \in Task \ {t} : stack'[u] = stack[u]
       /\ Len(stack[t]) \in Nat /\ Len(stack'[t]) = Len(stack[t]) + 1
       /\ \A i \in 1 .. Len(stack[t]) : stack'[t][i] = stack[t][i]
       /\ stack'[t][Len(stack[t]) + 1] = fr
  BY <1>9 DEF Core
<1>11. BelowImport'
  <2>1. SUFFICES ASSUME NEW u \in Task, NEW i \in 1 .. Len(stack'[u]) - 1
                 PROVE  stack'[u][i].at = "Imports"
    BY DEF BelowImport
  <2>2. CASE u = t
    BY <1>10, <2>2
  <2>3. CASE u # t
    BY <1>10, <2>3 DEF Alone, BelowImport
  <2> QED
    BY <2>2, <2>3
<1>12. FramesListed'
  <2> DEFINE Ok(fo) == /\ fo.h \in Listed' /\ info'[fo.h].name = fo.file
                       /\ holds'[fo.h] = 0
                       /\ Kind[fo.file] = "builtin" => info'[fo.h].nRefCnt >= 1
  <2>1. ASSUME NEW u \in Task, NEW i \in 1 .. Len(stack[u])
        PROVE  Ok(stack[u][i])
    <3>1. FrameListed(stack[u][i]) /\ stack[u][i].h \in Handle
      BY ListedModules DEF Alone, FramesListed
    <3>2. stack[u][i].h # h
      BY <1>3, <3>1 DEF FrameListed
    <3> QED
      BY <1>1, <1>4, <1>5, <3>1, <3>2 DEF FrameListed
  <2>2. Ok(fr)
    <3>1. holds'[h] = 0
      BY <1>1, <1>3, HeldOnly DEF Alone
    <3> QED
      BY <1>2, <1>4, <1>5, <1>8, <3>1
  <2> HIDE DEF Ok
  <2>3. ASSUME NEW u \in Task, NEW i \in 1 .. Len(stack'[u])
        PROVE  Ok(stack'[u][i])
    <3>1. CASE u = t
      <4>1. i \in 1 .. Len(stack[t]) \/ i = Len(stack[t]) + 1
        BY <1>10, <3>1
      <4> QED
        BY <1>10, <2>1, <2>2, <3>1, <4>1
    <3>2. CASE u # t
      <4>1. stack'[u] = stack[u] /\ i \in 1 .. Len(stack[u])
        BY <1>10, <3>2
      <4> QED
        BY <2>1, <4>1
    <3> QED
      BY <3>1, <3>2
  <2> QED
    BY <2>3 DEF FramesListed, FrameListed, Ok
<1> QED
  BY <1>6, <1>7, <1>11, <1>12 DEF Alone

\* A module that is listed is found by a program when nothing waits, or by a load.
LEMMA FoundAlone ==
    ASSUME Types, Core, Core', Alone, NEW t \in Task, NEW old \in Listed,
           Return(t, stack[t], old, info[old].hInst, [info EXCEPT ![old].nRefCnt = @ + 1]),
           UNCHANGED tableVars,
           \/ \A u \in Task : stack[u] = <<>>
           \/ stack[t] # <<>> /\ stack[t][Len(stack[t])].at = "Imports"
    PROVE  Alone'
<1> DEFINE modules == [info EXCEPT ![old].nRefCnt = @ + 1]
           hInst == info[old].hInst
           s == stack[t]
<1>1. old \in Handle /\ info[old] \in Module /\ hInst \in BOOLEAN
  BY ListedModules DEF Module
<1>2. info[old].nRefCnt \in Nat
  BY <1>1 DEF Module
<1>3. /\ modules \in [Handle -> Mod]
      /\ \A g \in Handle : g # old => modules[g] = info[g]
      /\ Like(modules[old], info[old]) /\ modules[old].nRefCnt = info[old].nRefCnt + 1
  <2>1. /\ modules[old] = [info[old] EXCEPT !.nRefCnt = info[old].nRefCnt + 1]
        /\ \A g \in Handle : g # old => modules[g] = info[g]
    BY <1>1 DEF Core
  <2>2. /\ modules[old] \in Module /\ Like(modules[old], info[old])
        /\ modules[old].nRefCnt = info[old].nRefCnt + 1
    <3> DEFINE n == info[old].nRefCnt + 1
    <3>1. n \in Nat /\ modules[old] = [info[old] EXCEPT !.nRefCnt = n]
      BY <1>2, <2>1
    <3> HIDE DEF n, modules
    <3>2. /\ modules[old] \in Module /\ Like(modules[old], info[old])
          /\ modules[old].nRefCnt = n
      BY <1>1, <3>1, SetCount
    <3> QED
      BY <3>2 DEF n
  <2>3. modules \in [Handle -> Mod]
    BY <1>1, <2>2 DEF Core, Mod
  <2> QED
    BY <2>1, <2>2, <2>3
<1>4. Return(t, s, old, hInst, modules)
  OBVIOUS
<1> HIDE DEF modules, hInst
<1>5. ReturnEffect(t, s, old, hInst, modules)
  <2>1. s \in Seq(Frame) /\ (s # <<>> => Len(s) \in 1 .. Len(s))
    BY DEF Core
  <2>2. s # <<>> => modules[s[Len(s)].h] # Blank
    <3>1. SUFFICES ASSUME s # <<>> PROVE modules[s[Len(s)].h] # Blank
      OBVIOUS
    <3>2. s[Len(s)].h \in Handle /\ info[s[Len(s)].h] \in Module
      BY <2>1, <3>1, ListedModules
    <3>3. modules[s[Len(s)].h].name = info[s[Len(s)].h].name
      BY <1>3, <3>2 DEF Like
    <3> QED
      BY <3>2, <3>3, ModFields DEF Module, Blank, Types, TableAssumption
  <2> HIDE DEF s
  <2> QED
    BY <1>1, <1>3, <1>4, <2>1, <2>2, Returned DEF Core
<1>6. Listed' = Listed
  BY DEF tableVars, Listed, Places
<1>7. /\ \A g \in Handle : g # old => Like(info'[g], info[g]) /\ info'[g].nRefCnt = info[g].nRefCnt
      /\ Like(info'[old], info[old]) /\ info'[old].nRefCnt = info[old].nRefCnt + 1
  BY <1>1, <1>3, <1>5 DEF ReturnEffect, Like
<1>8. NumbersFind'
  <2>1. \A g \in Listed : Like(info'[g], info[g])
    BY <1>7, ListedModules
  <2> QED
    BY <2>1, NumbersStay DEF Alone
<1>9. Shrunk
  <2>1. stack[t] \in Seq(Frame) /\ Len(stack[t]) <= Len(stack[t])
    BY DEF Core
  <2> QED
    BY <1>5, <2>1, ReturnedStacks
<1>10. HoldsCounted'
  <2>1. ASSUME NEW g \in Handle, holds'[g] > 0
        PROVE  g \in Listed' /\ info'[g].nRefCnt >= holds'[g]
    <3>1. holds[g] \in Nat /\ info[g].nRefCnt \in Nat
      BY ModFields DEF Core
    <3>2. holds'[g] = holds[g] \/ (g = old /\ holds'[g] = holds[g] + 1)
      BY <1>1, <1>5 DEF ReturnEffect, Core
    <3>3. holds[g] > 0 => g \in Listed /\ info[g].nRefCnt >= holds[g]
      BY DEF Alone, HoldsCounted
    <3> QED
      BY <1>6, <1>7, <2>1, <3>1, <3>2, <3>3
  <2> QED
    BY <2>1 DEF HoldsCounted
<1>11. BelowImport' /\ FramesListed'
  <2>1. ASSUME NEW u \in Task, NEW i \in 1 .. Len(stack'[u])
        PROVE  HandleStays(stack[u][i].h)
    <3>1. Len(stack[u]) \in Nat /\ Len(stack'[u]) \in Nat /\ i \in 1 .. Len(stack[u])
      BY <1>9 DEF Core, Shrunk
    <3>2. stack[t] # <<>> /\ stack[t][Len(stack[t])].at = "Imports"
      BY <3>1
    <3>3. holds' = holds
      BY <1>5, <3>2 DEF ReturnEffect
    <3>4. stack[u][i].h \in Handle /\ stack[u][i].h \in Listed /\ holds[stack[u][i].h] = 0
      BY <3>1, ListedModules DEF Alone, FramesListed, FrameListed
    <3>5. info[stack[u][i].h].nRefCnt \in Nat
      BY <3>1, <3>4, ModFields DEF Core
    <3> QED
      BY <1>6, <1>7, <3>3, <3>4, <3>5 DEF HandleStays, Like
  <2> QED
    BY <1>9, <2>1, FramesStay DEF Alone
<1> QED
  BY <1>8, <1>10, <1>11 DEF Alone

LEMMA LoadFileAlone ==
    ASSUME Types, Core, Core', Alone, NEW t \in Task, NEW f \in File, TWIN_LoadFile(t, f),
           \/ \A u \in Task : stack[u] = <<>>
           \/ stack[t] # <<>> /\ stack[t][Len(stack[t])].at = "Imports"
    PROVE  Alone'
<1>1. CASE GetModuleHandle(f) = NoHandle
  <2>1. \A i \in 1 .. Len(stack[t]) : stack[t][i].at = "Imports"
    <3>1. Len(stack[t]) \in Nat
      BY DEF Core
    <3>2. ASSUME NEW i \in 1 .. Len(stack[t])
          PROVE  stack[t][i].at = "Imports"
      <4>1. stack[t] # <<>>
        BY <3>1
      <4>2. i \in 1 .. Len(stack[t]) - 1 \/ i = Len(stack[t])
        BY <3>1
      <4> QED
        BY <4>1, <4>2 DEF Alone, BelowImport
    <3> QED
      BY <3>2
  <2> QED
    BY <1>1, <2>1, CreateAlone DEF TWIN_LoadFile
<1>2. CASE GetModuleHandle(f) # NoHandle
  <2>1. GetModuleHandle(f) \in Listed
    BY <1>2, HandleFound DEF Core
  <2> QED
    BY <1>2, <2>1, FoundAlone DEF TWIN_LoadFile
<1> QED
  BY <1>1, <1>2

LEMMA FailsAlone ==
    ASSUME Types, Core, Core', Alone, NEW t \in Task, stack[t] # <<>>, LoadFails(t)
    PROVE  Alone'
<1> DEFINE h == Top(t).h
           m == IF info[h].pinned THEN [info[h] EXCEPT !.nRefCnt = @ + 1] ELSE Blank
           modules == [info EXCEPT ![h] = m]
           s == Below(t)
<1>1. FreeModuleEntry(h) /\ Return(t, s, NoHandle, FALSE, modules)
  BY DEF LoadFails
<1>2. /\ h \in Handle /\ info[h] \in Module /\ s \in Seq(Frame)
      /\ s # <<>> => s[Len(s)].h \in Handle /\ s[Len(s)].h # h /\ info[s[Len(s)].h] # Blank
  BY TopFacts
<1>3. m \in Mod
  <2>1. info[h].nRefCnt + 1 \in Nat
    BY <1>2 DEF Module
  <2> HIDE DEF h
  <2>2. [info[h] EXCEPT !.nRefCnt = info[h].nRefCnt + 1] \in Module
    BY <1>2, <2>1, SetCount
  <2> QED
    BY <2>2 DEF Mod
<1>4. h \in Listed /\ holds[h] = 0
  BY TopListed DEF Alone
<1>5. \A u \in Task : \A i \in 1 .. Len(stack[u]) : stack[u][i].h = h => u = t /\ i = Len(stack[t])
  BY TopFacts
<1> HIDE DEF m
<1>6. modules \in [Handle -> Mod] /\ \A g \in Handle : g # h => modules[g] = info[g]
  BY <1>2, <1>3 DEF Core
<1> HIDE DEF modules, s, h
<1>7. ReturnEffect(t, s, NoHandle, FALSE, modules)
  BY <1>1, <1>2, <1>6, Returned DEF Core
<1>8. Listed' = Listed \ {h}
  BY <1>1, <1>2, Unlinked DEF FreeModuleEntry, Core, TableInv
<1>9. \A g \in Handle : g # h => Like(info'[g], info[g]) /\ info'[g].nRefCnt = info[g].nRefCnt
  BY <1>6, <1>7 DEF ReturnEffect
<1>10. holds' = holds
  BY <1>7 DEF ReturnEffect
<1>11. NumbersFind'
  <2>1. \A g \in Listed \ {h} : Like(info'[g], info[g])
    BY <1>9, ListedModules
  <2> QED
    BY <1>1, <1>4, <1>8, <2>1, NumbersShrink DEF Alone
<1>12. HoldsCounted'
  <2>1. ASSUME NEW g \in Handle, holds'[g] > 0
        PROVE  g \in Listed' /\ info'[g].nRefCnt >= holds'[g]
    <3>1. holds[g] > 0 /\ g # h
      BY <1>4, <1>10, <2>1
    <3>2. g \in Listed /\ info[g].nRefCnt >= holds[g]
      BY <3>1 DEF Alone, HoldsCounted
    <3> QED
      BY <1>8, <1>9, <1>10, <3>1, <3>2
  <2> QED
    BY <2>1 DEF HoldsCounted
<1>13. BelowImport' /\ FramesListed'
  <2>1. /\ Shrunk
        /\ \A u \in Task : \A i \in 1 .. Len(stack'[u]) :
              i \in 1 .. Len(stack[u]) /\ stack[u][i].h # h
    BY <1>7, BelowStacks DEF h, s
  <2>2. ASSUME NEW u \in Task, NEW i \in 1 .. Len(stack'[u])
        PROVE  HandleStays(stack[u][i].h)
    <3>1. i \in 1 .. Len(stack[u]) /\ stack[u][i].h # h
      BY <2>1
    <3>2. stack[u][i].h \in Handle /\ stack[u][i].h \in Listed /\ holds[stack[u][i].h] = 0
      BY <3>1, ListedModules DEF Alone, FramesListed, FrameListed
    <3>3. info[stack[u][i].h].nRefCnt \in Nat
      BY <3>2, ModFields DEF Core
    <3> QED
      BY <1>8, <1>9, <1>10, <3>1, <3>2, <3>3 DEF HandleStays, Like
  <2> QED
    BY <2>1, <2>2, FramesStay DEF Alone
<1> QED
  BY <1>11, <1>12, <1>13 DEF Alone

\* The module of a load that ends is listed still, and counted from now on.
LEMMA EndsAlone ==
    ASSUME Types, Core, Core', Alone, NEW t \in Task, stack[t] # <<>>,
           NEW n \in Nat \ {0}, LoadEnds(t, n)
    PROVE  Alone'
<1> DEFINE h == Top(t).h
           modules == [info EXCEPT ![h] = [info[h] EXCEPT !.nRefCnt = n]]
           hInst == info[h].hInst \/ Kind[Top(t).file] = "pe"
           s == Below(t)
<1>1. /\ h \in Handle /\ info[h] \in Module /\ s \in Seq(Frame)
      /\ s # <<>> => s[Len(s)].h \in Handle /\ s[Len(s)].h # h /\ info[s[Len(s)].h] # Blank
  BY TopFacts
<1>2. h \in Listed /\ holds[h] = 0
  BY TopListed DEF Alone
<1>3. Return(t, s, h, hInst, modules) /\ UNCHANGED tableVars
  <2>1. Released(h) = info[h] /\ info[h] # Blank
    BY <1>1, <1>2 DEF Released, Module, Blank, Types, TableAssumption
  <2> QED
    BY <2>1 DEF LoadEnds
<1>4. hInst \in BOOLEAN
  <2>1. info[h].hInst \in BOOLEAN
    BY <1>1 DEF Module
  <2> QED
    BY <2>1
<1> HIDE DEF h, s, hInst
<1>5. /\ modules \in [Handle -> Mod]
      /\ \A g \in Handle : g # h => modules[g] = info[g]
      /\ Like(modules[h], info[h]) /\ modules[h].nRefCnt = n
  <2>1. /\ modules[h] = [info[h] EXCEPT !.nRefCnt = n]
        /\ \A g \in Handle : g # h => modules[g] = info[g]
    BY <1>1 DEF Core
  <2>2. modules[h] \in Module /\ Like(modules[h], info[h]) /\ modules[h].nRefCnt = n
    <3> HIDE DEF modules
    <3> QED
      BY <1>1, <2>1, SetCount
  <2>3. modules \in [Handle -> Mod]
    BY <1>1, <2>2 DEF Core, Mod
  <2> QED
    BY <2>1, <2>2, <2>3
<1> HIDE DEF modules
<1>6. ReturnEffect(t, s, h, hInst, modules)
  BY <1>1, <1>3, <1>4, <1>5, Returned DEF Core
<1>7. Listed' = Listed
  BY <1>3 DEF tableVars, Listed, Places
<1>8. /\ \A g \in Handle : g # h => Like(info'[g], info[g]) /\ info'[g].nRefCnt = info[g].nRefCnt
      /\ Like(info'[h], info[h]) /\ info'[h].nRefCnt = n
  BY <1>1, <1>5, <1>6 DEF ReturnEffect, Like
<1>9. \A g \in Handle : g # h => holds'[g] = holds[g]
  BY <1>6 DEF ReturnEffect, Core
<1>10. NumbersFind'
  <2>1. \A g \in Listed : Like(info'[g], info[g])
    BY <1>8, ListedModules
  <2> QED
    BY <1>3, <2>1, NumbersStay DEF Alone
<1>11. HoldsCounted'
  <2>1. holds'[h] = 0 \/ holds'[h] = 1
    BY <1>1, <1>2, <1>6 DEF ReturnEffect, Core
  <2>2. ASSUME NEW g \in Handle, holds'[g] > 0
        PROVE  g \in Listed' /\ info'[g].nRefCnt >= holds'[g]
    <3>1. CASE g = h
      BY <1>2, <1>7, <1>8, <2>1, <3>1
    <3>2. CASE g # h
      <4>1. g \in Listed /\ info[g].nRefCnt >= holds[g]
        BY <1>9, <2>2, <3>2 DEF Alone, HoldsCounted
      <4> QED
        BY <1>7, <1>8, <1>9, <3>2, <4>1
    <3> QED
      BY <3>1, <3>2
  <2> QED
    BY <2>2 DEF HoldsCounted
<1>12. BelowImport' /\ FramesListed'
  <2>1. /\ Shrunk
        /\ \A u \in Task : \A i \in 1 .. Len(stack'[u]) :
              i \in 1 .. Len(stack[u]) /\ stack[u][i].h # h
    BY <1>6, BelowStacks DEF h, s
  <2>2. ASSUME NEW u \in Task, NEW i \in 1 .. Len(stack'[u])
        PROVE  HandleStays(stack[u][i].h)
    <3>1. i \in 1 .. Len(stack[u]) /\ stack[u][i].h # h
      BY <2>1
    <3>2. stack[u][i].h \in Handle /\ stack[u][i].h \in Listed /\ holds[stack[u][i].h] = 0
      BY <3>1, ListedModules DEF Alone, FramesListed, FrameListed
    <3>3. info[stack[u][i].h].nRefCnt \in Nat
      BY <3>2, ModFields DEF Core
    <3> QED
      BY <1>7, <1>8, <1>9, <3>1, <3>2, <3>3 DEF HandleStays, Like
  <2> QED
    BY <2>1, <2>2, FramesStay DEF Alone
<1> QED
  BY <1>10, <1>11, <1>12 DEF Alone

\* The module that is looked up once more is the load's own.
LEMMA NativeAlone ==
    ASSUME Types, Core, FramesListed, NEW t \in Task, stack[t] # <<>>,
           Kind[Top(t).file] = "native", NativeEnds(t)
    PROVE  LoadEnds(t, 1)
<1> DEFINE h == Top(t).h
           f == Top(t).file
           old == GetModuleHandle(f)
<1>1. h \in Handle /\ info[h] \in Module /\ h \in Listed /\ info[h].name = f
  BY TopFacts, TopListed
<1>2. old = h
  <2>1. old # NoHandle
    BY <1>1, HandleFound DEF Core
  <2>2. old \in Listed /\ info[old].name = f
    BY <2>1, HandleFound DEF Core
  <2> QED
    BY <1>1, <2>2 DEF Core, TableInv, NamesApart
<1>3. Released(h) = info[h] /\ info[h] # Blank /\ h # NoHandle
  BY <1>1 DEF Released, Module, Blank, Types, TableAssumption
<1>4. (info[h].hInst \/ Kind[f] = "pe") = info[h].hInst
  <2>1. info[h].hInst \in BOOLEAN
    BY <1>1 DEF Module
  <2> QED
    BY <2>1
<1>5. [info EXCEPT ![h] = info[h]] = info
  BY DEF Core
<1>6. Return(t, Below(t), h, info[h].hInst, [info EXCEPT ![h].nRefCnt = 1]) /\ UNCHANGED tableVars
  BY <1>2, <1>3, <1>5 DEF NativeEnds
<1> QED
  BY <1>3, <1>4, <1>6 DEF LoadEnds

LEMMA FreeLibraryAlone ==
    ASSUME Types, Core, Core', Alone, NEW t \in Task, NEW h \in Handle, FreeLibrary(t, h),
           \A u \in Task : stack[u] = <<>>
    PROVE  Alone'
<1>1. /\ holds[h] > 0 /\ holds' = [holds EXCEPT ![h] = holds[h] - 1] /\ stack' = stack
  BY DEF FreeLibrary
<1>2. BelowImport' /\ FramesListed'
  <2>1. \A u \in Task : stack'[u] = <<>> /\ Len(stack'[u]) = 0
    BY <1>1
  <2> QED
    BY <2>1 DEF BelowImport, FramesListed
<1>3. h \in Listed /\ info[h].nRefCnt >= holds[h]
  BY <1>1 DEF Alone, HoldsCounted
<1>4. /\ holds[h] \in Nat /\ info[h].nRefCnt \in Nat /\ info[h] \in Module
      /\ holds'[h] = holds[h] - 1 /\ \A g \in Handle : g # h => holds'[g] = holds[g]
  BY <1>1, <1>3, ModFields, ListedModules DEF Core
<1>5. CASE info[h].nRefCnt = 1
  <2>1. FreeModuleEntry(h) /\ \A g \in Handle : g # h => info'[g] = info[g]
    BY <1>5 DEF FreeLibrary, Core
  <2>2. Listed' = Listed \ {h}
    BY <2>1, Unlinked DEF FreeModuleEntry, Core, TableInv
  <2>3. NumbersFind'
    <3>1. \A g \in Listed \ {h} : Like(info'[g], info[g])
      BY <2>1, ListedModules DEF Like
    <3> QED
      BY <1>3, <2>1, <2>2, <3>1, NumbersShrink DEF Alone
  <2>4. HoldsCounted'
    <3>1. holds'[h] = 0
      BY <1>1, <1>3, <1>4, <1>5
    <3>2. ASSUME NEW g \in Handle, holds'[g] > 0
          PROVE  g \in Listed' /\ info'[g].nRefCnt >= holds'[g]
      <4>1. g # h
        BY <3>1, <3>2
      <4>2. g \in Listed /\ info[g].nRefCnt >= holds[g]
        BY <1>4, <3>2, <4>1 DEF Alone, HoldsCounted
      <4> QED
        BY <1>4, <2>1, <2>2, <4>1, <4>2
    <3> QED
      BY <3>2 DEF HoldsCounted
  <2> QED
    BY <1>2, <2>3, <2>4 DEF Alone
<1>6. CASE info[h].nRefCnt # 1
  <2> DEFINE n == info[h].nRefCnt - 1
  <2>1. /\ UNCHANGED tableVars
        /\ info' = [info EXCEPT ![h].nRefCnt = n]
    BY <1>1, <1>3, <1>4, <1>6 DEF FreeLibrary
  <2>2. n \in Nat
    BY <1>1, <1>3, <1>4
  <2>3. n >= holds'[h]
    BY <1>3, <1>4
  <2> HIDE DEF n
  <2>4. /\ info'[h] = [info[h] EXCEPT !.nRefCnt = n]
        /\ \A g \in Handle : g # h => info'[g] = info[g]
    BY <2>1 DEF Core
  <2>5. Like(info'[h], info[h]) /\ info'[h].nRefCnt = n
    BY <1>4, <2>2, <2>4, SetCount
  <2>6. Listed' = Listed
    BY <2>1 DEF tableVars, Listed, Places
  <2>7. NumbersFind'
    <3>1. \A g \in Listed : Like(info'[g], info[g])
      BY <2>4, <2>5, ListedModules DEF Like
    <3> QED
      BY <2>1, <3>1, NumbersStay DEF Alone
  <2>8. HoldsCounted'
    <3>1. ASSUME NEW g \in Handle, holds'[g] > 0
          PROVE  g \in Listed' /\ info'[g].nRefCnt >= holds'[g]
      <4>1. CASE g = h
        BY <1>3, <2>3, <2>5, <2>6, <4>1
      <4>2. CASE g # h
        <5>1. g \in Listed /\ info[g].nRefCnt >= holds[g]
          BY <1>4, <3>1, <4>2 DEF Alone, HoldsCounted
        <5> QED
          BY <1>4, <2>4, <2>6, <4>2, <5>1
      <4> QED
        BY <4>1, <4>2
    <3> QED
      BY <3>1 DEF HoldsCounted
  <2> QED
    BY <1>2, <2>7, <2>8 DEF Alone
<1> QED
  BY <1>5, <1>6

LEMMA MovesAlone ==
    ASSUME Types, Core, Core', Alone, NEW t \in Task, stack[t] # <<>>,
           NEW place \in {"Imports", "Box", "Init"},
           stack' = [stack EXCEPT ![t][Len(stack[t])].at = place],
           info' = info \/ info' = [info EXCEPT ![Top(t).h].hInst = TRUE],
           UNCHANGED <<tableVars, holds>>
    PROVE  Alone'
<1> DEFINE h == Top(t).h
           n == Len(stack[t])
           top == [stack[t][n] EXCEPT !.at = place]
<1>1. h \in Handle /\ info[h] \in Module /\ n \in 1 .. n /\ stack[t][n] \in Frame
  BY TopFacts DEF Top
<1>2. top.h = stack[t][n].h /\ top.file = stack[t][n].file
  BY <1>1 DEF Frame
<1>3. stack' = [stack EXCEPT ![t] = [stack[t] EXCEPT ![n] = top]]
  OBVIOUS
<1> HIDE DEF top, h
<1>4. \A g \in Handle : Like(info'[g], info[g]) /\ info'[g].nRefCnt = info[g].nRefCnt
  <2>1. CASE info' = info
    BY <2>1 DEF Like
  <2>2. CASE info' = [info EXCEPT ![h].hInst = TRUE]
    <3>1. /\ info'[h] = [info[h] EXCEPT !.hInst = TRUE]
          /\ \A g \in Handle : g # h => info'[g] = info[g]
      BY <1>1, <2>2 DEF Core
    <3>2. Like(info'[h], info[h]) /\ info'[h].nRefCnt = info[h].nRefCnt
      BY <1>1, <3>1, SetInst
    <3> QED
      BY <3>1, <3>2 DEF Like
  <2> QED
    BY <2>1, <2>2 DEF h
<1>5. Shrunk
  <2>1. /\ Len([stack[t] EXCEPT ![n] = top]) = n
        /\ \A i \in 1 .. n : i # n => [stack[t] EXCEPT ![n] = top][i] = stack[t][i]
        /\ [stack[t] EXCEPT ![n] = top][n] = top
    BY <1>1 DEF Core
  <2>2. ASSUME NEW u \in Task
        PROVE  /\ Len(stack'[u]) = Len(stack[u])
               /\ \A i \in 1 .. Len(stack[u]) :
                    /\ stack'[u][i].h = stack[u][i].h /\ stack'[u][i].file = stack[u][i].file
                    /\ i # Len(stack[u]) => stack'[u][i].at = stack[u][i].at
    <3>1. CASE u = t
      <4>1. stack'[t] = [stack[t] EXCEPT ![n] = top]
        BY <1>3 DEF Core
      <4> HIDE DEF n
      <4>2. ASSUME NEW i \in 1 .. n
            PROVE  /\ stack'[t][i].h = stack[t][i].h /\ stack'[t][i].file = stack[t][i].file
                   /\ i # n => stack'[t][i].at = stack[t][i].at
        BY <1>2, <2>1, <4>1
      <4> QED
        BY <2>1, <3>1, <4>1, <4>2 DEF n
    <3>2. CASE u # t
      BY <1>3, <3>2 DEF Core
    <3> QED
      BY <3>1, <3>2
  <2>3. \A u \in Task : Len(stack[u]) \in Nat
    BY DEF Core
  <2> QED
    BY <2>2, <2>3 DEF Shrunk
<1>6. Listed' = Listed /\ holds' = holds
  BY DEF tableVars, Listed, Places
<1>7. NumbersFind'
  BY <1>4, NumbersStay, ListedModules DEF Alone
<1>8. HoldsCounted'
  BY <1>4, <1>6 DEF Alone, HoldsCounted
<1>9. BelowImport' /\ FramesListed'
  <2>1. ASSUME NEW u \in Task, NEW i \in 1 .. Len(stack'[u])
        PROVE  HandleStays(stack[u][i].h)
    <3>1. i \in 1 .. Len(stack[u])
      BY <1>5 DEF Shrunk, Core
    <3>2. stack[u][i].h \in Handle /\ stack[u][i].h \in Listed /\ holds[stack[u][i].h] = 0
      BY <3>1, ListedModules DEF Alone, FramesListed, FrameListed
    <3>3. info[stack[u][i].h].nRefCnt \in Nat
      BY <3>2, ModFields DEF Core
    <3> QED
      BY <1>4, <1>6, <3>2, <3>3 DEF HandleStays, Like
  <2> QED
    BY <1>5, <2>1, FramesStay DEF Alone
<1> QED
  BY <1>7, <1>8, <1>9 DEF Alone

LEMMA UnchangedAlone ==
    ASSUME Alone, UNCHANGED <<tableVars, info, stack, holds>>
    PROVE  Alone'
<1>1. Listed' = Listed
  BY DEF tableVars, Listed, Places
<1>2. BelowImport' /\ HoldsCounted'
  BY <1>1 DEF Alone, BelowImport, HoldsCounted
<1>3. FramesListed'
  BY <1>1 DEF Alone, FramesListed, FrameListed
<1>4. NumbersFind'
  BY <1>1 DEF Alone, NumbersFind, tableVars
<1> QED
  BY <1>2, <1>3, <1>4 DEF Alone

LEMMA ImportsDoneAlone ==
    ASSUME Types, Core, Core', Alone, NEW t \in Task, ImportsDone(t)
    PROVE  Alone'
<1> DEFINE f == Top(t)
           resolved == info[f.h].lpModIndex
           lacking == \E i \in 1 .. Len(resolved) : resolved[i] = NoHandle
<1>1. stack[t] # <<>>
  BY DEF ImportsDone, At
<1>2. CASE lacking
  <2>1. LoadFails(t)
    BY <1>2 DEF ImportsDone
  <2> QED
    BY <1>1, <2>1, FailsAlone
<1>3. CASE ~lacking /\ Kind[f.file] = "short"
  <2> DEFINE box == "Box"
  <2>1. /\ stack' = [stack EXCEPT ![t][Len(stack[t])].at = box]
        /\ info' = info /\ UNCHANGED <<tableVars, holds>>
    BY <1>3 DEF ImportsDone
  <2>2. box \in {"Imports", "Box", "Init"}
    OBVIOUS
  <2> HIDE DEF box
  <2> QED
    BY <1>1, <2>1, <2>2, MovesAlone
<1>4. CASE ~lacking /\ Kind[f.file] # "short"
  <2> DEFINE init == "Init"
  <2>1. /\ stack' = [stack EXCEPT ![t][Len(stack[t])].at = init]
        /\ info' = [info EXCEPT ![f.h].hInst = TRUE] /\ UNCHANGED <<tableVars, holds>>
    BY <1>4 DEF ImportsDone
  <2>2. init \in {"Imports", "Box", "Init"}
    OBVIOUS
  <2> HIDE DEF init
  <2> QED
    BY <1>1, <2>1, <2>2, MovesAlone
<1> QED
  BY <1>2, <1>3, <1>4

LEMMA InitReturnsAlone ==
    ASSUME Types, Core, Core', Alone, NEW t \in Task, InitReturns(t)
    PROVE  Alone'
<1> DEFINE n == info[Top(t).h].nRefCnt
<1>1. stack[t] # <<>>
  BY DEF InitReturns, At
<1>2. n \in Nat /\ n + 1 \in Nat \ {0} /\ (Kind[Top(t).file] = "builtin" => n \in Nat \ {0})
  <2>1. n \in Nat
    BY <1>1, TopFacts DEF Module
  <2>2. Kind[Top(t).file] = "builtin" => n >= 1
    BY <1>1, TopListed DEF Alone
  <2> HIDE DEF n
  <2> QED
    BY <2>1, <2>2
<1>3. CASE Kind[Top(t).file] = "native"
  <2>1. NativeEnds(t)
    BY <1>3 DEF InitReturns
  <2> DEFINE k == 1
  <2>2. LoadEnds(t, k) /\ k \in Nat \ {0}
    BY <1>1, <1>3, <2>1, NativeAlone DEF Alone
  <2> HIDE DEF k
  <2> QED
    BY <1>1, <2>2, EndsAlone
<1>4. CASE Kind[Top(t).file] = "builtin"
  <2>1. LoadEnds(t, n)
    BY <1>4 DEF InitReturns
  <2> HIDE DEF n
  <2> QED
    BY <1>1, <1>2, <1>4, <2>1, EndsAlone
<1>5. CASE Kind[Top(t).file] \notin {"native", "builtin"}
  <2> DEFINE k == n + 1
  <2>1. LoadEnds(t, k)
    BY <1>5 DEF InitReturns
  <2>2. k \in Nat \ {0}
    BY <1>2
  <2> HIDE DEF k
  <2> QED
    BY <1>1, <2>1, <2>2, EndsAlone
<1> QED
  BY <1>3, <1>4, <1>5

LEMMA NextAlone ==
    ASSUME Types, Core, Core', AloneInv, nested \in BOOLEAN, [Next]_vars
    PROVE  AloneInv'
<1> SUFFICES ASSUME ~nested'
             PROVE  Alone'
  BY DEF AloneInv
<1>1. CASE UNCHANGED vars
  <2>1. Alone
    BY <1>1 DEF AloneInv, vars
  <2>2. UNCHANGED <<tableVars, info, stack, holds>>
    BY <1>1 DEF vars, tableVars
  <2> QED
    BY <2>1, <2>2, UnchangedAlone
<1>2. ASSUME NEW t \in Task, NEW f \in File, LoadLibrary(t, f) \/ LoadModule(t, f)
      PROVE  Alone'
  <2>1. ~nested /\ (\A u \in Task : stack[u] = <<>>) /\ TWIN_LoadFile(t, f)
    BY <1>2 DEF LoadLibrary, LoadModule, Load, MayCall
  <2> QED
    BY <2>1, LoadFileAlone DEF AloneInv
<1>3. ASSUME NEW t \in Task, NEW h \in Handle, FreeLibrary(t, h)
      PROVE  Alone'
  <2>1. ~nested /\ \A u \in Task : stack[u] = <<>>
    BY <1>3 DEF FreeLibrary, MayCall
  <2> QED
    BY <1>3, <2>1, FreeLibraryAlone DEF AloneInv
<1>4. ASSUME NEW t \in Task, Import(t)
      PROVE  Alone'
  <2> DEFINE f == Top(t)
             n == Len(info[f.h].lpModIndex) + 1
  <2>1. /\ ~nested /\ stack[t] # <<>> /\ f.at = "Imports"
        /\ n <= Len(Imports[f.file]) /\ TWIN_LoadFile(t, Imports[f.file][n])
    BY <1>4 DEF Import, At
  <2>2. f.file \in File /\ info[f.h] \in Module
    BY <2>1, TopFacts
  <2>3. n \in Nat \ {0}
    <3>1. info[f.h].lpModIndex \in Seq(Handle \cup {NoHandle})
      BY <2>2 DEF Module
    <3> QED
      BY <3>1
  <2>4. stack[t][Len(stack[t])].at = "Imports"
    BY <2>1 DEF Top
  <2> HIDE DEF f, n
  <2>5. Imports[f.file] \in Seq(File)
    BY <2>2 DEF Types, FileAssumption
  <2>6. Imports[f.file][n] \in File
    BY <2>1, <2>3, <2>5
  <2> QED
    BY <2>1, <2>4, <2>6, LoadFileAlone DEF AloneInv
<1>5. ASSUME NEW t \in Task, ImportsDone(t) \/ InitReturns(t)
      PROVE  Alone'
  <2>1. ~nested
    BY <1>5 DEF ImportsDone, InitReturns
  <2> QED
    BY <1>5, <2>1, ImportsDoneAlone, InitReturnsAlone DEF AloneInv
<1>6. ASSUME NEW t \in Task, BoxCloses(t)
      PROVE  Alone'
  <2>1. Alone /\ stack[t] # <<>>
    BY <1>6 DEF BoxCloses, At, AloneInv
  <2>2. CASE Kind[Top(t).file] = "short"
    <3>1. UNCHANGED <<tableVars, info, stack, holds>>
      BY <1>6, <2>2 DEF BoxCloses
    <3> QED
      BY <2>1, <3>1, UnchangedAlone
  <2>3. CASE Kind[Top(t).file] # "short"
    <3>1. LoadFails(t)
      BY <1>6, <2>3 DEF BoxCloses
    <3> QED
      BY <2>1, <3>1, FailsAlone
  <2> QED
    BY <2>2, <2>3
<1> QED
  BY <1>1, <1>2, <1>3, <1>4, <1>5, <1>6 DEF Next

LEMMA InitAlone ==
    ASSUME Init
    PROVE  AloneInv
<1>1. Listed = {} /\ \A t \in Task : stack[t] = <<>> /\ Len(stack[t]) = 0
  BY DEF Init, Listed, Places
<1>2. BelowImport /\ FramesListed /\ NumbersFind
  BY <1>1 DEF BelowImport, FramesListed, NumbersFind
<1>3. HoldsCounted
  BY DEF Init, HoldsCounted
<1> QED
  BY <1>2, <1>3 DEF AloneInv, Alone

\* As long as nothing is loaded or freed while a load waits, loads in progress and what
\* programs hold keep their modules listed and counted, and indices lead to them.
THEOREM LoaderAlone == Spec => []AloneInv
<1>1. Types
  BY FileAssumption, TableAssumption DEF Types
<1>2. Init => AloneInv
  BY InitAlone
<1>3. IInv /\ IInv' /\ AloneInv /\ [Next]_vars => AloneInv'
  BY <1>1, NextAlone DEF IInv
<1> QED
  BY <1>2, <1>3, LoaderInductive, PTL DEF Spec

----------------------------------------------------------------------------
\* The theorems

\* The loader keeps its table, its counts and its loads in progress well formed: the
\* index never leaves the table, whatever is loaded how often.
THEOREM LoaderTypeCorrect == Spec => []TypeOK
<1>1. IInv => TypeOK
  BY DEF IInv, Core, TypeOK, Mod
<1> QED
  BY <1>1, LoaderInductive, PTL

\* No module object goes while it is listed, and the index of modules names only listed
\* ones, each at its own place: whatever the files import, whether their loads succeed
\* or fail, and however often the index wraps and the loader is called while it waits.
THEOREM TableAlwaysLive == Spec => []TableLive
<1>1. IInv => PointersLive
  BY DEF IInv, Core, TableInv
<1> QED
  BY <1>1, LoaderInductive, LoaderTypeCorrect, PTL DEF TableLive

\* A file is never listed twice, also when it is asked for again while its load waits.
THEOREM ListedOncePerFile == Spec => []NamesOnce
<1>1. IInv => NamesOnce
  BY NamesOnceFollows DEF IInv, Core, TableInv
<1> QED
  BY <1>1, LoaderInductive, PTL

\* The index of a selector finds the module it was given to, whatever is loaded and freed
\* in whatever order, until the byte wraps or the loader is called while it waits.
THEOREM IndexFindsModules == Spec => []IndexFinds
<1>1. AloneInv => IndexFinds
  BY DEF AloneInv, Alone, NumbersFind, IndexFinds
<1> QED
  BY <1>1, LoaderAlone, PTL

\* However the files import each other, a load never waits for another load of its file.
THEOREM LoadsNotTwice == Spec => []LoadedOnceAtATime
<1>1. IInv /\ AloneInv => LoadedOnceAtATime
  <2>1. SUFFICES ASSUME IInv, Alone, NEW t \in Task,
                        NEW i \in 1 .. Len(stack[t]), NEW j \in 1 .. Len(stack[t]),
                        stack[t][i].file = stack[t][j].file
                 PROVE  i = j
    BY DEF LoadedOnceAtATime, AloneInv
  <2>2. stack[t][i].h \in Listed /\ info[stack[t][i].h].name = stack[t][i].file
    BY <2>1 DEF Alone, FramesListed, FrameListed
  <2>3. stack[t][j].h \in Listed /\ info[stack[t][j].h].name = stack[t][j].file
    BY <2>1 DEF Alone, FramesListed, FrameListed
  <2>4. stack[t][i].h = stack[t][j].h
    BY <2>1, <2>2, <2>3 DEF IInv, Core, TableInv, NamesApart
  <2> QED
    BY <2>1, <2>4 DEF IInv, Core, FramesInv, FramesApart
<1> QED
  BY <1>1, LoaderInductive, LoaderAlone, PTL

\* A library that programs hold is listed and has a count for each of them, so that no
\* FreeLibrary of another one unloads it: until the loader is called while it waits.
THEOREM HeldModulesStay == Spec => [](~nested => HoldsCounted)
<1>1. AloneInv => (~nested => HoldsCounted)
  BY DEF AloneInv, Alone
<1> QED
  BY <1>1, LoaderAlone, PTL
=============================================================================
