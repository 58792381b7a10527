--------------------------- MODULE WindowsProofs ----------------------------
(***************************************************************************)
(* The inductive invariant of the tree of windows and of the calls under   *)
(* way, and the theorems that follow from it, for any number of windows,   *)
(* any depth of nested calls and any messages that are handled.            *)
(*                                                                         *)
(* The calculus of one linked list comes first (walks, lists without       *)
(* cycles, one window cut out or put in), then the group rings, then what  *)
(* each operation of the model does to the lists, then what the calls      *)
(* under way rely on (Fits), and the steps that keep all of it.            *)
(***************************************************************************)
EXTENDS Windows, FiniteSetTheorems, TLAPS

----------------------------------------------------------------------------
(* Numbers *)

\* A set of natural numbers that is not empty has a smallest element.
LEMMA MinNat ==
    ASSUME NEW S, S \subseteq Nat, S # {}
    PROVE  Min(S) \in S /\ \A y \in S : Min(S) <= y
<1>1. PICK x \in S : \A y \in S : ~ (<<y, x>> \in OpToRel(<, Nat))
  BY NatLessThanWellFounded, WFMin
<1>2. \A y \in S : ~ (y < x)
  BY <1>1, Zenon DEF OpToRel
<1>3. \A y \in S : x <= y
  BY <1>2
<1> QED
  BY <1>3 DEF Min

LEMMA Smallest ==
    ASSUME NEW S, S \subseteq Nat, S # {}
    PROVE  \E k \in S : \A y \in S : k <= y
BY MinNat

\* There are no more than MaxWindows different windows.
LEMMA FewWindows ==
    ASSUME NEW k \in Nat, NEW f \in [1 .. k -> Win], IsInjective(f)
    PROVE  k <= MaxWindows
<1>1. IsFiniteSet(1 .. k) /\ Cardinality(1 .. k) = k
  BY 1 \in Int, k \in Int, FS_Interval
<1>2. IsFiniteSet(Win) /\ Cardinality(Win) = MaxWindows
  <2>1. 2 \in Int /\ MaxWindows + 1 \in Int
    BY BoundAssumption
  <2>2. Cardinality(2 .. MaxWindows + 1)
           = IF 2 > MaxWindows + 1 THEN 0 ELSE (MaxWindows + 1) - 2 + 1
    BY <2>1, FS_Interval
  <2>3. IsFiniteSet(2 .. MaxWindows + 1)
    BY <2>1, FS_Interval
  <2> QED
    BY <2>2, <2>3, BoundAssumption DEF Win
<1> SUFFICES ASSUME MaxWindows < k PROVE FALSE
  BY BoundAssumption
<1>3. PICK x \in 1 .. k, y \in 1 .. k : x # y /\ f[x] = f[y]
  BY <1>1, <1>2, FS_PigeonHole
<1> QED
  BY <1>3 DEF IsInjective

----------------------------------------------------------------------------
(* Walks along a link *)

Links == [HWND -> HWND]

\* A walk is as long as there are windows, and each step follows the link.
Walks(link, at) ==
    /\ at \in [0 .. MaxWindows -> HWND]
    /\ \A n \in 1 .. MaxWindows : at[n] = link[at[n - 1]]

\* A walk along a link goes from window to window, and stays at Null.
LEMMA AlongWalks ==
    ASSUME NEW link \in Links, NEW h \in HWND
    PROVE  Walks(link, Along(link, h)) /\ Along(link, h)[0] = h
<1> USE BoundAssumption
<1> DEFINE P(k) == \E f \in [0 .. k -> HWND] : f[0] = h /\ \A n \in 1 .. k : f[n] = link[f[n - 1]]
           Bad == {k \in 0 .. MaxWindows : ~P(k)}
           D(at) == at = [n \in 0 .. MaxWindows |-> IF n = 0 THEN h ELSE link[at[n - 1]]]
<1>1. Bad = {}
  <2> SUFFICES ASSUME Bad # {} PROVE FALSE
    OBVIOUS
  <2>1. Bad \subseteq Nat
    OBVIOUS
  <2>2. PICK k \in Bad : \A y \in Bad : k <= y
    <3> HIDE DEF Bad
    <3> QED
      BY <2>1, Smallest
  <2>3. k # 0
    <3>1. P(0)
      <4> WITNESS [n \in 0 .. 0 |-> h] \in [0 .. 0 -> HWND]
      <4> QED
        OBVIOUS
    <3> QED
      BY <3>1
  <2>4. k - 1 \in 0 .. MaxWindows /\ k - 1 \notin Bad
    <3>1. k \in 0 .. MaxWindows
      OBVIOUS
    <3> HIDE DEF Bad
    <3> QED
      BY <2>2, <2>3, <3>1
  <2>5. PICK f \in [0 .. k - 1 -> HWND] : f[0] = h /\ \A n \in 1 .. k - 1 : f[n] = link[f[n - 1]]
    BY <2>4
  <2>6. P(k)
    <3> DEFINE g == [n \in 0 .. k |-> IF n = k THEN link[f[k - 1]] ELSE f[n]]
    <3>1. g \in [0 .. k -> HWND]
      BY <2>3 DEF Links
    <3>2. g[0] = h /\ \A n \in 1 .. k : g[n] = link[g[n - 1]]
      BY <2>3, <2>5
    <3> QED
      BY <3>1, <3>2
  <2> QED
    BY <2>6
<1>2. PICK f \in [0 .. MaxWindows -> HWND] : f[0] = h /\ \A n \in 1 .. MaxWindows : f[n] = link[f[n - 1]]
  <2>1. MaxWindows \in 0 .. MaxWindows
    OBVIOUS
  <2>2. P(MaxWindows)
    BY <1>1, <2>1
  <2> QED
    BY <2>2
<1>3. D(f)
  BY <1>2
<1>4. D(Along(link, h))
  <2>1. Along(link, h) = CHOOSE at : D(at)
    BY DEF Along
  <2> HIDE DEF D
  <2> QED
    BY <1>3, <2>1
<1>5. Along(link, h)[0] = h
  BY <1>4
<1>6. \A n \in 1 .. MaxWindows : Along(link, h)[n] = link[Along(link, h)[n - 1]]
  BY <1>4
<1>7. Along(link, h) = f
  <2> DEFINE a == Along(link, h)
             Diff == {n \in 0 .. MaxWindows : a[n] # f[n]}
  <2> HIDE DEF a
  <2>1. a = [n \in 0 .. MaxWindows |-> a[n]]
    <3>1. D(a)
      BY <1>4 DEF a
    <3> QED
      BY <3>1
  <2>2. Diff = {}
    <3> SUFFICES ASSUME Diff # {} PROVE FALSE
      OBVIOUS
    <3>0. Diff \subseteq Nat
      OBVIOUS
    <3>1. PICK k \in Diff : \A y \in Diff : k <= y
      <4> HIDE DEF Diff
      <4> QED
        BY <3>0, Smallest
    <3>2. k # 0 /\ k - 1 \in 0 .. MaxWindows /\ k - 1 \notin Diff
      <4>1. k # 0 /\ k \in 0 .. MaxWindows
        BY <1>2, <1>5 DEF a
      <4> HIDE DEF Diff
      <4> QED
        BY <3>1, <4>1
    <3>3. a[k] = link[a[k - 1]] /\ f[k] = link[f[k - 1]]
      BY <3>2, <1>2, <1>6 DEF a
    <3> QED
      BY <3>2, <3>3
  <2> QED
    BY <2>1, <2>2 DEF a
<1> QED
  BY <1>5, <1>6, <1>7 DEF Walks

\* Two walks that meet go on together.
LEMMA WalksMeet ==
    ASSUME NEW link \in Links, NEW a, NEW b, Walks(link, a), Walks(link, b),
           NEW i \in 0 .. MaxWindows, NEW j \in 0 .. MaxWindows, a[i] = b[j],
           NEW k \in Nat, i + k <= MaxWindows, j + k <= MaxWindows
    PROVE  a[i + k] = b[j + k]
<1> USE BoundAssumption
<1> DEFINE Bad == {n \in 0 .. k : a[i + n] # b[j + n]}
<1> SUFFICES Bad = {}
  BY k \in 0 .. k
<1> SUFFICES ASSUME Bad # {} PROVE FALSE
  OBVIOUS
<1>0. Bad \subseteq Nat
  OBVIOUS
<1>1. PICK n \in Bad : \A y \in Bad : n <= y
  <2> HIDE DEF Bad
  <2> QED
    BY <1>0, Smallest
<1>2. n # 0 /\ n - 1 \in 0 .. k /\ n - 1 \notin Bad
  <2>1. n # 0 /\ n \in 0 .. k
    OBVIOUS
  <2> HIDE DEF Bad
  <2> QED
    BY <1>1, <2>1
<1>3. a[i + (n - 1)] = b[j + (n - 1)]
  BY <1>2
<1>4. i + n \in 1 .. MaxWindows /\ j + n \in 1 .. MaxWindows
  BY <1>2
<1>5. a[i + n] = link[a[i + n - 1]] /\ b[j + n] = link[b[j + n - 1]]
  BY <1>4 DEF Walks
<1> QED
  BY <1>3, <1>5, i + (n - 1) = i + n - 1, j + (n - 1) = j + n - 1

\* The windows from which a walk comes to h.
Under(link, h) == {x \in Win : \E n \in 0 .. MaxWindows : Along(link, x)[n] = h}

\* A link that ends at what is no window.
EndsOut(link) == link \in Links /\ link[Null] = Null /\ link[Root] = Null

LEMMA Handles == /\ Null \in HWND /\ Root \in HWND /\ Win \subseteq HWND
                 /\ Null \notin Win /\ Root \notin Win /\ Null # Root
BY BoundAssumption DEF Null, Root, Win, HWND

LEMMA UnderSelf ==
    ASSUME NEW link \in Links, NEW h \in Win
    PROVE  h \in Under(link, h)
BY AlongWalks, Handles, BoundAssumption DEF Under

\* Who comes to h is h or comes to h from the next window.
LEMMA UnderNext ==
    ASSUME NEW link \in Links, NEW h \in Win, NEW x \in Under(link, h), x # h,
           EndsOut(link)
    PROVE  link[x] \in Under(link, h)
<1> USE BoundAssumption
<1> DEFINE a == Along(link, x)
           b == Along(link, link[x])
<1>1. x \in HWND /\ x \in Win /\ link[x] \in HWND
  BY Handles DEF Under, Links
<1>2. PICK n \in 0 .. MaxWindows : a[n] = h
  BY DEF Under
<1>3. Walks(link, a) /\ a[0] = x
  BY <1>1, AlongWalks
<1>4. Walks(link, b) /\ b[0] = link[x]
  BY <1>1, AlongWalks
<1>5. n # 0 /\ n - 1 \in 0 .. MaxWindows
  BY <1>2, <1>3
<1>6. a[1] = b[0]
  BY <1>3, <1>4, <1>5 DEF Walks
<1>7. a[1 + (n - 1)] = b[0 + (n - 1)]
  <2>1. 1 \in 0 .. MaxWindows /\ 0 \in 0 .. MaxWindows /\ n - 1 \in Nat
        /\ 1 + (n - 1) <= MaxWindows /\ 0 + (n - 1) <= MaxWindows
    BY <1>5
  <2> HIDE DEF a, b
  <2> QED
    BY <1>1, <1>3, <1>4, <1>6, <2>1, WalksMeet
<1>8. b[n - 1] = h
  BY <1>2, <1>5, <1>7
<1>9. link[x] \in Win
  <2> SUFFICES ASSUME link[x] \notin Win PROVE FALSE
    OBVIOUS
  <2>1. link[x] \in {Null, Root}
    BY <1>1 DEF HWND
  <2> DEFINE Bad == {m \in 0 .. MaxWindows : b[m] \in Win}
  <2>2. Bad \subseteq Nat /\ n - 1 \in Bad
    BY <1>5, <1>8
  <2>3. PICK m \in Bad : \A y \in Bad : m <= y
    <3> HIDE DEF Bad
    <3> QED
      BY <2>2, Smallest
  <2>4. m \in 0 .. MaxWindows /\ m # 0 /\ b[m] \in Win
    BY <1>4
  <2>5. b[m] = link[b[m - 1]] /\ b[m - 1] \in HWND
    BY <1>4, <2>4 DEF Walks
  <2>6. m - 1 \notin Bad
    <3> HIDE DEF Bad
    <3> QED
      BY <2>3, <2>4
  <2>7. b[m - 1] \in {Null, Root}
    BY <2>4, <2>5, <2>6 DEF HWND
  <2> QED
    BY <2>4, <2>5, <2>7, Handles DEF EndsOut
<1> QED
  BY <1>5, <1>8, <1>9 DEF Under

\* Who has a next window that comes to h comes to h: the walk is no longer than there are windows.
LEMMA UnderClosed ==
    ASSUME NEW link \in Links, NEW h \in Win, NEW x \in Win, link[x] \in Under(link, h),
           EndsOut(link)
    PROVE  x \in Under(link, h)
<1> USE BoundAssumption
<1> DEFINE a == Along(link, x)
           b == Along(link, link[x])
           Hits == {n \in 0 .. MaxWindows : b[n] = h}
<1>1. x \in HWND /\ link[x] \in HWND /\ link[x] \in Win
  BY Handles DEF Under, Links
<1>2. Walks(link, a) /\ a[0] = x
  BY <1>1, AlongWalks
<1>3. Walks(link, b) /\ b[0] = link[x]
  BY <1>1, AlongWalks
<1>4. Hits \subseteq Nat /\ Hits # {}
  BY DEF Under
<1>5. PICK n \in Hits : \A m \in Hits : n <= m
  <2> HIDE DEF Hits
  <2> QED
    BY <1>4, Smallest
<1>6. n \in 0 .. MaxWindows /\ b[n] = h
  OBVIOUS
<1>7. n < MaxWindows
  <2> SUFFICES ASSUME n = MaxWindows PROVE FALSE
    BY <1>6
  <2>1. \A m \in 0 .. MaxWindows : b[m] \in Win
    <3> DEFINE Bad == {m \in 0 .. MaxWindows : b[MaxWindows - m] \notin Win}
    <3> SUFFICES Bad = {}
      <4> TAKE m \in 0 .. MaxWindows
      <4>1. MaxWindows - m \in 0 .. MaxWindows /\ MaxWindows - (MaxWindows - m) = m
        OBVIOUS
      <4> QED
        BY <4>1
    <3> SUFFICES ASSUME Bad # {} PROVE FALSE
      OBVIOUS
    <3>0. Bad \subseteq Nat
      OBVIOUS
    <3>1. PICK m \in Bad : \A y \in Bad : m <= y
      <4> HIDE DEF Bad
      <4> QED
        BY <3>0, Smallest
    <3>2. m \in 0 .. MaxWindows /\ m # 0 /\ b[MaxWindows - m] \notin Win
      BY <1>6
    <3>3. m - 1 \notin Bad /\ m - 1 \in 0 .. MaxWindows
      <4> HIDE DEF Bad
      <4> QED
        BY <3>1, <3>2
    <3>4. b[MaxWindows - (m - 1)] \in Win
      BY <3>3
    <3>5. MaxWindows - (m - 1) \in 1 .. MaxWindows /\ MaxWindows - (m - 1) - 1 = MaxWindows - m
      BY <3>2
    <3>6. b[MaxWindows - (m - 1)] = link[b[MaxWindows - m]] /\ b[MaxWindows - m] \in HWND
      BY <1>3, <3>5, <3>2 DEF Walks
    <3> QED
      BY <3>2, <3>4, <3>6, Handles DEF EndsOut, HWND
  <2> DEFINE f == [i \in 1 .. MaxWindows + 1 |-> b[i - 1]]
  <2>2. f \in [1 .. MaxWindows + 1 -> Win]
    <3>1. \A i \in 1 .. MaxWindows + 1 : i - 1 \in 0 .. MaxWindows
      OBVIOUS
    <3> QED
      BY <2>1, <3>1
  <2>3. ~IsInjective(f)
    <3> HIDE DEF f
    <3> QED
      BY <2>2, FewWindows, MaxWindows + 1 \in Nat
  <2>4. PICK i0 \in 1 .. MaxWindows + 1, j0 \in 1 .. MaxWindows + 1 : i0 # j0 /\ f[i0] = f[j0]
    BY <2>3 DEF IsInjective
  <2>5. PICK i \in 0 .. MaxWindows, j \in 0 .. MaxWindows : i < j /\ b[i] = b[j]
    <3>1. b[i0 - 1] = b[j0 - 1] /\ i0 - 1 \in 0 .. MaxWindows /\ j0 - 1 \in 0 .. MaxWindows
      BY <2>4
    <3>2. i0 - 1 < j0 - 1 \/ j0 - 1 < i0 - 1
      BY <2>4
    <3> QED
      BY <3>1, <3>2
  <2> DEFINE k == MaxWindows - j
  <2>6. k \in Nat /\ i + k <= MaxWindows /\ j + k = MaxWindows /\ i + k < MaxWindows
    BY <2>5
  <2>7. b[i + k] = b[j + k]
    <3> HIDE DEF a, b, k
    <3> QED
      BY <1>3, <2>5, <2>6, WalksMeet
  <2>8. i + k \in Hits
    <3>1. i + k \in 0 .. MaxWindows
      BY <2>6
    <3> QED
      BY <1>6, <2>6, <2>7, <3>1
  <2> QED
    <3> HIDE DEF Hits, b, k
    <3> QED
      BY <1>5, <2>6, <2>8
<1>8. a[1] = b[0]
  BY <1>2, <1>3, <1>7, <1>6 DEF Walks
<1>9. a[1 + n] = b[0 + n]
  <2> HIDE DEF a, b, Hits
  <2> QED
    BY <1>2, <1>3, <1>6, <1>7, <1>8, WalksMeet
<1> QED
  BY <1>6, <1>7, <1>9 DEF Under

\* It is the least set with h in which everyone is who has a next window there.
LEMMA UnderLeast ==
    ASSUME NEW link \in Links, NEW h \in Win, EndsOut(link), NEW S, S \subseteq Win, h \in S,
           \A x \in Win : link[x] \in S => x \in S
    PROVE  Under(link, h) \subseteq S
<1> USE BoundAssumption
<1> SUFFICES ASSUME NEW x \in Under(link, h) PROVE x \in S
  OBVIOUS
<1> DEFINE a == Along(link, x)
           Hits == {n \in 0 .. MaxWindows : a[n] \in S}
<1>1. Walks(link, a) /\ a[0] = x
  BY AlongWalks, Handles DEF Under
<1>2. Hits \subseteq Nat /\ Hits # {}
  BY DEF Under
<1>3. PICK n \in Hits : \A m \in Hits : n <= m
  <2> HIDE DEF Hits
  <2> QED
    BY <1>2, Smallest
<1>4. n \in 0 .. MaxWindows /\ a[n] \in S
  OBVIOUS
<1>5. CASE n = 0
  BY <1>1, <1>4, <1>5
<1>6. CASE n # 0
  <2>1. a[n] = link[a[n - 1]] /\ a[n - 1] \in HWND /\ n - 1 \in 0 .. MaxWindows
    BY <1>1, <1>4, <1>6 DEF Walks
  <2>2. a[n - 1] \in Win
    BY <1>4, <2>1, Handles DEF EndsOut, HWND
  <2>3. n - 1 \in Hits
    BY <1>4, <2>1, <2>2
  <2> QED
    <3> HIDE DEF Hits
    <3> QED
      BY <1>3, <1>4, <2>1, <2>3
<1> QED
  BY <1>5, <1>6

\* Who is under one that is under h is under h.
LEMMA UnderTransitive ==
    ASSUME NEW link \in Links, EndsOut(link), NEW h \in Win, NEW y \in Under(link, h)
    PROVE  Under(link, y) \subseteq Under(link, h)
<1>1. y \in Win /\ Under(link, h) \subseteq Win
  BY DEF Under
<1> QED
  BY <1>1, UnderLeast, UnderClosed

NoCycle(link) == \A x \in Win : link[x] \notin Under(link, x)

\* Links that end earlier: less comes to a window.
LEMMA UnderLess ==
    ASSUME NEW link \in Links, EndsOut(link), NEW less \in Links,
           \A x \in HWND : less[x] \in {link[x], Null}
    PROVE  /\ EndsOut(less)
           /\ \A h \in Win : Under(less, h) \subseteq Under(link, h)
           /\ NoCycle(link) => NoCycle(less)
<1>1. EndsOut(less)
  BY Handles DEF EndsOut
<1>2. \A h \in Win : Under(less, h) \subseteq Under(link, h)
  <2> TAKE h \in Win
  <2>1. \A x \in Win : less[x] \in Under(link, h) => x \in Under(link, h)
    BY UnderClosed, Handles DEF Under
  <2>2. Under(link, h) \subseteq Win /\ h \in Under(link, h)
    BY UnderSelf DEF Under
  <2> QED
    BY <1>1, <2>1, <2>2, UnderLeast
<1>3. ASSUME NoCycle(link), NEW x \in Win, less[x] \in Under(less, x) PROVE FALSE
  <2>1. less[x] # Null /\ x \in HWND
    BY <1>3, Handles DEF Under
  <2> QED
    BY <1>2, <1>3, <2>1 DEF NoCycle
<1> QED
  BY <1>1, <1>2, <1>3 DEF NoCycle

\* One link changes: what comes to a window now came to it, or to the one whose link it is.
LEMMA UnderChanged ==
    ASSUME NEW link \in Links, EndsOut(link), NEW a \in Win, NEW new \in Links,
           \A x \in HWND \ {a} : new[x] = link[x],
           new[a] \notin Under(link, a)
    PROVE  /\ EndsOut(new)
           /\ \A h \in Win : Under(new, h) \subseteq Under(link, h) \cup Under(link, a)
           /\ \A h \in Under(link, a) : Under(new, h) \subseteq Under(link, h)
           /\ NoCycle(link) => NoCycle(new)
<1>1. EndsOut(new)
  BY Handles DEF EndsOut
<1>2. \A h \in Win : Under(link, h) \subseteq Win /\ h \in Under(link, h)
  BY UnderSelf DEF Under
<1>3. ASSUME NEW h \in Win
      PROVE  Under(new, h) \subseteq Under(link, h) \cup Under(link, a)
  <2> DEFINE S == Under(link, h) \cup Under(link, a)
  <2>1. \A x \in Win : new[x] \in S => x \in S
    <3> TAKE x \in Win
    <3>1. CASE x = a
      BY <1>2, <3>1
    <3>2. CASE x # a
      BY <3>2, UnderClosed, Handles
    <3> QED
      BY <3>1, <3>2
  <2>2. S \subseteq Win /\ h \in S
    BY <1>2
  <2> HIDE DEF S
  <2>3. Under(new, h) \subseteq S
    BY <1>1, <2>1, <2>2, UnderLeast
  <2> QED
    BY <2>3 DEF S
<1>4. ASSUME NEW h \in Under(link, a)
      PROVE  Under(new, h) \subseteq Under(link, h)
  <2>1. h \in Win /\ Under(link, h) \subseteq Under(link, a)
    BY <1>2, UnderTransitive
  <2>2. \A x \in Win : new[x] \in Under(link, h) => x \in Under(link, h)
    <3> TAKE x \in Win
    <3>1. CASE x = a
      BY <2>1, <3>1
    <3>2. CASE x # a
      BY <2>1, <3>2, UnderClosed, Handles
    <3> QED
      BY <3>1, <3>2
  <2> QED
    BY <1>1, <1>2, <2>1, <2>2, UnderLeast
<1>5. ASSUME NoCycle(link), NEW x \in Win, new[x] \in Under(new, x) PROVE FALSE
  <2>1. CASE x \in Under(link, a)
    <3>1. new[x] \in Under(link, x)
      BY <1>4, <1>5, <2>1
    <3>2. CASE x = a
      BY <3>1, <3>2
    <3>3. CASE x # a
      BY <1>5, <3>1, <3>3, Handles DEF NoCycle
    <3> QED
      BY <3>2, <3>3
  <2>2. CASE x \notin Under(link, a)
    <3>1. x # a /\ new[x] = link[x]
      BY <1>2, <2>2, Handles
    <3>2. link[x] \in Under(link, x) \/ link[x] \in Under(link, a)
      BY <1>3, <1>5, <3>1
    <3> QED
      BY <1>5, <2>2, <3>2, UnderClosed DEF NoCycle
  <2> QED
    BY <2>1, <2>2
<1> QED
  BY <1>1, <1>3, <1>4, <1>5 DEF NoCycle

----------------------------------------------------------------------------
(* Lists of siblings *)

Elements(s) == {s[i] : i \in DOMAIN s}

\* s without its k-th window, and with h as its k-th.
Cut(s, k) == [i \in 1 .. Len(s) - 1 |-> IF i < k THEN s[i] ELSE s[i + 1]]
Put(s, k, h) == [i \in 1 .. Len(s) + 1 |-> IF i < k THEN s[i] ELSE IF i = k THEN h ELSE s[i - 1]]

\* The siblings from `first' on are those of s, each once, and the last has none.
Chain(s, W, first) ==
    /\ s \in Seq(Win) /\ IsInjective(s)
    /\ first = IF s = <<>> THEN Null ELSE s[1]
    /\ \A i \in DOMAIN s : W[s[i]].hWndSibling = IF i = Len(s) THEN Null ELSE s[i + 1]

LEMMA CutSeq ==
    ASSUME NEW s \in Seq(Win), IsInjective(s), NEW k \in DOMAIN s
    PROVE  /\ Cut(s, k) \in Seq(Win) /\ IsInjective(Cut(s, k))
           /\ Len(Cut(s, k)) = Len(s) - 1 /\ DOMAIN Cut(s, k) = 1 .. Len(s) - 1
           /\ Elements(Cut(s, k)) = Elements(s) \ {s[k]}
<1> DEFINE c == Cut(s, k)
<1>0. Len(s) \in Nat /\ k \in 1 .. Len(s) /\ Len(s) - 1 \in Nat /\ DOMAIN s = 1 .. Len(s)
  OBVIOUS
<1>1. \A i \in 1 .. Len(s) - 1 : c[i] = IF i < k THEN s[i] ELSE s[i + 1]
  BY DEF Cut
<1>2. c \in [1 .. Len(s) - 1 -> Win]
  <2>1. \A i \in 1 .. Len(s) - 1 : i \in DOMAIN s /\ i + 1 \in DOMAIN s
    BY <1>0
  <2> QED
    BY <2>1 DEF Cut
<1>3. c \in Seq(Win) /\ Len(c) = Len(s) - 1 /\ DOMAIN c = 1 .. Len(s) - 1
  <2> DEFINE n == Len(s) - 1
  <2>1. n \in Nat /\ c \in [1 .. n -> Win]
    BY <1>0, <1>2
  <2> HIDE DEF c, n
  <2>2. c \in Seq(Win) /\ Len(c) = n /\ DOMAIN c = 1 .. n
    BY <2>1
  <2> QED
    BY <2>2 DEF n
<1>4. IsInjective(c)
  <2> SUFFICES ASSUME NEW i \in 1 .. Len(s) - 1, NEW j \in 1 .. Len(s) - 1, c[i] = c[j]
               PROVE  i = j
    BY <1>3 DEF IsInjective
  <2> DEFINE I == IF i < k THEN i ELSE i + 1
             J == IF j < k THEN j ELSE j + 1
  <2>1. I \in DOMAIN s /\ J \in DOMAIN s /\ s[I] = s[J]
    BY <1>0, <1>1
  <2>2. I = J
    BY <2>1 DEF IsInjective
  <2> QED
    BY <1>0, <2>2
<1>5. ASSUME NEW i \in 1 .. Len(s) - 1 PROVE c[i] \in Elements(s) \ {s[k]}
  <2>1. IF i < k THEN i \in DOMAIN s /\ i # k ELSE i + 1 \in DOMAIN s /\ i + 1 # k
    BY <1>0
  <2> QED
    BY <1>1, <2>1 DEF Elements, IsInjective
<1>6. ASSUME NEW j \in DOMAIN s, s[j] # s[k] PROVE \E i \in 1 .. Len(s) - 1 : c[i] = s[j]
  <2>1. CASE j < k
    BY <1>0, <1>1, <2>1
  <2>2. CASE j > k
    <3>1. j - 1 \in 1 .. Len(s) - 1 /\ ~(j - 1 < k) /\ (j - 1) + 1 = j
      BY <1>0, <2>2
    <3> QED
      BY <1>1, <3>1
  <2> QED
    BY <1>0, <1>6, <2>1, <2>2
<1>7. Elements(c) = Elements(s) \ {s[k]}
  <2> HIDE DEF c
  <2>1. \A x \in Elements(c) : x \in Elements(s) \ {s[k]}
    BY <1>3, <1>5 DEF Elements
  <2>2. \A x \in Elements(s) \ {s[k]} : x \in Elements(c)
    BY <1>3, <1>6 DEF Elements
  <2> QED
    BY <2>1, <2>2
<1> QED
  BY <1>3, <1>4, <1>7

LEMMA PutSeq ==
    ASSUME NEW s \in Seq(Win), IsInjective(s), NEW k \in 1 .. Len(s) + 1,
           NEW h \in Win, h \notin Elements(s)
    PROVE  /\ Put(s, k, h) \in Seq(Win) /\ IsInjective(Put(s, k, h))
           /\ Len(Put(s, k, h)) = Len(s) + 1 /\ DOMAIN Put(s, k, h) = 1 .. Len(s) + 1
           /\ Elements(Put(s, k, h)) = Elements(s) \cup {h}
<1> DEFINE c == Put(s, k, h)
<1>0. Len(s) \in Nat /\ DOMAIN s = 1 .. Len(s)
  OBVIOUS
<1>1. \A i \in 1 .. Len(s) + 1 : c[i] = IF i < k THEN s[i] ELSE IF i = k THEN h ELSE s[i - 1]
  BY DEF Put
<1>2. c \in [1 .. Len(s) + 1 -> Win]
  <2>1. \A i \in 1 .. Len(s) + 1 : (i < k => i \in DOMAIN s) /\ (i > k => i - 1 \in DOMAIN s)
    BY <1>0
  <2> QED
    BY <1>0, <2>1 DEF Put
<1>3. c \in Seq(Win) /\ Len(c) = Len(s) + 1 /\ DOMAIN c = 1 .. Len(s) + 1
  <2> HIDE DEF c
  <2> QED
    BY <1>0, <1>2
<1>4. IsInjective(c)
  <2> SUFFICES ASSUME NEW i \in 1 .. Len(s) + 1, NEW j \in 1 .. Len(s) + 1, c[i] = c[j]
               PROVE  i = j
    BY <1>3 DEF IsInjective
  <2> DEFINE I == IF i < k THEN i ELSE i - 1
             J == IF j < k THEN j ELSE j - 1
  <2>1. (i # k => I \in DOMAIN s /\ c[i] = s[I]) /\ (j # k => J \in DOMAIN s /\ c[j] = s[J])
    BY <1>0, <1>1
  <2>2. c[k] = h
    BY <1>1
  <2>3. CASE i = k \/ j = k
    BY <2>1, <2>2, <2>3 DEF Elements
  <2>4. CASE i # k /\ j # k
    <3>1. I = J
      BY <2>1, <2>4 DEF IsInjective
    <3> QED
      BY <1>0, <2>4, <3>1
  <2> QED
    BY <2>3, <2>4
<1>5. ASSUME NEW i \in 1 .. Len(s) + 1 PROVE c[i] \in Elements(s) \cup {h}
  <2>1. (i < k => i \in DOMAIN s) /\ (i > k => i - 1 \in DOMAIN s)
    BY <1>0
  <2> QED
    BY <1>0, <1>1, <2>1 DEF Elements
<1>6. ASSUME NEW j \in DOMAIN s PROVE \E i \in 1 .. Len(s) + 1 : c[i] = s[j]
  <2>1. CASE j < k
    BY <1>0, <1>1, <2>1
  <2>2. CASE j >= k
    <3>1. j + 1 \in 1 .. Len(s) + 1 /\ ~(j + 1 < k) /\ (j + 1) - 1 = j /\ j + 1 # k
      BY <1>0, <2>2
    <3> QED
      BY <1>1, <3>1
  <2> QED
    BY <1>0, <2>1, <2>2
<1>7. Elements(c) = Elements(s) \cup {h}
  <2>1. c[k] = h
    BY <1>1
  <2> HIDE DEF c
  <2> QED
    BY <1>3, <1>5, <1>6, <2>1 DEF Elements
<1> QED
  BY <1>3, <1>4, <1>7

\* The links of s in W2 go past the k-th window, and to h as the k-th.
LinksCut(s, k, W, W2) ==
    /\ \A i \in DOMAIN s : i # k /\ i + 1 # k => W2[s[i]].hWndSibling = W[s[i]].hWndSibling
    /\ k > 1 => W2[s[k - 1]].hWndSibling = W[s[k]].hWndSibling
LinksPut(s, k, h, first, W, W2) ==
    /\ \A i \in DOMAIN s : i + 1 # k => W2[s[i]].hWndSibling = W[s[i]].hWndSibling
    /\ k > 1 => W2[s[k - 1]].hWndSibling = h
    /\ W2[h].hWndSibling = IF k = 1 THEN first ELSE W[s[k - 1]].hWndSibling

\* A list without one window is a list again, and so is a list with one more.
LEMMA CutChain ==
    ASSUME NEW s, NEW W, NEW first, Chain(s, W, first), NEW k \in 1 .. Len(s), NEW W2,
           LinksCut(s, k, W, W2)
    PROVE  Chain(Cut(s, k), W2, IF k = 1 THEN W[s[k]].hWndSibling ELSE first)
<1> DEFINE c == Cut(s, k)
<1>0. s \in Seq(Win) /\ IsInjective(s) /\ Len(s) \in Nat /\ DOMAIN s = 1 .. Len(s) /\ k \in 1 .. Len(s)
  BY DEF Chain, LinksCut
<1>1. c \in Seq(Win) /\ IsInjective(c) /\ Len(c) = Len(s) - 1 /\ DOMAIN c = 1 .. Len(s) - 1
  BY <1>0, CutSeq
<1>2. \A i \in 1 .. Len(s) - 1 : c[i] = IF i < k THEN s[i] ELSE s[i + 1]
  BY DEF Cut
<1> HIDE DEF c
<1>8. Len(s) \in Nat /\ DOMAIN s = 1 .. Len(s) /\ k \in Nat /\ 1 <= k /\ k <= Len(s) /\ Len(c) = Len(s) - 1
  BY <1>0, <1>1
<1>9. PICK n \in Nat : /\ n = Len(s) /\ DOMAIN s = 1 .. n
                       /\ k \in Nat /\ 1 <= k /\ k <= n /\ Len(c) = n - 1
  BY <1>8
<1>10. \A i \in 1 .. n : W[s[i]].hWndSibling = IF i = n THEN Null ELSE s[i + 1]
  BY <1>9 DEF Chain
<1>2a. \A i \in 1 .. n - 1 : c[i] = IF i < k THEN s[i] ELSE s[i + 1]
  BY <1>2, <1>9
<1>3. ASSUME NEW i \in 1 .. n - 1
      PROVE  W2[c[i]].hWndSibling = IF i = n - 1 THEN Null ELSE c[i + 1]
  <2>1. CASE i + 1 < k
    <3>1. i \in DOMAIN s /\ i # k /\ i + 1 # k /\ i + 1 <= n - 1 /\ i < k /\ i # n /\ i # n - 1
      BY <1>9, <2>1
    <3>2. c[i] = s[i] /\ c[i + 1] = s[i + 1]
      BY <1>9, <1>2a, <2>1, <3>1
    <3> QED
      BY <3>1, <3>2, <1>10 DEF LinksCut
  <2>2. CASE i + 1 = k
    <3>1. k > 1 /\ i = k - 1 /\ i < k /\ c[i] = s[k - 1]
      BY <1>9, <1>2a, <2>2
    <3>2. CASE k = n
      <4>1. i = n - 1
        BY <1>9, <2>2, <3>2
      <4> QED
        BY <1>9, <3>1, <3>2, <4>1, <1>10 DEF LinksCut
    <3>3. CASE k # n
      <4>1. i # n - 1 /\ i + 1 \in 1 .. n - 1 /\ ~(i + 1 < k)
        BY <1>9, <2>2, <3>3
      <4>2. c[i + 1] = s[k + 1]
        BY <1>2a, <2>2, <4>1
      <4> QED
        BY <1>9, <3>1, <3>3, <4>1, <4>2, <1>10 DEF LinksCut
    <3> QED
      BY <3>2, <3>3
  <2>3. CASE i >= k
    <3>1. i + 1 \in DOMAIN s /\ i + 1 # k /\ (i + 1) + 1 # k /\ ~(i < k)
      BY <1>9, <2>3
    <3>2. c[i] = s[i + 1]
      BY <1>2a, <3>1
    <3>3. W2[s[i + 1]].hWndSibling = IF i + 1 = n THEN Null ELSE s[(i + 1) + 1]
      BY <3>1, <1>10 DEF LinksCut
    <3>4. CASE i + 1 = n
      BY <1>9, <3>2, <3>3, <3>4, <1>9
    <3>5. CASE i + 1 # n
      <4>1. i + 1 \in 1 .. n - 1 /\ ~(i + 1 < k) /\ i # n - 1
        BY <1>9, <2>3, <3>5
      <4> QED
        BY <1>2a, <3>2, <3>3, <3>5, <4>1
    <3> QED
      BY <3>4, <3>5
  <2> QED
    BY <1>9, <2>1, <2>2, <2>3
<1>4. (IF k = 1 THEN W[s[k]].hWndSibling ELSE first) = IF c = <<>> THEN Null ELSE c[1]
  <2>1. CASE Len(s) = 1
    <3>1. k = 1 /\ c = <<>>
      BY <1>0, <1>1, <2>1
    <3> QED
      BY <1>0, <2>1, <3>1 DEF Chain, LinksCut
  <2>2. CASE Len(s) # 1
    <3>1. c # <<>> /\ 1 \in 1 .. Len(s) - 1 /\ s # <<>>
      BY <1>0, <1>1, <2>2
    <3>2. c[1] = IF 1 < k THEN s[1] ELSE s[1 + 1]
      BY <1>2, <3>1
    <3> QED
      BY <1>0, <2>2, <3>1, <3>2 DEF Chain, LinksCut
  <2> QED
    BY <2>1, <2>2
<1> QED
  BY <1>1, <1>3, <1>4, <1>9 DEF Chain, c

LEMMA PutChain ==
    ASSUME NEW s, NEW W, NEW first, Chain(s, W, first), NEW k \in 1 .. Len(s) + 1,
           NEW h \in Win, h \notin Elements(s), NEW W2, LinksPut(s, k, h, first, W, W2)
    PROVE  Chain(Put(s, k, h), W2, IF k = 1 THEN h ELSE first)
<1> DEFINE c == Put(s, k, h)
<1>0. s \in Seq(Win) /\ IsInjective(s) /\ Len(s) \in Nat /\ DOMAIN s = 1 .. Len(s)
  BY DEF Chain, LinksPut
<1>1. c \in Seq(Win) /\ IsInjective(c) /\ Len(c) = Len(s) + 1 /\ DOMAIN c = 1 .. Len(s) + 1
  BY <1>0, PutSeq
<1>2. \A i \in 1 .. Len(s) + 1 : c[i] = IF i < k THEN s[i] ELSE IF i = k THEN h ELSE s[i - 1]
  BY DEF Put
<1> HIDE DEF c
<1>8. Len(s) \in Nat /\ DOMAIN s = 1 .. Len(s) /\ k \in Nat /\ 1 <= k /\ k <= Len(s) + 1 /\ Len(c) = Len(s) + 1
  BY <1>0, <1>1
<1>9. PICK n \in Nat : /\ n = Len(s) /\ DOMAIN s = 1 .. n
                       /\ k \in Nat /\ 1 <= k /\ k <= n + 1 /\ Len(c) = n + 1
  BY <1>8
<1>10. \A i \in 1 .. n : W[s[i]].hWndSibling = IF i = n THEN Null ELSE s[i + 1]
  BY <1>9 DEF Chain
<1>2a. \A i \in 1 .. n + 1 : c[i] = IF i < k THEN s[i] ELSE IF i = k THEN h ELSE s[i - 1]
  BY <1>2, <1>9
<1>3. ASSUME NEW i \in 1 .. n + 1
      PROVE  W2[c[i]].hWndSibling = IF i = n + 1 THEN Null ELSE c[i + 1]
  <2>1. CASE i + 1 < k
    <3>1. i \in DOMAIN s /\ i + 1 # k /\ i + 1 \in 1 .. n + 1 /\ i < k /\ i # n /\ i # n + 1
      BY <1>9, <2>1
    <3>2. c[i] = s[i] /\ c[i + 1] = s[i + 1]
      BY <1>9, <1>2a, <2>1, <3>1
    <3> QED
      BY <3>1, <3>2, <1>10 DEF LinksPut
  <2>2. CASE i + 1 = k
    <3>1. k > 1 /\ i = k - 1 /\ i < k /\ i # n + 1 /\ i + 1 \in 1 .. n + 1 /\ ~(i + 1 < k)
      BY <1>9, <2>2
    <3>2. c[i] = s[k - 1] /\ c[i + 1] = h
      BY <1>2a, <2>2, <3>1
    <3> QED
      BY <3>1, <3>2 DEF LinksPut
  <2>3. CASE i = k
    <3>1. c[i] = h
      BY <1>9, <1>2a, <2>3
    <3>2. CASE k = 1
      <4>1. CASE n = 0
        <5>1. s = <<>> /\ i = n + 1
          BY <1>9, <2>3, <3>2, <4>1
        <5> QED
          BY <3>1, <3>2, <5>1 DEF LinksPut, Chain
      <4>2. CASE n # 0
        <5>1. s # <<>> /\ i # n + 1 /\ i + 1 \in 1 .. n + 1 /\ ~(i + 1 < k) /\ i + 1 # k
          BY <1>9, <2>3, <3>2, <4>2
        <5>2. c[i + 1] = s[1]
          BY <1>2a, <2>3, <3>2, <5>1
        <5> QED
          BY <3>1, <3>2, <5>1, <5>2 DEF LinksPut, Chain
      <4> QED
        BY <4>1, <4>2
    <3>3. CASE k # 1
      <4>1. k - 1 \in DOMAIN s
        BY <1>9, <3>3
      <4>2. W2[h].hWndSibling = IF k - 1 = n THEN Null ELSE s[(k - 1) + 1]
        <5>1. k > 1 /\ k - 1 \in 1 .. n
          BY <1>9, <3>3
        <5>2. W[s[k - 1]].hWndSibling = IF k - 1 = n THEN Null ELSE s[(k - 1) + 1]
          BY <1>10, <5>1
        <5> QED
          BY <3>3, <5>1, <5>2 DEF LinksPut
      <4>3. CASE k = n + 1
        BY <1>9, <2>3, <3>1, <4>2, <4>3
      <4>4. CASE k # n + 1
        <5>1. i + 1 \in 1 .. n + 1 /\ ~(i + 1 < k) /\ i + 1 # k /\ i # n + 1 /\ k - 1 # n
          BY <1>9, <2>3, <4>4
        <5>2. c[i + 1] = s[k]
          BY <1>9, <1>2a, <2>3, <5>1
        <5> QED
          BY <1>9, <3>1, <4>2, <5>1, <5>2
      <4> QED
        BY <4>3, <4>4
    <3> QED
      BY <3>2, <3>3
  <2>4. CASE i > k
    <3>1. i - 1 \in DOMAIN s /\ (i - 1) + 1 # k /\ ~(i < k) /\ i # k
      BY <1>9, <2>4
    <3>2. c[i] = s[i - 1]
      BY <1>2a, <3>1
    <3>3. W2[s[i - 1]].hWndSibling = IF i - 1 = n THEN Null ELSE s[(i - 1) + 1]
      BY <3>1, <1>10 DEF LinksPut
    <3>4. CASE i = n + 1
      BY <1>9, <3>2, <3>3, <3>4
    <3>5. CASE i # n + 1
      <4>1. i + 1 \in 1 .. n + 1 /\ ~(i + 1 < k) /\ i + 1 # k /\ i - 1 # n /\ (i + 1) - 1 = i
            /\ (i - 1) + 1 = i
        BY <1>9, <2>4, <3>5
      <4> QED
        BY <1>2a, <3>2, <3>3, <3>5, <4>1
    <3> QED
      BY <3>4, <3>5
  <2> QED
    BY <1>9, <2>1, <2>2, <2>3, <2>4
<1>4. (IF k = 1 THEN h ELSE first) = IF c = <<>> THEN Null ELSE c[1]
  <2>1. c # <<>> /\ 1 \in 1 .. Len(s) + 1
    BY <1>0, <1>1
  <2>2. k # 1 => s # <<>>
    BY <1>0
  <2> QED
    BY <1>0, <1>2, <2>1, <2>2 DEF Chain, LinksPut
<1> QED
  BY <1>1, <1>3, <1>4, <1>9 DEF Chain, c

LEMMA SameChain ==
    ASSUME NEW s, NEW W, NEW first, Chain(s, W, first), NEW W2,
           \A x \in Elements(s) : W2[x].hWndSibling = W[x].hWndSibling
    PROVE  Chain(s, W2, first)
BY DEF Chain, Elements

----------------------------------------------------------------------------
(* The links of windows *)

Window == {Root} \cup Win
WinRec == [kind : {"overlapped", "popup", "child"}, hWndParent : HWND, hWndOwner : HWND,
           hWndSibling : HWND, hWndChild : HWND, hWndLastChild : HWND, hWndGroup : HWND,
           group : BOOLEAN, visible : BOOLEAN]

Alive == {"live", "marked"}
IsWin(O, x) == x = Root \/ (x \in Win /\ O[x] \in Alive)

SiblingLink(O, W) ==
    [x \in HWND |-> IF IsWin(O, x) /\ IsWin(O, W[x].hWndSibling) THEN W[x].hWndSibling ELSE Null]

FromOf(O, W, first) ==
    LET at == Along(SiblingLink(O, W), IF IsWin(O, first) THEN first ELSE Null)
        n == Cardinality({k \in 0 .. MaxWindows - 1 : at[k] # Null})
    IN [i \in 1 .. n |-> at[i - 1]]

\* A walk along the siblings comes to those of the list, in its order.
LEMMA ChainFrom ==
    ASSUME NEW O, NEW W \in [Window -> WinRec], NEW first, NEW s, Chain(s, W, first),
           \A x \in Elements(s) : O[x] \in Alive
    PROVE  FromOf(O, W, first) = s
<1> USE BoundAssumption
<1> DEFINE link == SiblingLink(O, W)
           start == IF IsWin(O, first) THEN first ELSE Null
           at == Along(link, start)
           found == {n \in 0 .. MaxWindows - 1 : at[n] # Null}
<1>1. PICK k \in Nat : s \in [1 .. k -> Win] /\ k = Len(s) /\ DOMAIN s = 1 .. k
  <2>1. s \in Seq(Win)
    BY DEF Chain
  <2> QED
    BY <2>1
<1>2. k <= MaxWindows
  BY <1>1, FewWindows DEF Chain
<1>3. \A i \in 1 .. k : /\ s[i] \in Win /\ s[i] \in Window /\ IsWin(O, s[i])
                       /\ W[s[i]].hWndSibling = IF i = k THEN Null ELSE s[i + 1]
  BY <1>1 DEF Chain, IsWin, Elements, Window
<1>4. link \in Links
  <2>1. \A x \in HWND : IsWin(O, x) => W[x] \in WinRec
    BY DEF IsWin, Window
  <2>2. \A x \in HWND : IsWin(O, x) => W[x].hWndSibling \in HWND
    BY <2>1 DEF WinRec
  <2> QED
    BY <2>2, Handles DEF Links, SiblingLink
<1>5. ~IsWin(O, Null)
  BY Handles DEF IsWin
<1>6. \A i \in 1 .. k : link[s[i]] = IF i = k THEN Null ELSE s[i + 1]
  <2> TAKE i \in 1 .. k
  <2>1. i # k => i + 1 \in 1 .. k
    OBVIOUS
  <2>2. s[i] \in HWND /\ IsWin(O, s[i])
    BY <1>3, Handles
  <2> QED
    BY <1>3, <1>5, <2>1, <2>2 DEF SiblingLink
<1>7. link[Null] = Null
  BY <1>5, Handles DEF SiblingLink
<1>8. start \in HWND /\ start = IF k = 0 THEN Null ELSE s[1]
  <2>1. CASE k = 0
    <3>1. s = <<>>
      BY <1>1, <2>1
    <3> QED
      BY <1>5, <2>1, <3>1, Handles DEF Chain
  <2>2. CASE k # 0
    <3>1. s # <<>> /\ 1 \in 1 .. k
      BY <1>1, <2>2
    <3> QED
      BY <1>3, <2>2, <3>1, Handles DEF Chain
  <2> QED
    BY <2>1, <2>2
<1> HIDE DEF link, start
<1>9. Walks(link, at) /\ at[0] = start
  BY <1>4, <1>8, AlongWalks
<1> HIDE DEF at
<1>10. \A n \in 0 .. MaxWindows : at[n] = IF n < k THEN s[n + 1] ELSE Null
  <2> DEFINE Bad == {n \in 0 .. MaxWindows : at[n] # IF n < k THEN s[n + 1] ELSE Null}
  <2> SUFFICES Bad = {}
    OBVIOUS
  <2> SUFFICES ASSUME Bad # {} PROVE FALSE
    OBVIOUS
  <2>0. Bad \subseteq Nat
    OBVIOUS
  <2>1. PICK n \in Bad : \A y \in Bad : n <= y
    <3> HIDE DEF Bad
    <3> QED
      BY <2>0, Smallest
  <2>2. n \in 0 .. MaxWindows /\ n # 0 /\ at[n] # IF n < k THEN s[n + 1] ELSE Null
    BY <1>1, <1>8, <1>9
  <2>3. n - 1 \notin Bad /\ n - 1 \in 0 .. MaxWindows
    <3> HIDE DEF Bad
    <3> QED
      BY <2>1, <2>2
  <2>4. at[n - 1] = IF n - 1 < k THEN s[(n - 1) + 1] ELSE Null
    BY <2>3
  <2>5. at[n] = link[at[n - 1]]
    BY <1>9, <2>2 DEF Walks
  <2> HIDE DEF Bad
  <2>6. CASE n - 1 < k
    <3>1. n \in 1 .. k /\ (n - 1) + 1 = n /\ (n = k <=> ~(n < k))
      BY <2>2, <2>6
    <3> QED
      BY <1>6, <2>2, <2>4, <2>5, <2>6, <3>1
  <2>7. CASE ~(n - 1 < k)
    <3>1. ~(n < k)
      BY <2>2, <2>7
    <3> QED
      BY <1>7, <2>2, <2>4, <2>5, <2>7, <3>1
  <2> QED
    BY <2>6, <2>7
<1>11. Cardinality(found) = k
  <2>1. \A n \in 0 .. MaxWindows - 1 : at[n] # Null <=> n < k
    <3> TAKE n \in 0 .. MaxWindows - 1
    <3>1. n < k => n + 1 \in 1 .. k
      BY <1>1
    <3> QED
      BY <1>3, <1>10, <3>1, Handles
  <2>2. found = 0 .. k - 1
    <3>1. \A n : n \in 0 .. MaxWindows - 1 /\ n < k <=> n \in 0 .. k - 1
      BY <1>1, <1>2
    <3> QED
      BY <2>1, <3>1
  <2>3. Cardinality(0 .. k - 1) = k
    <3>1. 0 \in Int /\ k - 1 \in Int
      BY <1>1
    <3>2. Cardinality(0 .. k - 1) = IF 0 > k - 1 THEN 0 ELSE (k - 1) - 0 + 1
      BY ONLY <3>1, FS_Interval, Zenon
    <3>3. (IF 0 > k - 1 THEN 0 ELSE (k - 1) - 0 + 1) = k
      BY ONLY <1>1, k \in Nat
    <3> QED
      BY ONLY <3>2, <3>3
  <2> QED
    BY <2>2, <2>3
<1>12. \A i \in 1 .. k : at[i - 1] = s[i]
  <2> TAKE i \in 1 .. k
  <2>1. i - 1 \in 0 .. MaxWindows /\ i - 1 < k /\ (i - 1) + 1 = i
    BY <1>1, <1>2
  <2> QED
    BY <1>10, <2>1
<1>13. s = [i \in 1 .. k |-> s[i]]
  BY <1>1
<1>14. FromOf(O, W, first) = [i \in 1 .. Cardinality(found) |-> at[i - 1]]
  BY DEF FromOf, found, at, link, start
<1> HIDE DEF found
<1> QED
  BY <1>11, <1>12, <1>13, <1>14

----------------------------------------------------------------------------
(* Groups *)

GroupLink(O, W) == [x \in HWND |-> IF IsWin(O, x) THEN W[x].hWndGroup ELSE Null]

\* The group links of the windows of S are rings of these windows.
Rings(S, W) ==
    /\ \A x \in S : W[x].hWndGroup \in S
    /\ \A x, y \in S : W[x].hWndGroup = W[y].hWndGroup => x = y

RingBack(ring, h) == CHOOSE n \in 1 .. MaxWindows : ring[n] = h /\ \A m \in 1 .. n - 1 : ring[m] # h

LEMMA RingComesBack ==
    ASSUME NEW O, NEW W \in [Window -> WinRec], NEW S, S \subseteq Win,
           \A x \in S : O[x] \in Alive, Rings(S, W), NEW h \in S
    PROVE  LET ring == Along(GroupLink(O, W), h) IN
           /\ \E n \in 1 .. MaxWindows : ring[n] = h
           /\ ring[RingBack(ring, h) - 1] \in S
           /\ W[ring[RingBack(ring, h) - 1]].hWndGroup = h
<1> USE BoundAssumption
<1> DEFINE link == GroupLink(O, W)
           ring == Along(link, h)
<1>1. link \in Links
  <2>1. \A x \in HWND : IsWin(O, x) => W[x] \in WinRec
    BY DEF IsWin, Window
  <2>2. \A x \in HWND : IsWin(O, x) => W[x].hWndGroup \in HWND
    BY <2>1 DEF WinRec
  <2> QED
    BY <2>2, Handles DEF Links, GroupLink
<1>2. \A x \in S : link[x] = W[x].hWndGroup /\ link[x] \in S
  BY Handles DEF GroupLink, IsWin, Rings
<1>3. \A x, y \in S : link[x] = link[y] => x = y
  BY <1>2 DEF Rings
<1> HIDE DEF link
<1>4. Walks(link, ring) /\ ring[0] = h
  BY <1>1, AlongWalks, Handles
<1> HIDE DEF ring
<1>5. \A n \in 1 .. MaxWindows : ring[n] = link[ring[n - 1]]
  BY <1>4 DEF Walks
<1>6. \A n \in 0 .. MaxWindows : ring[n] \in S
  <2> DEFINE Bad == {n \in 0 .. MaxWindows : ring[n] \notin S}
  <2> SUFFICES ASSUME Bad # {} PROVE FALSE
    OBVIOUS
  <2>0. Bad \subseteq Nat
    OBVIOUS
  <2>1. PICK n \in Bad : \A y \in Bad : n <= y
    <3> HIDE DEF Bad
    <3> QED
      BY <2>0, Smallest
  <2>2. n \in 0 .. MaxWindows /\ n # 0 /\ ring[n] \notin S
    BY <1>4
  <2>3. n - 1 \notin Bad /\ n - 1 \in 0 .. MaxWindows /\ n \in 1 .. MaxWindows
    <3> HIDE DEF Bad
    <3> QED
      BY <2>1, <2>2
  <2> QED
    BY <1>2, <1>5, <2>2, <2>3
<1>7. \E n \in 1 .. MaxWindows : ring[n] = h
  <2> DEFINE f == [i \in 1 .. MaxWindows + 1 |-> ring[i - 1]]
             Again == {i \in 0 .. MaxWindows : \E j \in 0 .. MaxWindows : i < j /\ ring[i] = ring[j]}
  <2>1. f \in [1 .. MaxWindows + 1 -> Win]
    <3>1. \A i \in 1 .. MaxWindows + 1 : i - 1 \in 0 .. MaxWindows
      OBVIOUS
    <3> QED
      BY <1>6, <3>1
  <2>2. ~IsInjective(f)
    <3> HIDE DEF f
    <3> QED
      BY <2>1, FewWindows, MaxWindows + 1 \in Nat
  <2>3. PICK i0 \in 1 .. MaxWindows + 1, j0 \in 1 .. MaxWindows + 1 : i0 # j0 /\ f[i0] = f[j0]
    BY <2>2 DEF IsInjective
  <2>4. Again # {}
    <3>1. ring[i0 - 1] = ring[j0 - 1] /\ i0 - 1 \in 0 .. MaxWindows /\ j0 - 1 \in 0 .. MaxWindows
      BY <2>3
    <3>2. i0 - 1 < j0 - 1 \/ j0 - 1 < i0 - 1
      BY <2>3
    <3> QED
      BY <3>1, <3>2
  <2>5. PICK i \in Again : \A y \in Again : i <= y
    <3>1. Again \subseteq Nat
      OBVIOUS
    <3> HIDE DEF Again
    <3> QED
      BY <2>4, <3>1, Smallest
  <2>6. i \in 0 .. MaxWindows
    OBVIOUS
  <2>7. PICK j \in 0 .. MaxWindows : i < j /\ ring[i] = ring[j]
    OBVIOUS
  <2>8. CASE i = 0
    BY <1>4, <2>7, <2>8
  <2>9. CASE i # 0
    <3>1. i \in 1 .. MaxWindows /\ j \in 1 .. MaxWindows /\ i - 1 \in 0 .. MaxWindows
          /\ j - 1 \in 0 .. MaxWindows /\ i - 1 < j - 1
      BY <2>6, <2>7, <2>9
    <3>2. ring[i - 1] = ring[j - 1]
      BY <1>3, <1>5, <1>6, <2>7, <3>1
    <3>3. i - 1 \in Again
      BY <3>1, <3>2
    <3> QED
      <4> HIDE DEF Again
      <4> QED
        BY <2>5, <2>6, <3>3
  <2> QED
    BY <2>8, <2>9
<1>8. RingBack(ring, h) \in 1 .. MaxWindows /\ ring[RingBack(ring, h)] = h
  <2> DEFINE Backs == {n \in 1 .. MaxWindows : ring[n] = h}
  <2>1. Backs \subseteq Nat /\ Backs # {}
    BY <1>7
  <2>2. PICK n \in Backs : \A y \in Backs : n <= y
    <3> HIDE DEF Backs
    <3> QED
      BY <2>1, Smallest
  <2>3. \A m \in 1 .. n - 1 : ring[m] # h
    <3> SUFFICES ASSUME NEW m \in 1 .. n - 1, ring[m] = h PROVE FALSE
      OBVIOUS
    <3>1. n \in 1 .. MaxWindows
      OBVIOUS
    <3>2. m \in Backs /\ m < n
      BY <3>1
    <3> HIDE DEF Backs
    <3> QED
      BY <2>1, <2>2, <3>2
  <2>4. n \in 1 .. MaxWindows /\ ring[n] = h
    OBVIOUS
  <2> QED
    BY <2>3, <2>4 DEF RingBack
<1>9. RingBack(ring, h) - 1 \in 0 .. MaxWindows
  BY <1>8
<1>10. link[ring[RingBack(ring, h) - 1]] = h
  BY <1>5, <1>8
<1>11. ring[RingBack(ring, h) - 1] \in S
  BY <1>6, <1>9
<1>12. ring = Along(GroupLink(O, W), h)
  BY DEF ring, link
<1> HIDE DEF RingBack
<1> QED
  BY <1>2, <1>7, <1>10, <1>11, <1>12

\* A ring without h, whose predecessor now goes to who comes after h.
LEMMA RingsCut ==
    ASSUME NEW S, NEW W, Rings(S, W), NEW h \in S, NEW g \in S, W[g].hWndGroup = h, NEW W2,
           \A x \in S \ {h} : W2[x].hWndGroup = IF x = g THEN W[h].hWndGroup ELSE W[x].hWndGroup
    PROVE  Rings(S \ {h}, W2)
<1>1. ASSUME NEW x \in S \ {h} PROVE W2[x].hWndGroup \in S \ {h}
  BY <1>1 DEF Rings
<1>2. ASSUME NEW x \in S \ {h}, NEW y \in S \ {h}, W2[x].hWndGroup = W2[y].hWndGroup PROVE x = y
  BY <1>2 DEF Rings
<1> QED
  BY <1>1, <1>2 DEF Rings

\* h is a ring of its own, or comes in between g and who comes after it.
Joins(S, W, W2, h) ==
    \/ /\ W2[h].hWndGroup = h
       /\ \A x \in S : W2[x].hWndGroup = W[x].hWndGroup
    \/ \E g \in S : /\ W2[h].hWndGroup = W[g].hWndGroup /\ W2[g].hWndGroup = h
                    /\ \A x \in S \ {g} : W2[x].hWndGroup = W[x].hWndGroup

\* Rings stay rings when a window joins one.
LEMMA RingsPut ==
    ASSUME NEW S, NEW W, Rings(S, W), NEW h, h \notin S, NEW W2, Joins(S, W, W2, h)
    PROVE  Rings(S \cup {h}, W2)
<1> USE DEF Joins
<1>1. ASSUME NEW x \in S \cup {h} PROVE W2[x].hWndGroup \in S \cup {h}
  BY <1>1 DEF Rings
<1>2. ASSUME NEW x \in S \cup {h}, NEW y \in S \cup {h}, W2[x].hWndGroup = W2[y].hWndGroup PROVE x = y
  BY <1>2 DEF Rings
<1> QED
  BY <1>1, <1>2 DEF Rings

LEMMA RingsSame ==
    ASSUME NEW S, NEW W, Rings(S, W), NEW W2, \A x \in S : W2[x].hWndGroup = W[x].hWndGroup
    PROVE  Rings(S, W2)
BY DEF Rings

----------------------------------------------------------------------------
(* The tree *)

\* The window whose list x is in, by the links W.
ParentIn(W, x) == IF W[x].kind = "child" THEN W[x].hWndParent ELSE Root
Members(W, M, p) == {x \in M : ParentIn(W, x) = p}

\* The members M are in the lists C of their parents; the links of their groups are rings.
Lists(C, W, P, M) ==
    /\ C \in [P -> Seq(Win)]
    /\ \A p \in P : Chain(C[p], W, W[p].hWndChild) /\ Elements(C[p]) = Members(W, M, p)
Groups(W, P, M) ==
    \A p \in P : W[p].hWndLastChild \in {Null} \cup Members(W, M, p) /\ Rings(Members(W, M, p), W)

\* Kind, parent and owner are as before.
Kin(W, W2) ==
    \A x \in Window : /\ W2[x].kind = W[x].kind /\ W2[x].hWndParent = W[x].hWndParent
                      /\ W2[x].hWndOwner = W[x].hWndOwner

\* Nothing but the lists of P and the links of their members has changed.
Inside(W, W2, P, M) ==
    /\ \A x \in Win : x \notin M \/ ParentIn(W, x) \notin P => W2[x].hWndSibling = W[x].hWndSibling
    /\ \A x \in Window : x \notin P => /\ W2[x].hWndChild = W[x].hWndChild
                                       /\ W2[x].hWndLastChild = W[x].hWndLastChild

\* The links, where the k-th of the list s of p is taken out, or h becomes its k-th.
TakenOut(W, W2, P, M, p, s, k) ==
    /\ \A x \in M : ParentIn(W2, x) = ParentIn(W, x)
    /\ \A x \in Win : x # s[k] => W2[x].hWndSibling =
           IF k > 1 /\ x = s[k - 1] THEN W[s[k]].hWndSibling ELSE W[x].hWndSibling
    /\ \A q \in P : W2[q].hWndChild = IF k = 1 /\ q = p THEN W[s[k]].hWndSibling ELSE W[q].hWndChild
PutIn(W, W2, P, M, p, s, k, h) ==
    /\ \A x \in M : ParentIn(W2, x) = ParentIn(W, x)
    /\ ParentIn(W2, h) = p
    /\ \A x \in Win : x # h => W2[x].hWndSibling =
           IF k > 1 /\ x = s[k - 1] THEN h ELSE W[x].hWndSibling
    /\ W2[h].hWndSibling = IF k = 1 THEN W[p].hWndChild ELSE W[s[k - 1]].hWndSibling
    /\ \A q \in P : W2[q].hWndChild = IF k = 1 /\ q = p THEN h ELSE W[q].hWndChild

CutAt(C, p, k) == [C EXCEPT ![p] = Cut(C[p], k)]
PutAt(C, p, k, h) == [C EXCEPT ![p] = Put(C[p], k, h)]

\* h, the k-th of the list of p, is taken out of it.
LEMMA ListsCut ==
    ASSUME NEW W, NEW W2, NEW P, NEW M, M \subseteq Win, NEW C, Lists(C, W, P, M),
           NEW p \in P, NEW k \in DOMAIN C[p], TakenOut(W, W2, P, M, p, C[p], k)
    PROVE  Lists(CutAt(C, p, k), W2, P, M \ {C[p][k]})
<1> DEFINE h == C[p][k]
           D == CutAt(C, p, k)
<1>0. /\ \A x \in M : ParentIn(W2, x) = ParentIn(W, x)
      /\ \A x \in Win : x # h => W2[x].hWndSibling =
             IF k > 1 /\ x = C[p][k - 1] THEN W[h].hWndSibling ELSE W[x].hWndSibling
      /\ \A q \in P : W2[q].hWndChild = IF k = 1 /\ q = p THEN W[h].hWndSibling ELSE W[q].hWndChild
  BY DEF TakenOut
<1> USE <1>0
<1> DEFINE s == C[p]
<1>1. s \in Seq(Win) /\ IsInjective(s) /\ Chain(s, W, W[p].hWndChild) /\ Elements(s) = Members(W, M, p)
  BY DEF Lists, Chain
<1>2. k \in 1 .. Len(s) /\ DOMAIN s = 1 .. Len(s) /\ Len(s) \in Nat
  BY <1>1
<1>3. \A i \in DOMAIN s : s[i] \in Win /\ s[i] \in Elements(s)
  BY <1>1 DEF Elements
<1>4. h \in Members(W, M, p)
  BY <1>1, <1>3
<1>5. LinksCut(s, k, W, W2)
  <2>1. ASSUME NEW i \in DOMAIN s, i # k, i + 1 # k PROVE W2[s[i]].hWndSibling = W[s[i]].hWndSibling
    <3>1. s[i] # h
      BY <1>1, <2>1 DEF IsInjective
    <3>2. k > 1 => k - 1 \in DOMAIN s /\ i # k - 1
      BY <1>2, <2>1
    <3>3. k > 1 => s[i] # s[k - 1]
      BY <1>1, <3>2 DEF IsInjective
    <3> QED
      BY <1>3, <3>1, <3>3
  <2>2. ASSUME k > 1 PROVE W2[s[k - 1]].hWndSibling = W[h].hWndSibling
    <3>1. k - 1 \in DOMAIN s /\ k - 1 # k
      BY <1>2, <2>2
    <3>2. s[k - 1] # h /\ s[k - 1] \in Win
      BY <1>1, <1>3, <3>1 DEF IsInjective
    <3> QED
      BY <2>2, <3>2
  <2> QED
    BY <2>1, <2>2 DEF LinksCut
<1>6. Chain(Cut(s, k), W2, W2[p].hWndChild)
  <2>1. Chain(Cut(s, k), W2, IF k = 1 THEN W[s[k]].hWndSibling ELSE W[p].hWndChild)
    BY <1>1, <1>2, <1>5, CutChain
  <2> QED
    BY <2>1
<1>7. Cut(s, k) \in Seq(Win) /\ Elements(Cut(s, k)) = Elements(s) \ {h}
  BY <1>1, CutSeq
<1>8. D \in [P -> Seq(Win)]
  BY <1>7 DEF Lists, CutAt, PutAt
<1>9. \A q \in P : Members(W2, M \ {h}, q) = Members(W, M, q) \ {h}
  BY DEF Members
<1>10. ASSUME NEW q \in P, q # p
       PROVE  Chain(C[q], W2, W2[q].hWndChild) /\ h \notin Elements(C[q])
  <2>1. Chain(C[q], W, W[q].hWndChild) /\ Elements(C[q]) = Members(W, M, q)
    BY DEF Lists
  <2>2. \A x \in Elements(C[q]) : x \in Win /\ x \notin Members(W, M, p)
    BY <1>10, <2>1 DEF Members
  <2>3. k > 1 => s[k - 1] \in Members(W, M, p)
    <3>1. k > 1 => k - 1 \in DOMAIN s
      BY <1>2
    <3> QED
      BY <1>1, <1>3, <3>1
  <2>4. \A x \in Elements(C[q]) : W2[x].hWndSibling = W[x].hWndSibling
    BY <1>4, <2>2, <2>3
  <2> QED
    BY <1>4, <1>10, <2>1, <2>2, <2>4, SameChain
<1>11. D[p] = Cut(s, k) /\ \A q \in P : q # p => D[q] = C[q]
  BY DEF Lists, CutAt, PutAt
<1> HIDE DEF s
<1>12. ASSUME NEW q \in P
       PROVE  Chain(D[q], W2, W2[q].hWndChild) /\ Elements(D[q]) = Members(W2, M \ {h}, q)
  <2>1. CASE q = p
    BY <1>1, <1>6, <1>7, <1>9, <1>11, <2>1
  <2>2. CASE q # p
    <3>1. Elements(C[q]) = Members(W, M, q)
      BY DEF Lists
    <3>2. Members(W2, M \ {h}, q) = Members(W, M, q)
      <4>1. h \notin Members(W, M, q)
        BY <1>10, <2>2, <3>1
      <4>2. Members(W2, M \ {h}, q) = Members(W, M, q) \ {h}
        BY <1>9
      <4> QED
        BY <4>1, <4>2
    <3> QED
      BY <1>10, <1>11, <2>2, <3>1, <3>2
  <2> QED
    BY <2>1, <2>2
<1>13. Lists(D, W2, P, M \ {h})
  BY <1>8, <1>12 DEF Lists
<1> QED
  BY <1>13

\* h is put into the list of p, as its k-th.
LEMMA ListsPut ==
    ASSUME NEW W, NEW W2, NEW P, NEW M, M \subseteq Win, NEW C, Lists(C, W, P, M),
           NEW p \in P, NEW k \in 1 .. Len(C[p]) + 1, NEW h \in Win, h \notin M,
           PutIn(W, W2, P, M, p, C[p], k, h)
    PROVE  Lists(PutAt(C, p, k, h), W2, P, M \cup {h})
<1> DEFINE D == PutAt(C, p, k, h)
<1>0. /\ \A x \in M : ParentIn(W2, x) = ParentIn(W, x)
      /\ ParentIn(W2, h) = p
      /\ \A x \in Win : x # h => W2[x].hWndSibling =
             IF k > 1 /\ x = C[p][k - 1] THEN h ELSE W[x].hWndSibling
      /\ W2[h].hWndSibling = IF k = 1 THEN W[p].hWndChild ELSE W[C[p][k - 1]].hWndSibling
      /\ \A q \in P : W2[q].hWndChild = IF k = 1 /\ q = p THEN h ELSE W[q].hWndChild
  BY DEF PutIn
<1> USE <1>0
<1> DEFINE s == C[p]
<1>1. s \in Seq(Win) /\ IsInjective(s) /\ Chain(s, W, W[p].hWndChild) /\ Elements(s) = Members(W, M, p)
  BY DEF Lists, Chain
<1>2. k \in 1 .. Len(s) + 1 /\ DOMAIN s = 1 .. Len(s) /\ Len(s) \in Nat
  BY <1>1
<1>3. \A i \in DOMAIN s : s[i] \in Win /\ s[i] \in Elements(s) /\ s[i] # h
  BY <1>1 DEF Elements, Members
<1>4. h \notin Elements(s)
  BY <1>1 DEF Members
<1>5. LinksPut(s, k, h, W[p].hWndChild, W, W2)
  <2>1. ASSUME NEW i \in DOMAIN s, i + 1 # k PROVE W2[s[i]].hWndSibling = W[s[i]].hWndSibling
    <3>1. k > 1 => k - 1 \in DOMAIN s /\ i # k - 1
      BY <1>2, <2>1
    <3>2. k > 1 => s[i] # s[k - 1]
      BY <1>1, <3>1 DEF IsInjective
    <3> QED
      BY <1>3, <3>2
  <2>2. ASSUME k > 1 PROVE W2[s[k - 1]].hWndSibling = h
    <3>1. k - 1 \in DOMAIN s
      BY <1>2, <2>2
    <3> QED
      BY <1>3, <2>2, <3>1
  <2> QED
    BY <2>1, <2>2 DEF LinksPut
<1>6. Chain(Put(s, k, h), W2, W2[p].hWndChild)
  <2>1. Chain(Put(s, k, h), W2, IF k = 1 THEN h ELSE W[p].hWndChild)
    BY <1>1, <1>2, <1>4, <1>5, PutChain
  <2> QED
    BY <2>1
<1>7. Put(s, k, h) \in Seq(Win) /\ Elements(Put(s, k, h)) = Elements(s) \cup {h}
  BY <1>1, <1>4, PutSeq
<1>8. D \in [P -> Seq(Win)]
  BY <1>7 DEF Lists, CutAt, PutAt
<1>9. \A q \in P : Members(W2, M \cup {h}, q) = IF q = p THEN Members(W, M, q) \cup {h} ELSE Members(W, M, q)
  BY DEF Members
<1>10. ASSUME NEW q \in P, q # p
       PROVE  Chain(C[q], W2, W2[q].hWndChild)
  <2>1. Chain(C[q], W, W[q].hWndChild) /\ Elements(C[q]) = Members(W, M, q)
    BY DEF Lists
  <2>2. \A x \in Elements(C[q]) : x \in Win /\ x \notin Members(W, M, p) /\ x # h
    BY <1>10, <2>1 DEF Members
  <2>3. k > 1 => s[k - 1] \in Members(W, M, p)
    <3>1. k > 1 => k - 1 \in DOMAIN s
      BY <1>2
    <3> QED
      BY <1>1, <1>3, <3>1
  <2>4. \A x \in Elements(C[q]) : W2[x].hWndSibling = W[x].hWndSibling
    BY <2>2, <2>3
  <2> QED
    BY <1>10, <2>1, <2>4, SameChain
<1>11. D[p] = Put(s, k, h) /\ \A q \in P : q # p => D[q] = C[q]
  BY DEF Lists, CutAt, PutAt
<1> HIDE DEF s
<1>12. ASSUME NEW q \in P
       PROVE  Chain(D[q], W2, W2[q].hWndChild) /\ Elements(D[q]) = Members(W2, M \cup {h}, q)
  <2>1. CASE q = p
    BY <1>1, <1>6, <1>7, <1>9, <1>11, <2>1
  <2>2. CASE q # p
    <3>1. Elements(C[q]) = Members(W, M, q)
      BY DEF Lists
    <3> QED
      BY <1>9, <1>10, <1>11, <2>2, <3>1
  <2> QED
    BY <2>1, <2>2
<1>13. Lists(D, W2, P, M \cup {h})
  BY <1>8, <1>12 DEF Lists
<1> QED
  BY <1>13

\* A list is there for fewer parents, and the links of others may change.
LEMMA ListsFewer ==
    ASSUME NEW W, NEW W2, NEW P, NEW M, NEW C, Lists(C, W, P, M), NEW Q, Q \subseteq P, NEW N, N \subseteq M,
           \A q \in Q : Members(W, M, q) = Members(W2, N, q),
           \A q \in Q : W2[q].hWndChild = W[q].hWndChild,
           \A q \in Q : \A x \in Members(W, M, q) : W2[x].hWndSibling = W[x].hWndSibling
    PROVE  Lists([q \in Q |-> C[q]], W2, Q, N)
<1>1. \A q \in Q : Chain(C[q], W, W[q].hWndChild) /\ Elements(C[q]) = Members(W, M, q) /\ C[q] \in Seq(Win)
  BY DEF Lists
<1>2. \A q \in Q : Chain(C[q], W2, W2[q].hWndChild)
  BY <1>1, SameChain
<1> QED
  BY <1>1, <1>2 DEF Lists

----------------------------------------------------------------------------
(* One field of one window *)

Wins == [Window -> WinRec]
SameSiblings(W, U) == \A x \in Window : U[x].hWndSibling = W[x].hWndSibling
SameChildren(W, U) == \A x \in Window : U[x].hWndChild = W[x].hWndChild
SameLast(W, U) == \A x \in Window : U[x].hWndLastChild = W[x].hWndLastChild
SameGroups(W, U) == \A x \in Window : U[x].hWndGroup = W[x].hWndGroup

WithSibling(W, a, v) == [W EXCEPT ![a].hWndSibling = v]
WithChild(W, a, v) == [W EXCEPT ![a].hWndChild = v]
WithLast(W, a, v) == [W EXCEPT ![a].hWndLastChild = v]
WithGroup(W, a, v) == [W EXCEPT ![a].hWndGroup = v]

LEMMA SetSibling ==
    ASSUME NEW W \in Wins, NEW a \in Window, NEW v \in HWND
    PROVE  LET U == WithSibling(W, a, v) IN
           /\ U \in Wins /\ Kin(W, U) /\ SameChildren(W, U) /\ SameLast(W, U) /\ SameGroups(W, U)
           /\ \A x \in Window : U[x].hWndSibling = IF x = a THEN v ELSE W[x].hWndSibling
<1> DEFINE U == WithSibling(W, a, v)
<1>1. \A x \in Window : W[x] \in WinRec
  BY DEF Wins
<1>2. \A x \in Window : U[x] = IF x = a THEN [W[x] EXCEPT !.hWndSibling = v] ELSE W[x]
  BY DEF Wins, WithSibling
<1>3. U \in Wins
  <2>1. [W[a] EXCEPT !.hWndSibling = v] \in WinRec
    BY <1>1 DEF WinRec
  <2> QED
    BY <2>1 DEF Wins, WithSibling
<1> HIDE DEF U
<1>4. Kin(W, U) /\ SameChildren(W, U) /\ SameLast(W, U) /\ SameGroups(W, U)
  BY <1>1, <1>2 DEF Kin, SameChildren, SameLast, SameGroups, WinRec
<1>5. \A x \in Window : U[x].hWndSibling = IF x = a THEN v ELSE W[x].hWndSibling
  BY <1>1, <1>2 DEF WinRec
<1> QED
  BY <1>3, <1>4, <1>5 DEF U

LEMMA SetChild ==
    ASSUME NEW W \in Wins, NEW a \in Window, NEW v \in HWND
    PROVE  LET U == WithChild(W, a, v) IN
           /\ U \in Wins /\ Kin(W, U) /\ SameSiblings(W, U) /\ SameLast(W, U) /\ SameGroups(W, U)
           /\ \A x \in Window : U[x].hWndChild = IF x = a THEN v ELSE W[x].hWndChild
<1> DEFINE U == WithChild(W, a, v)
<1>1. \A x \in Window : W[x] \in WinRec
  BY DEF Wins
<1>2. \A x \in Window : U[x] = IF x = a THEN [W[x] EXCEPT !.hWndChild = v] ELSE W[x]
  BY DEF Wins, WithChild
<1>3. U \in Wins
  <2>1. [W[a] EXCEPT !.hWndChild = v] \in WinRec
    BY <1>1 DEF WinRec
  <2> QED
    BY <2>1 DEF Wins, WithChild
<1> HIDE DEF U
<1>4. Kin(W, U) /\ SameSiblings(W, U) /\ SameLast(W, U) /\ SameGroups(W, U)
  BY <1>1, <1>2 DEF Kin, SameSiblings, SameLast, SameGroups, WinRec
<1>5. \A x \in Window : U[x].hWndChild = IF x = a THEN v ELSE W[x].hWndChild
  BY <1>1, <1>2 DEF WinRec
<1> QED
  BY <1>3, <1>4, <1>5 DEF U

LEMMA SetLast ==
    ASSUME NEW W \in Wins, NEW a \in Window, NEW v \in HWND
    PROVE  LET U == WithLast(W, a, v) IN
           /\ U \in Wins /\ Kin(W, U) /\ SameSiblings(W, U) /\ SameChildren(W, U) /\ SameGroups(W, U)
           /\ \A x \in Window : U[x].hWndLastChild = IF x = a THEN v ELSE W[x].hWndLastChild
<1> DEFINE U == WithLast(W, a, v)
<1>1. \A x \in Window : W[x] \in WinRec
  BY DEF Wins
<1>2. \A x \in Window : U[x] = IF x = a THEN [W[x] EXCEPT !.hWndLastChild = v] ELSE W[x]
  BY DEF Wins, WithLast
<1>3. U \in Wins
  <2>1. [W[a] EXCEPT !.hWndLastChild = v] \in WinRec
    BY <1>1 DEF WinRec
  <2> QED
    BY <2>1 DEF Wins, WithLast
<1> HIDE DEF U
<1>4. Kin(W, U) /\ SameSiblings(W, U) /\ SameChildren(W, U) /\ SameGroups(W, U)
  BY <1>1, <1>2 DEF Kin, SameSiblings, SameChildren, SameGroups, WinRec
<1>5. \A x \in Window : U[x].hWndLastChild = IF x = a THEN v ELSE W[x].hWndLastChild
  BY <1>1, <1>2 DEF WinRec
<1> QED
  BY <1>3, <1>4, <1>5 DEF U

LEMMA SetGroup ==
    ASSUME NEW W \in Wins, NEW a \in Window, NEW v \in HWND
    PROVE  LET U == WithGroup(W, a, v) IN
           /\ U \in Wins /\ Kin(W, U) /\ SameSiblings(W, U) /\ SameChildren(W, U) /\ SameLast(W, U)
           /\ \A x \in Window : U[x].hWndGroup = IF x = a THEN v ELSE W[x].hWndGroup
<1> DEFINE U == WithGroup(W, a, v)
<1>1. \A x \in Window : W[x] \in WinRec
  BY DEF Wins
<1>2. \A x \in Window : U[x] = IF x = a THEN [W[x] EXCEPT !.hWndGroup = v] ELSE W[x]
  BY DEF Wins, WithGroup
<1>3. U \in Wins
  <2>1. [W[a] EXCEPT !.hWndGroup = v] \in WinRec
    BY <1>1 DEF WinRec
  <2> QED
    BY <2>1 DEF Wins, WithGroup
<1> HIDE DEF U
<1>4. Kin(W, U) /\ SameSiblings(W, U) /\ SameChildren(W, U) /\ SameLast(W, U)
  BY <1>1, <1>2 DEF Kin, SameSiblings, SameChildren, SameLast, WinRec
<1>5. \A x \in Window : U[x].hWndGroup = IF x = a THEN v ELSE W[x].hWndGroup
  BY <1>1, <1>2 DEF WinRec
<1> QED
  BY <1>3, <1>4, <1>5 DEF U

----------------------------------------------------------------------------
(* The operations on the lists of the members M *)

\* The members are in the lists C of the parents P, and all these are windows.
Now(C, P, M) ==
    /\ win \in Wins
    /\ Root \in P /\ P \subseteq Window /\ M \subseteq Win
    /\ \A x \in M \cup P : IsWin(obj, x)
    /\ \A x \in M : ParentIn(win, x) # x
    /\ Lists(C, win, P, M)

\* What TWIN_EnumerateSiblingWindows comes to are the children of the window, in order.
LEMMA ChildrenAre ==
    ASSUME NEW C, NEW P, NEW M, Now(C, P, M), NEW p \in P
    PROVE  /\ Children(p) = C[p]
           /\ C[p] \in Seq(Win) /\ IsInjective(C[p]) /\ Chain(C[p], win, win[p].hWndChild)
           /\ Elements(C[p]) = Members(win, M, p) /\ ToSet(C[p]) = Elements(C[p])
<1>1. Chain(C[p], win, win[p].hWndChild) /\ Elements(C[p]) = Members(win, M, p)
  BY DEF Now, Lists
<1>2. \A x \in Elements(C[p]) : obj[x] \in Alive
  BY <1>1, Handles DEF Now, Members, IsWin
<1>3. FromOf(obj, win, win[p].hWndChild) = C[p]
  BY <1>1, <1>2, ChainFrom DEF Now, Wins
<1>4. Children(p) = FromOf(obj, win, win[p].hWndChild)
  BY DEF Children, From, FromOf, SiblingLink, IsWindow, IsWin, Alive
<1> QED
  BY <1>1, <1>3, <1>4 DEF Chain, ToSet, Elements

\* A member is in the list of its parent.
LEMMA PlaceOf ==
    ASSUME NEW C, NEW P, NEW M, Now(C, P, M), NEW h \in M, ParentIn(win, h) \in P
    PROVE  LET p == ParentIn(win, h) IN
           /\ \E k \in DOMAIN C[p] : C[p][k] = h
           /\ DOMAIN C[p] = 1 .. Len(C[p]) /\ Len(C[p]) \in Nat
           /\ \A i \in DOMAIN C[p] : C[p][i] \in Members(win, M, p) /\ C[p][i] \in Win /\ C[p][i] # p
<1> DEFINE p == ParentIn(win, h)
<1>1. C[p] \in Seq(Win) /\ Elements(C[p]) = Members(win, M, p)
  BY ChildrenAre
<1>2. h \in Members(win, M, p)
  BY DEF Members
<1>3. \A i \in DOMAIN C[p] : C[p][i] \in Members(win, M, p)
  BY <1>1 DEF Elements
<1>4. \A x \in Members(win, M, p) : x \in Win /\ x # p
  BY DEF Members, Now
<1> QED
  BY <1>1, <1>2, <1>3, <1>4 DEF Elements

\* Who is before the k-th.
LEMMA PrevTreeIs ==
    ASSUME NEW C, NEW P, NEW M, Now(C, P, M), NEW h \in M, ParentIn(win, h) \in P,
           NEW k \in DOMAIN C[ParentIn(win, h)], C[ParentIn(win, h)][k] = h
    PROVE  PrevTree(h) = IF k = 1 THEN ParentIn(win, h) ELSE C[ParentIn(win, h)][k - 1]
<1> DEFINE p == ParentIn(win, h)
           s == C[p]
           before == {x \in ToSet(Children(p)) : win[x].hWndSibling = h}
<1>1. Children(p) = s /\ s \in Seq(Win) /\ IsInjective(s) /\ Chain(s, win, win[p].hWndChild)
  BY ChildrenAre
<1>2. ListParent(h) = p
  BY DEF ListParent, ParentIn
<1>3. DOMAIN s = 1 .. Len(s) /\ Len(s) \in Nat /\ k \in 1 .. Len(s) /\ s # <<>> /\ h \in Win
  BY <1>1 DEF Now
<1>4. win[p].hWndChild = s[1]
  BY <1>1, <1>3 DEF Chain
<1>5. CASE k = 1
  BY <1>2, <1>4, <1>5 DEF PrevTree
<1>6. CASE k # 1
  <2>1. k - 1 \in DOMAIN s /\ k - 1 # Len(s) /\ (k - 1) + 1 = k /\ 1 \in DOMAIN s
    BY <1>3, <1>6
  <2>2. win[s[k - 1]].hWndSibling = h
    BY <1>1, <2>1 DEF Chain
  <2>3. s[1] # h
    BY <1>1, <1>6, <2>1 DEF IsInjective
  <2>4. ASSUME NEW i \in DOMAIN s, win[s[i]].hWndSibling = h PROVE i = k - 1
    <3>1. i # Len(s)
      BY <1>1, <1>3, <2>4, Handles DEF Chain
    <3>2. i + 1 \in DOMAIN s /\ s[i + 1] = h
      BY <1>1, <1>3, <2>4, <3>1 DEF Chain
    <3>3. i + 1 = k
      BY <1>1, <3>2 DEF IsInjective
    <3> QED
      BY <1>3, <3>3
  <2>5. before = {s[k - 1]}
    BY <1>1, <2>1, <2>2, <2>4 DEF ToSet
  <2>6. PrevTree(h) = CHOOSE x \in before : TRUE
    <3>1. before # {}
      BY <2>5
    <3> QED
      BY <1>2, <1>4, <2>3, <3>1 DEF PrevTree
  <2> HIDE DEF before
  <2> QED
    BY <1>6, <2>5, <2>6
<1> QED
  BY <1>5, <1>6

\* The links go past the k-th of the list s of p.
LinkedPast(W, U, p, s, k) ==
    /\ \A x \in Window : U[x].hWndSibling =
           IF k > 1 /\ x = s[k - 1] THEN W[s[k]].hWndSibling ELSE W[x].hWndSibling
    /\ \A x \in Window : U[x].hWndChild =
           IF k = 1 /\ x = p THEN W[s[k]].hWndSibling ELSE W[x].hWndChild

\* What Unlinked does to the links.
LEMMA Unlinking ==
    ASSUME NEW C, NEW P, NEW M, Now(C, P, M), NEW h \in M, NEW p \in P, p = ParentIn(win, h),
           NEW k \in DOMAIN C[p], C[p][k] = h
    PROVE  LET U == Unlinked(h) IN
           /\ CanFindPrev(h)
           /\ U \in Wins /\ Kin(win, U) /\ SameLast(win, U) /\ SameGroups(win, U)
           /\ LinkedPast(win, U, p, C[p], k)
           /\ TakenOut(win, U, P, M, p, C[p], k)
           /\ Lists(CutAt(C, p, k), U, P, M \ {h})
<1> DEFINE s == C[p]
           U == Unlinked(h)
<1>1. /\ DOMAIN s = 1 .. Len(s) /\ Len(s) \in Nat
      /\ \A i \in DOMAIN s : s[i] \in Members(win, M, p) /\ s[i] \in Win /\ s[i] # p
  BY PlaceOf
<1>2. ListParent(h) = p
  BY DEF ListParent, ParentIn
<1>3. PrevTree(h) = IF k = 1 THEN p ELSE s[k - 1]
  BY PrevTreeIs
<1>4. k > 1 => s[k - 1] \in Win /\ s[k - 1] # p
  <2>1. k > 1 => k - 1 \in DOMAIN s
    BY <1>1
  <2> QED
    BY <1>1, <2>1
<1>5. h \in Window /\ p \in Window /\ win[h].hWndSibling \in HWND /\ Win \subseteq Window /\ h \in Win
  BY DEF Now, Window, Wins, WinRec
<1>6. win \in Wins
  BY DEF Now
<1>7. U = IF k = 1 THEN WithChild(win, p, win[h].hWndSibling)
          ELSE WithSibling(win, s[k - 1], win[h].hWndSibling)
  <2>1. k = 1 \/ k > 1
    BY <1>1
  <2> QED
    BY <1>2, <1>3, <1>4, <2>1 DEF Unlinked, WithChild, WithSibling
<1> HIDE DEF U
<1>8. /\ U \in Wins /\ Kin(win, U) /\ SameLast(win, U) /\ SameGroups(win, U)
      /\ \A x \in Window : U[x].hWndSibling =
            IF k > 1 /\ x = s[k - 1] THEN win[h].hWndSibling ELSE win[x].hWndSibling
      /\ \A x \in Window : U[x].hWndChild =
            IF k = 1 /\ x = p THEN win[h].hWndSibling ELSE win[x].hWndChild
  <2>1. CASE k = 1
    <3>1. U = WithChild(win, p, win[h].hWndSibling)
      BY <1>7, <2>1
    <3>2. /\ U \in Wins /\ Kin(win, U) /\ SameSiblings(win, U) /\ SameLast(win, U) /\ SameGroups(win, U)
          /\ \A x \in Window : U[x].hWndChild = IF x = p THEN win[h].hWndSibling ELSE win[x].hWndChild
      BY <1>5, <1>6, <3>1, SetChild
    <3> HIDE DEF s
    <3> QED
      BY <2>1, <3>2 DEF SameSiblings
  <2>2. CASE k # 1
    <3>1. U = WithSibling(win, s[k - 1], win[h].hWndSibling) /\ k > 1
      BY <1>1, <1>7, <2>2
    <3>2. s[k - 1] \in Window
      BY <1>4, <1>5, <3>1
    <3>3. /\ U \in Wins /\ Kin(win, U) /\ SameChildren(win, U) /\ SameLast(win, U) /\ SameGroups(win, U)
          /\ \A x \in Window : U[x].hWndSibling = IF x = s[k - 1] THEN win[h].hWndSibling ELSE win[x].hWndSibling
      BY <1>5, <1>6, <3>1, <3>2, SetSibling
    <3> HIDE DEF s
    <3> QED
      BY <2>2, <3>1, <3>3 DEF SameChildren
  <2> QED
    BY <2>1, <2>2
<1>9. CanFindPrev(h)
  <2>1. IsWindow(p)
    BY DEF Now, IsWin, IsWindow, Alive
  <2>2. Children(p) = s
    BY ChildrenAre
  <2>3. s # <<>>
    BY <1>1
  <2> QED
    BY <1>2, <2>1, <2>2, <2>3 DEF CanFindPrev
<1>10. TakenOut(win, U, P, M, p, C[p], k) /\ Lists(CutAt(C, p, k), U, P, M \ {h})
  <2>1. Lists(C, win, P, M) /\ M \subseteq Win
    BY DEF Now
  <2>2. \A x \in M : ParentIn(U, x) = ParentIn(win, x)
    BY <1>5, <1>8, <2>1 DEF Kin, ParentIn
  <2>3. \A x \in Win : x # h => U[x].hWndSibling =
            IF k > 1 /\ x = C[p][k - 1] THEN win[h].hWndSibling ELSE win[x].hWndSibling
    BY <1>5, <1>8
  <2>4. \A q \in P : U[q].hWndChild = IF k = 1 /\ q = p THEN win[h].hWndSibling ELSE win[q].hWndChild
    BY <1>8 DEF Now
  <2>5. TakenOut(win, U, P, M, p, C[p], k)
    BY <2>2, <2>3, <2>4 DEF TakenOut
  <2> QED
    BY <2>1, <2>5, ListsCut
<1>11. LinkedPast(win, U, p, C[p], k)
  BY <1>8 DEF LinkedPast
<1> QED
  BY <1>8, <1>9, <1>10, <1>11 DEF U

\* The groups, for the links of an intermediate state.
LEMMA GroupsCut ==
    ASSUME NEW W, NEW W2, NEW P, NEW M, Groups(W, P, M), NEW h \in M, NEW p \in P,
           p = ParentIn(W, h), \A x \in M : ParentIn(W2, x) = ParentIn(W, x),
           NEW g \in Members(W, M, p), W[g].hWndGroup = h,
           \A x \in M : W2[x].hWndGroup = IF x = g /\ g # h THEN W[h].hWndGroup ELSE W[x].hWndGroup,
           \A q \in P : W2[q].hWndLastChild =
               IF q = p /\ W[p].hWndLastChild = h THEN (IF g = h THEN Null ELSE g) ELSE W[q].hWndLastChild
    PROVE  Groups(W2, P, M \ {h})
<1>1. \A q \in P : Members(W2, M \ {h}, q) = Members(W, M, q) \ {h}
  BY DEF Members
<1>2. h \in Members(W, M, p)
  BY DEF Members
<1>3. ASSUME NEW q \in P
      PROVE  /\ W2[q].hWndLastChild \in {Null} \cup (Members(W, M, q) \ {h})
             /\ Rings(Members(W, M, q) \ {h}, W2)
  <2>1. W[q].hWndLastChild \in {Null} \cup Members(W, M, q) /\ Rings(Members(W, M, q), W)
    BY DEF Groups
  <2>2. CASE q = p
    <3>1. W2[q].hWndLastChild \in {Null} \cup (Members(W, M, q) \ {h})
      BY <2>1, <2>2
    <3>2. \A x \in Members(W, M, p) \ {h} : W2[x].hWndGroup = IF x = g THEN W[h].hWndGroup ELSE W[x].hWndGroup
      BY DEF Members
    <3>3. Rings(Members(W, M, p) \ {h}, W2)
      BY <1>2, <2>1, <2>2, <3>2, RingsCut
    <3> QED
      BY <2>2, <3>1, <3>3
  <2>3. CASE q # p
    <3>1. h \notin Members(W, M, q) /\ g \notin Members(W, M, q)
      BY <2>3 DEF Members
    <3>2. Members(W, M, q) \ {h} = Members(W, M, q)
      BY <3>1
    <3>3. \A x \in Members(W, M, q) : W2[x].hWndGroup = W[x].hWndGroup
      BY <3>1 DEF Members
    <3>4. Rings(Members(W, M, q), W2)
      BY <2>1, <3>3, RingsSame
    <3> QED
      BY <2>1, <2>3, <3>2, <3>4
  <2> QED
    BY <2>2, <2>3
<1> QED
  BY <1>1, <1>3 DEF Groups

\* Who is before h in its group.
LEMMA PrevGroupIs ==
    ASSUME NEW C, NEW P, NEW M, Now(C, P, M), Groups(win, P, M), NEW h \in M, NEW p \in P,
           p = ParentIn(win, h)
    PROVE  /\ InRing(h) /\ IsWindow(PrevGroup(h))
           /\ PrevGroup(h) \in Members(win, M, p) /\ win[PrevGroup(h)].hWndGroup = h
<1> DEFINE S == Members(win, M, p)
           ring == Along(GroupLink(obj, win), h)
<1>1. h \in S /\ S \subseteq M /\ S \subseteq Win
  BY DEF Members, Now
<1>2. Rings(S, win)
  BY DEF Groups
<1>3. \A x \in S : obj[x] \in Alive
  BY <1>1, Handles DEF Now, IsWin
<1>4. win \in Wins
  BY DEF Now
<1>5. /\ \E n \in 1 .. MaxWindows : ring[n] = h
      /\ ring[RingBack(ring, h) - 1] \in S
      /\ win[ring[RingBack(ring, h) - 1]].hWndGroup = h
  <2> HIDE DEF S
  <2> QED
    BY <1>1, <1>2, <1>3, <1>4, RingComesBack DEF Wins
<1>6. Ring(h) = ring
  BY DEF Ring, GroupLink, IsWin, IsWindow, Alive
<1>7. InRing(h)
  BY <1>5, <1>6 DEF InRing
<1>8. PrevGroup(h) = ring[RingBack(ring, h) - 1]
  BY <1>6 DEF PrevGroup, RingBack
<1>9. PrevGroup(h) \in S /\ win[PrevGroup(h)].hWndGroup = h
  BY <1>5, <1>8
<1>10. IsWindow(PrevGroup(h))
  BY <1>1, <1>3, <1>9 DEF IsWindow, Alive
<1> QED
  BY <1>7, <1>9, <1>10

\* Only the list of p, and the links of its members, have changed.
Touches(W, R, T, p) ==
    /\ \A x \in Win : x \notin Members(W, T, p) => R[x].hWndSibling = W[x].hWndSibling
    /\ \A x \in Window : x # p => /\ R[x].hWndChild = W[x].hWndChild
                                 /\ R[x].hWndLastChild = W[x].hWndLastChild

\* What RemoveFromList does to the links.
IsRemoved(C, P, M, p, k, h, R) ==
    /\ CanRemove(h)
    /\ R \in Wins /\ Kin(win, R) /\ Groups(R, P, M \ {h})
    /\ Lists(CutAt(C, p, k), R, P, M \ {h})
    /\ Touches(win, R, M, p)
    /\ \A x \in Win : x \notin Members(win, M, p) => R[x].hWndGroup = win[x].hWndGroup

\* RemoveFromList takes one window out of one list, and its ring closes behind it.
LEMMA Removing ==
    ASSUME NEW C, NEW P, NEW M, Now(C, P, M), Groups(win, P, M), NEW h \in M, NEW p \in P,
           p = ParentIn(win, h), NEW k \in DOMAIN C[p], C[p][k] = h
    PROVE  IsRemoved(C, P, M, p, k, h, RemoveFromList(h))
<1> DEFINE U == Unlinked(h)
           g == PrevGroup(h)
           D == CutAt(C, p, k)
           R == RemoveFromList(h)
           next == IF g = h THEN U[g].hWndGroup ELSE win[h].hWndGroup
           last == IF g = h THEN Null ELSE g
           out == WithGroup(U, g, next)
<1>0. /\ CanFindPrev(h)
      /\ U \in Wins /\ Kin(win, U) /\ SameLast(win, U) /\ SameGroups(win, U)
      /\ LinkedPast(win, U, p, C[p], k)
      /\ Lists(D, U, P, M \ {h})
  BY Unlinking
<1>1. /\ CanFindPrev(h)
      /\ U \in Wins /\ Kin(win, U) /\ SameLast(win, U) /\ SameGroups(win, U)
      /\ \A x \in Window : U[x].hWndSibling =
            IF k > 1 /\ x = C[p][k - 1] THEN win[h].hWndSibling ELSE win[x].hWndSibling
      /\ \A x \in Window : U[x].hWndChild =
            IF k = 1 /\ x = p THEN win[h].hWndSibling ELSE win[x].hWndChild
      /\ Lists(D, U, P, M \ {h})
  BY <1>0 DEF LinkedPast
<1>2. /\ InRing(h) /\ IsWindow(g)
      /\ g \in Members(win, M, p) /\ win[g].hWndGroup = h
  BY PrevGroupIs
<1>3. ListParent(h) = p
  BY DEF ListParent, ParentIn
<1>4. M \subseteq Win /\ P \subseteq Window /\ Win \subseteq Window /\ g \in M /\ win \in Wins
  BY <1>2 DEF Now, Window, Members
<1>5. h \in Window /\ g \in Window /\ p \in Window /\ win[h].hWndGroup \in HWND /\ g \in HWND /\ Null \in HWND
      /\ U[g].hWndGroup \in HWND
  BY <1>1, <1>4, Handles DEF Wins, WinRec
<1>6. k > 1 => C[p][k - 1] \in Members(win, M, p)
  <2>1. /\ DOMAIN C[p] = 1 .. Len(C[p]) /\ Len(C[p]) \in Nat
        /\ \A i \in DOMAIN C[p] : C[p][i] \in Members(win, M, p)
    BY PlaceOf
  <2>2. k > 1 => k - 1 \in DOMAIN C[p]
    BY <2>1
  <2> QED
    BY <2>1, <2>2
<1>7. out = [U EXCEPT ![g].hWndGroup = IF g = h THEN @ ELSE win[h].hWndGroup]
  BY DEF WithGroup
<1>8. /\ out \in Wins /\ Kin(U, out) /\ SameSiblings(U, out) /\ SameChildren(U, out) /\ SameLast(U, out)
      /\ \A x \in Window : out[x].hWndGroup = IF x = g THEN next ELSE U[x].hWndGroup
  <2>1. next \in HWND
    BY <1>5
  <2> HIDE DEF U, g, next
  <2> QED
    BY <1>1, <1>5, <2>1, SetGroup
<1>9. R = IF win[p].hWndLastChild # h THEN out
          ELSE WithLast(out, p, last)
  BY <1>3, <1>7 DEF RemoveFromList, WithLast
<1> HIDE DEF U, g, out, D, R, last
<1>10. /\ R \in Wins /\ Kin(out, R) /\ SameSiblings(out, R) /\ SameChildren(out, R) /\ SameGroups(out, R)
       /\ \A x \in Window : R[x].hWndLastChild =
             IF x = p /\ win[p].hWndLastChild = h THEN last ELSE out[x].hWndLastChild
  <2>1. CASE win[p].hWndLastChild # h
    BY <1>8, <1>9, <2>1 DEF Kin, SameSiblings, SameChildren, SameGroups
  <2>2. CASE win[p].hWndLastChild = h
    <3>1. R = WithLast(out, p, last)
      BY <1>9, <2>2
    <3>2. last \in HWND
      BY <1>5 DEF last
    <3>3. /\ R \in Wins /\ Kin(out, R) /\ SameSiblings(out, R) /\ SameChildren(out, R) /\ SameGroups(out, R)
          /\ \A x \in Window : R[x].hWndLastChild = IF x = p THEN last ELSE out[x].hWndLastChild
      <4>1. out \in Wins /\ p \in Window
        BY <1>5, <1>8
      <4> QED
        BY <3>1, <3>2, <4>1, SetLast
    <3> QED
      BY <2>2, <3>3
  <2> QED
    BY <2>1, <2>2
<1>11. Kin(win, R) /\ SameSiblings(U, R) /\ SameChildren(U, R)
  BY <1>1, <1>8, <1>10 DEF Kin, SameSiblings, SameChildren
<1>12. \A x \in Window : R[x].hWndGroup = IF x = g /\ g # h THEN win[h].hWndGroup ELSE win[x].hWndGroup
  BY <1>1, <1>8, <1>10 DEF SameGroups
<1>13. \A x \in Window : R[x].hWndLastChild =
          IF x = p /\ win[p].hWndLastChild = h THEN (IF g = h THEN Null ELSE g) ELSE win[x].hWndLastChild
  BY <1>1, <1>8, <1>10 DEF SameLast, last
<1>14. Groups(R, P, M \ {h})
  <2>1. \A x \in M : ParentIn(R, x) = ParentIn(win, x)
    BY <1>4, <1>11 DEF Kin, ParentIn
  <2>2. \A x \in M : R[x].hWndGroup = IF x = g /\ g # h THEN win[h].hWndGroup ELSE win[x].hWndGroup
    BY <1>4, <1>12
  <2>3. \A q \in P : R[q].hWndLastChild =
           IF q = p /\ win[p].hWndLastChild = h THEN (IF g = h THEN Null ELSE g) ELSE win[q].hWndLastChild
    BY <1>4, <1>13
  <2> QED
    BY <1>2, <2>1, <2>2, <2>3, GroupsCut
<1>15. Lists(D, R, P, M \ {h})
  <2>1. Lists(D, U, P, M \ {h})
    BY <1>1
  <2>2. D \in [P -> Seq(Win)] /\ \A q \in P : Chain(D[q], U, U[q].hWndChild) /\ Elements(D[q]) = Members(U, M \ {h}, q)
    BY <2>1 DEF Lists
  <2>3. \A q \in P : R[q].hWndChild = U[q].hWndChild
    BY <1>4, <1>11 DEF SameChildren
  <2>4. \A q \in P : Members(R, M \ {h}, q) = Members(U, M \ {h}, q)
    BY <1>1, <1>4, <1>11 DEF Members, ParentIn, Kin
  <2>5. ASSUME NEW q \in P PROVE Chain(D[q], R, U[q].hWndChild)
    <3>1. \A x \in Elements(D[q]) : R[x].hWndSibling = U[x].hWndSibling
      BY <1>4, <1>11, <2>2 DEF SameSiblings, Members
    <3> QED
      BY <2>2, <3>1, SameChain
  <2> QED
    BY <2>2, <2>3, <2>4, <2>5 DEF Lists
<1>16. CanRemove(h)
  BY <1>1, <1>2 DEF CanRemove, g
<1>17. \A x \in Win : x \notin Members(win, M, p) => /\ R[x].hWndSibling = win[x].hWndSibling
                                                  /\ R[x].hWndGroup = win[x].hWndGroup
  BY <1>1, <1>2, <1>4, <1>6, <1>11, <1>12 DEF SameSiblings
<1>18. \A x \in Window : x # p => /\ R[x].hWndChild = win[x].hWndChild
                                  /\ R[x].hWndLastChild = win[x].hWndLastChild
  BY <1>1, <1>11, <1>13 DEF SameChildren
<1>19. Touches(win, R, M, p)
  BY <1>17, <1>18 DEF Touches
<1>20. R \in Wins /\ Kin(win, R) /\ Groups(R, P, M \ {h}) /\ Lists(D, R, P, M \ {h})
  BY <1>10, <1>11, <1>14, <1>15
<1>21. IsRemoved(C, P, M, p, k, h, R)
  BY <1>16, <1>17, <1>19, <1>20 DEF IsRemoved, D
<1> QED
  BY <1>21 DEF R

----------------------------------------------------------------------------
(* Another place in the same list *)

AfterIn(U, h, a) == WithSibling(WithSibling(U, h, U[a].hWndSibling), a, h)
FirstIn(U, h, p) == WithChild(WithSibling(U, h, U[p].hWndChild), p, h)

\* R is win, with other links in the list of p only, and the lists are D.
Relinked(D, R, P, M, p) ==
    /\ R \in Wins /\ Kin(win, R) /\ SameLast(win, R) /\ SameGroups(win, R)
    /\ Lists(D, R, P, M)
    /\ \A x \in Win : x \notin Members(win, M, p) => R[x].hWndSibling = win[x].hWndSibling
    /\ \A x \in Window : x # p => R[x].hWndChild = win[x].hWndChild

Replaced(C, p, k, j, h) == PutAt(CutAt(C, p, k), p, j, h)
Returns(W, R, P, M, p, s, j, h) ==
    /\ Kin(W, R) /\ SameLast(W, R) /\ SameGroups(W, R)
    /\ PutIn(W, R, P, M, p, s, j, h)
    /\ \A x \in Window : x # p => R[x].hWndChild = W[x].hWndChild

\* h, which is out of the list, comes back into it.
LEMMA PuttingBack ==
    ASSUME NEW C, NEW P, NEW M, Now(C, P, M), NEW h \in M, NEW p \in P, p = ParentIn(win, h),
           NEW k \in DOMAIN C[p], C[p][k] = h, NEW j \in 1 .. Len(C[p]), NEW R \in Wins,
           Returns(Unlinked(h), R, P, M \ {h}, p, Cut(C[p], k), j, h)
    PROVE  Relinked(Replaced(C, p, k, j, h), R, P, M, p)
<1> DEFINE U == Unlinked(h)
           s == C[p]
           D == CutAt(C, p, k)
<1>0. /\ U \in Wins /\ Kin(win, U) /\ SameLast(win, U) /\ SameGroups(win, U)
      /\ LinkedPast(win, U, p, C[p], k)
      /\ Lists(D, U, P, M \ {h})
  BY Unlinking
<1>1. /\ U \in Wins /\ Kin(win, U) /\ SameLast(win, U) /\ SameGroups(win, U)
      /\ \A x \in Window : U[x].hWndSibling =
            IF k > 1 /\ x = C[p][k - 1] THEN win[h].hWndSibling ELSE win[x].hWndSibling
      /\ \A x \in Window : U[x].hWndChild =
            IF k = 1 /\ x = p THEN win[h].hWndSibling ELSE win[x].hWndChild
      /\ Lists(D, U, P, M \ {h})
  BY <1>0 DEF LinkedPast
<1>2. /\ DOMAIN s = 1 .. Len(s) /\ Len(s) \in Nat
      /\ \A i \in DOMAIN s : s[i] \in Members(win, M, p) /\ s[i] \in Win /\ s[i] # p
  BY PlaceOf
<1>3. s \in Seq(Win) /\ IsInjective(s) /\ C \in [P -> Seq(Win)]
  BY ChildrenAre DEF Now, Lists
<1>4. M \subseteq Win /\ h \in Win /\ Win \subseteq Window
  BY DEF Now, Window
<1>5. D[p] = Cut(s, k) /\ Len(D[p]) = Len(s) - 1
  BY <1>3, CutSeq DEF CutAt
<1>6. j \in 1 .. Len(D[p]) + 1
  <2>1. Len(D[p]) + 1 = Len(s)
    BY <1>2, <1>5
  <2> QED
    BY <2>1
<1>7. PutIn(U, R, P, M \ {h}, p, D[p], j, h)
  BY <1>5 DEF Returns
<1> HIDE DEF U, D
<1>8. Lists(PutAt(D, p, j, h), R, P, (M \ {h}) \cup {h})
  <2>1. M \ {h} \subseteq Win /\ h \notin M \ {h}
    BY <1>4
  <2> QED
    BY <1>1, <1>4, <1>6, <1>7, <2>1, ListsPut
<1>9. (M \ {h}) \cup {h} = M
  OBVIOUS
<1>10. Kin(win, R) /\ SameLast(win, R) /\ SameGroups(win, R)
  BY <1>1 DEF Kin, SameLast, SameGroups, U, Returns
<1>11. ASSUME NEW x \in Win, x \notin Members(win, M, p) PROVE R[x].hWndSibling = win[x].hWndSibling
  <2>1. x # h /\ x \in Window
    BY <1>4, <1>11 DEF Members
  <2>2. \A i \in DOMAIN s : x # s[i]
    BY <1>2, <1>11
  <2>3. k > 1 => x # s[k - 1]
    <3>1. k > 1 => k - 1 \in DOMAIN s
      BY <1>2
    <3> QED
      BY <2>2, <3>1
  <2>4. U[x].hWndSibling = win[x].hWndSibling
    BY <1>1, <2>1, <2>3
  <2>5. j > 1 => x # Cut(s, k)[j - 1]
    <3>1. \A i \in DOMAIN Cut(s, k) : Cut(s, k)[i] \in Elements(s)
      <4>1. Elements(Cut(s, k)) \subseteq Elements(s)
        BY <1>3, CutSeq
      <4>2. \A i \in DOMAIN Cut(s, k) : Cut(s, k)[i] \in Elements(Cut(s, k))
        BY DEF Elements
      <4> QED
        BY <4>1, <4>2
    <3>2. DOMAIN Cut(s, k) = 1 .. Len(s) - 1
      BY <1>3, CutSeq
    <3>3. j > 1 => j - 1 \in 1 .. Len(s) - 1
      BY <1>2
    <3>4. x \notin Elements(s)
      BY <2>2 DEF Elements
    <3> QED
      BY <3>1, <3>2, <3>3, <3>4
  <2>6. \A y \in Win : y # h => R[y].hWndSibling =
           IF j > 1 /\ y = Cut(s, k)[j - 1] THEN h ELSE U[y].hWndSibling
    BY <1>5, <1>7 DEF PutIn
  <2> QED
    BY <2>1, <2>4, <2>5, <2>6
<1>12. ASSUME NEW x \in Window, x # p PROVE R[x].hWndChild = win[x].hWndChild
  BY <1>1, <1>12 DEF U, Returns
<1> QED
  BY <1>8, <1>9, <1>10, <1>11, <1>12 DEF Relinked, Replaced, D

\* A window is put first in a list, or after another one.
LEMMA PuttingFirst ==
    ASSUME NEW C, NEW P, NEW M, Now(C, P, M), NEW h \in M, NEW p \in P, p = ParentIn(win, h),
           NEW k \in DOMAIN C[p], C[p][k] = h
    PROVE  Relinked(Replaced(C, p, k, 1, h), FirstIn(Unlinked(h), h, p), P, M, p)
<1> DEFINE U == Unlinked(h)
           first == U[p].hWndChild
           V == WithSibling(U, h, first)
           R == WithChild(V, p, h)
<1>1. U \in Wins /\ Kin(win, U)
  BY Unlinking
<1>2. /\ h \in Window /\ p \in Window /\ h \in HWND /\ M \subseteq Win /\ h \in Win /\ P \subseteq Window
      /\ Win \subseteq Window
  BY Handles DEF Now, Window
<1>3. first \in HWND
  BY <1>1, <1>2 DEF Wins, WinRec
<1> HIDE DEF U, first
<1>4. /\ V \in Wins /\ Kin(U, V) /\ SameChildren(U, V) /\ SameLast(U, V) /\ SameGroups(U, V)
      /\ \A x \in Window : V[x].hWndSibling = IF x = h THEN first ELSE U[x].hWndSibling
  BY <1>1, <1>2, <1>3, SetSibling
<1> HIDE DEF V
<1>5. /\ R \in Wins /\ Kin(V, R) /\ SameSiblings(V, R) /\ SameLast(V, R) /\ SameGroups(V, R)
      /\ \A x \in Window : R[x].hWndChild = IF x = p THEN h ELSE V[x].hWndChild
  BY <1>2, <1>4, SetChild
<1> HIDE DEF R
<1>6. Kin(U, R) /\ SameLast(U, R) /\ SameGroups(U, R)
  BY <1>4, <1>5 DEF Kin, SameLast, SameGroups
<1>7. \A x \in Window : R[x].hWndSibling = IF x = h THEN first ELSE U[x].hWndSibling
  BY <1>4, <1>5 DEF SameSiblings
<1>8. \A x \in Window : R[x].hWndChild = IF x = p THEN h ELSE U[x].hWndChild
  BY <1>4, <1>5 DEF SameChildren
<1>9. PutIn(U, R, P, M \ {h}, p, Cut(C[p], k), 1, h)
  <2>1. \A x \in M : ParentIn(R, x) = ParentIn(U, x)
    BY <1>2, <1>6 DEF ParentIn, Kin
  <2>2. ParentIn(R, h) = p
    BY <1>1, <1>2, <1>6 DEF ParentIn, Kin
  <2>3. \A x \in Win : x # h => R[x].hWndSibling = U[x].hWndSibling
    BY <1>2, <1>7
  <2>4. R[h].hWndSibling = U[p].hWndChild
    BY <1>2, <1>7 DEF first
  <2>5. \A q \in P : R[q].hWndChild = IF q = p THEN h ELSE U[q].hWndChild
    BY <1>2, <1>8
  <2> QED
    BY <2>1, <2>2, <2>3, <2>4, <2>5 DEF PutIn
<1>10. 1 \in 1 .. Len(C[p])
  BY PlaceOf
<1>11. Returns(U, R, P, M \ {h}, p, Cut(C[p], k), 1, h)
  BY <1>6, <1>8, <1>9 DEF Returns
<1>12. Relinked(Replaced(C, p, k, 1, h), R, P, M, p)
  BY <1>5, <1>10, <1>11, PuttingBack DEF U
<1> QED
  BY <1>12 DEF R, V, U, first, FirstIn

LEMMA PuttingAfter ==
    ASSUME NEW C, NEW P, NEW M, Now(C, P, M), NEW h \in M, NEW p \in P, p = ParentIn(win, h),
           NEW k \in DOMAIN C[p], C[p][k] = h, NEW i \in DOMAIN C[p], i # k
    PROVE  \E j \in DOMAIN C[p] :
               Relinked(Replaced(C, p, k, j, h), AfterIn(Unlinked(h), h, C[p][i]), P, M, p)
<1> DEFINE U == Unlinked(h)
           s == C[p]
           a == s[i]
           j == IF i < k THEN i + 1 ELSE i
           V == WithSibling(U, h, U[a].hWndSibling)
           R == WithSibling(V, a, h)
<1>1. U \in Wins /\ Kin(win, U)
  BY Unlinking
<1>2. /\ h \in Window /\ p \in Window /\ h \in HWND /\ M \subseteq Win /\ h \in Win /\ P \subseteq Window
      /\ Win \subseteq Window
  BY Handles DEF Now, Window
<1>3. /\ DOMAIN s = 1 .. Len(s) /\ Len(s) \in Nat
      /\ \A n \in DOMAIN s : s[n] \in Win
  BY PlaceOf
<1>4. s \in Seq(Win) /\ IsInjective(s)
  BY ChildrenAre
<1>5. a \in Win /\ a # h /\ a \in Window
  BY <1>2, <1>3, <1>4 DEF IsInjective
<1>6. j \in DOMAIN s /\ j > 1 /\ j - 1 \in 1 .. Len(s) - 1 /\ Cut(s, k)[j - 1] = a
  <2>1. j \in DOMAIN s /\ j > 1 /\ j - 1 \in 1 .. Len(s) - 1
    BY <1>3
  <2>2. Cut(s, k)[j - 1] = IF j - 1 < k THEN s[j - 1] ELSE s[(j - 1) + 1]
    BY <2>1 DEF Cut
  <2>3. CASE i < k
    BY <1>3, <2>2, <2>3
  <2>4. CASE ~(i < k)
    BY <1>3, <2>2, <2>4
  <2> QED
    BY <2>1, <2>3, <2>4
<1>7. U[a].hWndSibling \in HWND
  BY <1>1, <1>5 DEF Wins, WinRec
<1> HIDE DEF U, a, j
<1>8. /\ V \in Wins /\ Kin(U, V) /\ SameChildren(U, V) /\ SameLast(U, V) /\ SameGroups(U, V)
      /\ \A x \in Window : V[x].hWndSibling = IF x = h THEN U[a].hWndSibling ELSE U[x].hWndSibling
  BY <1>1, <1>2, <1>7, SetSibling
<1> HIDE DEF V
<1>9. /\ R \in Wins /\ Kin(V, R) /\ SameChildren(V, R) /\ SameLast(V, R) /\ SameGroups(V, R)
      /\ \A x \in Window : R[x].hWndSibling = IF x = a THEN h ELSE V[x].hWndSibling
  BY <1>2, <1>5, <1>8, SetSibling
<1> HIDE DEF R
<1>10. Kin(U, R) /\ SameLast(U, R) /\ SameGroups(U, R) /\ SameChildren(U, R)
  BY <1>8, <1>9 DEF Kin, SameLast, SameGroups, SameChildren
<1>11. \A x \in Window : R[x].hWndSibling =
          IF x = h THEN U[a].hWndSibling ELSE IF x = a THEN h ELSE U[x].hWndSibling
  BY <1>5, <1>8, <1>9
<1>12. PutIn(U, R, P, M \ {h}, p, Cut(s, k), j, h)
  <2>1. \A x \in M : ParentIn(R, x) = ParentIn(U, x)
    BY <1>2, <1>10 DEF ParentIn, Kin
  <2>2. ParentIn(R, h) = p
    BY <1>1, <1>2, <1>10 DEF ParentIn, Kin
  <2>3. \A x \in Win : x # h => R[x].hWndSibling = IF x = a THEN h ELSE U[x].hWndSibling
    BY <1>2, <1>11
  <2>4. R[h].hWndSibling = U[a].hWndSibling
    BY <1>2, <1>11
  <2>5. \A q \in P : R[q].hWndChild = U[q].hWndChild
    BY <1>2, <1>10 DEF SameChildren
  <2>6. j > 1 /\ j # 1
    BY <1>3, <1>6
  <2> QED
    BY <1>6, <2>1, <2>2, <2>3, <2>4, <2>5, <2>6 DEF PutIn
<1>13. j \in 1 .. Len(s)
  BY <1>3, <1>6
<1>14. Returns(U, R, P, M \ {h}, p, Cut(s, k), j, h)
  BY <1>10, <1>12 DEF SameChildren, Returns
<1>15. Relinked(Replaced(C, p, k, j, h), R, P, M, p)
  BY <1>9, <1>13, <1>14, PuttingBack DEF U
<1>16. R = AfterIn(Unlinked(h), h, C[p][i])
  BY DEF R, V, U, a, AfterIn
<1> QED
  BY <1>6, <1>15, <1>16

\* The window Above finds is one of the same list.
LEMMA AboveIs ==
    ASSUME NEW C, NEW P, NEW M, Now(C, P, M), NEW h \in M, NEW p \in P, p = ParentIn(win, h)
    PROVE  \E i \in DOMAIN C[p] : Above(h) = C[p][i]
<1> DEFINE s == C[p]
           stops == {i \in DOMAIN s : win[h].kind = "child" \/ ~OwnPopup(h, s[i])}
<1>1. s = Children(ListParent(h))
  BY ChildrenAre DEF ListParent, ParentIn
<1>2. DOMAIN s = 1 .. Len(s) /\ Len(s) \in Nat /\ DOMAIN s # {}
  BY PlaceOf
<1>3. Above(h) = IF stops = {} THEN Last(s) ELSE s[CHOOSE i \in stops : \A j \in stops : i <= j]
  BY <1>1 DEF Above
<1>4. stops \subseteq DOMAIN s /\ stops \subseteq Nat
  BY <1>2
<1> HIDE DEF stops
<1>5. CASE stops = {}
  <2>1. Last(s) = s[Len(s)] /\ Len(s) \in DOMAIN s
    BY <1>2 DEF Last
  <2> QED
    BY <1>3, <1>5, <2>1
<1>6. CASE stops # {}
  <2>1. PICK i \in stops : \A j \in stops : i <= j
    BY <1>4, <1>6, Smallest
  <2>2. (CHOOSE n \in stops : \A j \in stops : n <= j) \in stops
    BY <2>1
  <2> QED
    BY <1>3, <1>4, <1>6, <2>2
<1> QED
  BY <1>5, <1>6

\* What ChangeZOrder does to the links.
LEMMA Reordering ==
    ASSUME NEW C, NEW P, NEW M, Now(C, P, M), NEW h \in M, NEW p \in P, p = ParentIn(win, h),
           NEW k \in DOMAIN C[p], C[p][k] = h,
           NEW after \in {Null, Root} \cup Members(win, M, p)
    PROVE  \/ ChangeZOrder(h, after) = win
           \/ \E j \in DOMAIN C[p] :
                 Relinked(Replaced(C, p, k, j, h), ChangeZOrder(h, after), P, M, p)
<1> DEFINE U == Unlinked(h)
           s == C[p]
           Placed(R) == R = win \/ \E j \in DOMAIN s : Relinked(Replaced(C, p, k, j, h), R, P, M, p)
<1>1. ListParent(h) = p
  BY DEF ListParent, ParentIn
<1>2. /\ Children(p) = s /\ s \in Seq(Win) /\ IsInjective(s) /\ Chain(s, win, win[p].hWndChild)
      /\ Elements(s) = Members(win, M, p)
  BY ChildrenAre
<1>3. /\ DOMAIN s = 1 .. Len(s) /\ Len(s) \in Nat /\ 1 \in DOMAIN s /\ Len(s) \in DOMAIN s
      /\ \A i \in DOMAIN s : s[i] \in Win
  BY PlaceOf
<1>4. \A i \in DOMAIN s : s[i] # h => Placed(AfterIn(U, h, s[i]))
  <2> SUFFICES ASSUME NEW i \in DOMAIN s, s[i] # h PROVE Placed(AfterIn(U, h, s[i]))
    OBVIOUS
  <2>1. i # k
    OBVIOUS
  <2> QED
    BY <2>1, PuttingAfter
<1>5. Placed(FirstIn(U, h, p))
  <2>1. Relinked(Replaced(C, p, k, 1, h), FirstIn(U, h, p), P, M, p)
    BY PuttingFirst
  <2> QED
    BY <1>3, <2>1
<1>6. Placed(win)
  OBVIOUS
<1> HIDE DEF Placed
<1>7. CASE after = Null
  <2>1. PICK i \in DOMAIN s : Above(h) = s[i]
    BY AboveIs
  <2>2. ChangeZOrder(h, after) = OrderTop(h)
    BY <1>7, Handles DEF ChangeZOrder, HWND_TOP, HWND_BOTTOM
  <2>3. CASE h \in {win[p].hWndChild, Above(h)}
    BY <1>1, <1>6, <2>2, <2>3 DEF OrderTop
  <2>4. CASE h \notin {win[p].hWndChild, Above(h)} /\ Above(h) # win[p].hWndChild /\ win[Above(h)].visible
    <3>1. OrderTop(h) = AfterIn(U, h, Above(h))
      BY <1>1, <2>4 DEF OrderTop, AfterIn, WithSibling
    <3> QED
      BY <1>4, <2>1, <2>2, <2>4, <3>1 DEF Placed
  <2>5. CASE h \notin {win[p].hWndChild, Above(h)} /\ ~(Above(h) # win[p].hWndChild /\ win[Above(h)].visible)
    <3>1. OrderTop(h) = [U EXCEPT ![h].hWndSibling = win[p].hWndChild, ![p].hWndChild = h]
      BY <1>1, <2>5 DEF OrderTop
    <3>2. k # 1
      BY <1>2, <1>3, <2>5 DEF Chain
    <3>3. U[p].hWndChild = win[p].hWndChild
      <4>1. LinkedPast(win, U, p, s, k)
        BY Unlinking
      <4> QED
        BY <3>2, <4>1 DEF LinkedPast, Now
    <3>4. OrderTop(h) = FirstIn(U, h, p)
      BY <3>1, <3>3 DEF FirstIn, WithChild, WithSibling
    <3> QED
      BY <1>5, <2>2, <3>4 DEF Placed
  <2> QED
    BY <2>3, <2>4, <2>5 DEF Placed
<1>8. CASE after = Root
  <2>1. ChangeZOrder(h, after) = OrderBottom(h)
    BY <1>8, Handles DEF ChangeZOrder, HWND_TOP, HWND_BOTTOM
  <2>2. Last(s) = s[Len(s)]
    BY DEF Last
  <2>3. CASE s[Len(s)] = h
    <3>1. OrderBottom(h) = win
      BY <1>1, <1>2, <2>2, <2>3 DEF OrderBottom
    <3> QED
      BY <1>6, <2>1, <3>1 DEF Placed
  <2>4. CASE s[Len(s)] # h
    <3> DEFINE a == s[Len(s)]
    <3>1. OrderBottom(h) = [U EXCEPT ![a].hWndSibling = h, ![h].hWndSibling = Null]
      BY <1>1, <1>2, <2>2, <2>4 DEF OrderBottom
    <3>2. k # Len(s) /\ a \in Win /\ h \in Win
      BY <1>3, <2>4 DEF Now
    <3>3. U[a].hWndSibling = Null
      <4>1. LinkedPast(win, U, p, s, k)
        BY Unlinking
      <4>2. win[a].hWndSibling = Null
        BY <1>2, <1>3 DEF Chain
      <4>3. ~(k > 1 /\ a = s[k - 1])
        <5>1. k > 1 => k - 1 \in DOMAIN s /\ k - 1 # Len(s)
          BY <1>3
        <5> QED
          BY <1>2, <1>3, <5>1 DEF IsInjective
      <4> QED
        BY <3>2, <4>1, <4>2, <4>3 DEF LinkedPast, Window
    <3>4. U \in Wins /\ a \in Window /\ h \in Window /\ a # h
      BY <2>4, <3>2, Unlinking DEF Window
    <3>5. OrderBottom(h) = AfterIn(U, h, a)
      <4> HIDE DEF U, a
      <4>1. OrderBottom(h) = [[U EXCEPT ![h].hWndSibling = Null] EXCEPT ![a].hWndSibling = h]
        BY <3>1, <3>4 DEF Wins
      <4> QED
        BY <3>3, <4>1 DEF AfterIn, WithSibling
    <3> QED
      BY <1>3, <1>4, <2>1, <2>4, <3>5 DEF Placed
  <2> QED
    BY <2>3, <2>4
<1>9. CASE after \notin {Null, Root}
  <2>1. ChangeZOrder(h, after) = OrderAfter(h, after)
    BY <1>9 DEF ChangeZOrder, HWND_TOP, HWND_BOTTOM
  <2>2. PICK i \in DOMAIN s : after = s[i]
    BY <1>2, <1>9 DEF Elements
  <2>3. OrderAfter(h, after) \in {win, AfterIn(U, h, after)} /\ (h = after => OrderAfter(h, after) = win)
    BY DEF OrderAfter, AfterIn, WithSibling
  <2> QED
    BY <1>4, <1>6, <2>1, <2>2, <2>3 DEF Placed
<1> QED
  BY <1>7, <1>8, <1>9 DEF Placed

----------------------------------------------------------------------------
(* A new window in the tree *)

Inserted(h) ==
    LET in == InsertAsLastSibling(h, win[h])
    IN IF win[h].kind = "child" THEN [in EXCEPT ![win[h].hWndParent].hWndLastChild = h] ELSE in

\* The lists, with an empty one for h.
Widened(C, P, h) == [q \in P \cup {h} |-> IF q = h THEN <<>> ELSE C[q]]

LEMMA ListsWider ==
    ASSUME NEW W, NEW P, NEW M, NEW C, Lists(C, W, P, M), NEW h, h \notin P,
           W[h].hWndChild = Null, Members(W, M, h) = {}
    PROVE  Lists(Widened(C, P, h), W, P \cup {h}, M)
<1> DEFINE D == Widened(C, P, h)
<1>1. \A q \in P : Chain(C[q], W, W[q].hWndChild) /\ Elements(C[q]) = Members(W, M, q) /\ C[q] \in Seq(Win)
  BY DEF Lists
<1>2. \A q \in P : D[q] = C[q]
  BY DEF Widened
<1>3. D[h] = <<>> /\ <<>> \in Seq(Win) /\ DOMAIN <<>> = {}
  BY DEF Widened
<1>4. D \in [P \cup {h} -> Seq(Win)]
  BY <1>1, <1>3 DEF Widened
<1> HIDE DEF D
<1>5. Chain(<<>>, W, Null) /\ Elements(<<>>) = {}
  <2>1. IsInjective(<<>>)
    BY DEF IsInjective
  <2> QED
    BY <1>3, <2>1 DEF Chain, Elements
<1>6. ASSUME NEW q \in P \cup {h}
      PROVE  Chain(D[q], W, W[q].hWndChild) /\ Elements(D[q]) = Members(W, M, q)
  <2>1. CASE q = h
    BY <1>3, <1>5, <2>1
  <2>2. CASE q # h
    BY <1>1, <1>2, <2>2
  <2> QED
    BY <2>1, <2>2
<1>7. Lists(D, W, P \cup {h}, M)
  BY <1>4, <1>6 DEF Lists
<1> QED
  BY <1>7 DEF D

\* The groups, with h in the list of p.
JoinsGroup(W, W2, P, M, p, h) ==
    \/ /\ W2[h].hWndGroup = h
       /\ \A x \in M : W2[x].hWndGroup = W[x].hWndGroup
    \/ \E g \in Members(W, M, p) :
          /\ W2[h].hWndGroup = W[g].hWndGroup /\ W2[g].hWndGroup = h
          /\ \A x \in M \ {g} : W2[x].hWndGroup = W[x].hWndGroup

LEMMA GroupsPut ==
    ASSUME NEW W, NEW W2, NEW P, NEW M, Groups(W, P, M), NEW h, h \notin M, NEW p \in P,
           \A x \in M : ParentIn(W2, x) = ParentIn(W, x), ParentIn(W2, h) = p,
           JoinsGroup(W, W2, P, M, p, h),
           \A q \in P : W2[q].hWndLastChild = W[q].hWndLastChild \/ (q = p /\ W2[q].hWndLastChild = h)
    PROVE  Groups(W2, P, M \cup {h})
<1>1. \A q \in P : Members(W2, M \cup {h}, q) = IF q = p THEN Members(W, M, q) \cup {h} ELSE Members(W, M, q)
  BY DEF Members
<1>2. ASSUME NEW q \in P
      PROVE  /\ W2[q].hWndLastChild \in {Null} \cup Members(W2, M \cup {h}, q)
             /\ Rings(Members(W2, M \cup {h}, q), W2)
  <2> DEFINE S == Members(W, M, q)
             N == Members(W2, M \cup {h}, q)
  <2>1. W[q].hWndLastChild \in {Null} \cup S /\ Rings(S, W)
    BY DEF Groups
  <2>2. N = IF q = p THEN S \cup {h} ELSE S
    BY <1>1
  <2>3. h \notin S /\ S \subseteq M
    BY DEF Members
  <2>4. CASE q = p
    <3>1. Joins(S, W, W2, h)
      <4>1. CASE W2[h].hWndGroup = h /\ \A x \in M : W2[x].hWndGroup = W[x].hWndGroup
        BY <2>3, <4>1 DEF Joins
      <4>2. CASE \E g \in Members(W, M, p) :
                    /\ W2[h].hWndGroup = W[g].hWndGroup /\ W2[g].hWndGroup = h
                    /\ \A x \in M \ {g} : W2[x].hWndGroup = W[x].hWndGroup
        <5>1. PICK g \in S : /\ W2[h].hWndGroup = W[g].hWndGroup /\ W2[g].hWndGroup = h
                             /\ \A x \in M \ {g} : W2[x].hWndGroup = W[x].hWndGroup
          BY <2>4, <4>2
        <5>2. \A x \in S \ {g} : W2[x].hWndGroup = W[x].hWndGroup
          BY <2>3, <5>1
        <5> QED
          BY <5>1, <5>2 DEF Joins
      <4> QED
        BY <4>1, <4>2 DEF JoinsGroup
    <3> HIDE DEF S, N
    <3>2. Rings(S \cup {h}, W2)
      BY <2>1, <2>3, <3>1, RingsPut
    <3>3. N = S \cup {h}
      BY <2>2, <2>4
    <3>4. W2[q].hWndLastChild \in {Null} \cup N
      BY <2>1, <3>3
    <3> QED
      BY <3>2, <3>3, <3>4 DEF N
  <2>5. CASE q # p
    <3>1. \A x \in S : W2[x].hWndGroup = W[x].hWndGroup
      <4>1. \A g \in Members(W, M, p) : g \notin S
        BY <2>5 DEF Members
      <4> QED
        BY <2>3, <4>1 DEF JoinsGroup
    <3> HIDE DEF S, N
    <3>2. Rings(S, W2)
      BY <2>1, <3>1, RingsSame
    <3>3. N = S
      BY <2>2, <2>5
    <3>4. W2[q].hWndLastChild \in {Null} \cup N
      BY <2>1, <2>5, <3>3
    <3> QED
      BY <3>2, <3>3, <3>4 DEF N
  <2> QED
    BY <2>4, <2>5
<1> QED
  BY <1>2 DEF Groups

LEMMA GroupsWider ==
    ASSUME NEW W, NEW P, NEW M, Groups(W, P, M), NEW h,
           W[h].hWndLastChild = Null, Members(W, M, h) = {}
    PROVE  Groups(W, P \cup {h}, M)
BY DEF Groups, Rings

\* h, which is in no list, comes last in that of p.
Fresh(P, M, h) ==
    /\ h \in Win /\ h \notin M /\ h \notin P
    /\ win[h].hWndSibling = Null /\ win[h].hWndChild = Null /\ win[h].hWndLastChild = Null
    /\ Members(win, M, h) = {}

\* InsertAsLastSibling with the list's owner p at hand.
AsLast(h, p) ==
    LET rec == win[h]
        last == win[p].hWndLastChild
        joins == rec.kind = "child" /\ ~rec.group /\ last # Null
        new == [rec EXCEPT !.hWndGroup = IF joins THEN win[last].hWndGroup ELSE h]
    IN CASE win[p].hWndChild = Null ->
              [win EXCEPT ![h] = [rec EXCEPT !.hWndGroup = h], ![p].hWndChild = h]
         [] win[p].hWndChild # Null /\ Children(p) = <<>> -> [win EXCEPT ![h] = rec]
         [] OTHER ->
              LET linked == [win EXCEPT ![h] = new, ![Last(Children(p))].hWndSibling = h]
              IN IF joins THEN [linked EXCEPT ![last].hWndGroup = h] ELSE linked

IsInserted(C, P, M, p, h, R) ==
    /\ CanInsertLast(h, win[h])
    /\ R \in Wins /\ Kin(win, R)
    /\ Lists(PutAt(Widened(C, P, h), p, Len(C[p]) + 1, h), R, P \cup {h}, M \cup {h})
    /\ Groups(R, P \cup {h}, M \cup {h})
    /\ Touches(win, R, M, p)

\* InsertAsLastSibling puts a new window last in its list.
LEMMA Inserting ==
    ASSUME NEW C, NEW P, NEW M, Now(C, P, M), Groups(win, P, M), NEW h, Fresh(P, M, h),
           NEW p \in P, p = ParentIn(win, h)
    PROVE  IsInserted(C, P, M, p, h, Inserted(h))
<1> DEFINE s == C[p]
           end == s[Len(s)]
           last == win[p].hWndLastChild
           joins == win[h].kind = "child" /\ ~win[h].group /\ last # Null
           g0 == IF joins THEN win[last].hWndGroup ELSE h
           V1 == WithGroup(win, h, g0)
           V2 == IF s = <<>> THEN WithChild(V1, p, h) ELSE WithSibling(V1, end, h)
           V3 == IF joins THEN WithGroup(V2, last, h) ELSE V2
           R == IF win[h].kind = "child" THEN WithLast(V3, p, h) ELSE V3
           S == Members(win, M, p)
<1>1. /\ win \in Wins /\ P \subseteq Window /\ M \subseteq Win /\ Win \subseteq Window /\ IsWin(obj, p)
      /\ h \in Win /\ h \notin M /\ h \notin P /\ h \in HWND /\ h \in Window /\ p \in Window /\ h # p
      /\ win[h].hWndSibling = Null /\ win[h].hWndChild = Null /\ win[h].hWndLastChild = Null
      /\ Members(win, M, h) = {} /\ p \in HWND
  BY Handles DEF Now, Fresh, Window
<1>2. /\ Children(p) = s /\ s \in Seq(Win) /\ IsInjective(s) /\ Chain(s, win, win[p].hWndChild)
      /\ Elements(s) = S
  BY ChildrenAre
<1>3. DOMAIN s = 1 .. Len(s) /\ Len(s) \in Nat /\ (s # <<>> => Len(s) \in DOMAIN s) /\ (s = <<>> <=> Len(s) = 0)
  BY <1>2
<1>4. s # <<>> => end \in S /\ end \in Win /\ end # h /\ win[end].hWndSibling = Null
  BY <1>1, <1>2, <1>3 DEF Elements, Chain, Members
<1>5. s = <<>> => win[p].hWndChild = Null /\ S = {}
  BY <1>2, <1>3 DEF Chain, Elements
<1>6. last \in {Null} \cup S /\ Rings(S, win) /\ S \subseteq M
  BY DEF Groups, Members
<1>7. joins => last \in S /\ last \in Win /\ last # h /\ s # <<>> /\ win[last].hWndGroup \in HWND
  BY <1>1, <1>5, <1>6 DEF Wins, WinRec
<1>8. CanInsertLast(h, win[h])
  <2>1. p = IF win[h].kind = "child" THEN win[h].hWndParent ELSE Root
    BY DEF ParentIn
  <2>2. IsWindow(p)
    BY <1>1 DEF IsWindow, IsWin, Alive
  <2>3. last = Null \/ IsWindow(last)
    BY <1>6 DEF IsWindow, IsWin, Alive, Now
  <2> QED
    BY <2>1, <2>2, <2>3 DEF CanInsertLast
<1>9. R = Inserted(h)
  <2>1. p = IF win[h].kind = "child" THEN win[h].hWndParent ELSE Root
    BY DEF ParentIn
  <2>2. InsertAsLastSibling(h, win[h]) = V3
    <3>1. CASE s = <<>>
      <4>1. win[p].hWndChild = Null /\ ~joins
        BY <1>5, <1>7, <3>1
      <4>2. InsertAsLastSibling(h, win[h]) =
               [win EXCEPT ![h] = [win[h] EXCEPT !.hWndGroup = h], ![p].hWndChild = h]
        BY <2>1, <4>1 DEF InsertAsLastSibling
      <4>3. V3 = WithChild(WithGroup(win, h, h), p, h)
        BY <3>1, <4>1
      <4> QED
        BY <4>2, <4>3 DEF WithChild, WithGroup
    <3>2. CASE s # <<>>
      <4>1. win[p].hWndChild # Null /\ Last(s) = end
        <5>1. s[1] \in Win /\ win[p].hWndChild = s[1]
          BY <1>2, <1>3, <3>2 DEF Chain
        <5> QED
          BY <5>1, Handles DEF Last
      <4>2. InsertAsLastSibling(h, win[h]) =
               LET linked == [win EXCEPT ![h] = [win[h] EXCEPT !.hWndGroup = g0], ![end].hWndSibling = h]
               IN IF joins THEN [linked EXCEPT ![last].hWndGroup = h] ELSE linked
        <5>1. InsertAsLastSibling(h, win[h]) = AsLast(h, p)
          BY <2>1 DEF InsertAsLastSibling, AsLast
        <5>2. Children(p) # <<>> /\ Last(Children(p)) = end
          BY <1>2, <3>2, <4>1
        <5> HIDE DEF s, end
        <5> QED
          BY <4>1, <5>1, <5>2 DEF AsLast
      <4> HIDE DEF s, end, g0, last, joins
      <4> QED
        BY <3>2, <4>2 DEF WithSibling, WithGroup
    <3> QED
      BY <3>1, <3>2
  <2> HIDE DEF V3
  <2> QED
    BY <2>1, <2>2 DEF Inserted, WithLast
<1>10. g0 \in HWND
  BY <1>1, <1>7
<1> HIDE DEF s, end, last, joins, g0, S
<1>11. /\ V1 \in Wins /\ Kin(win, V1) /\ SameSiblings(win, V1) /\ SameChildren(win, V1) /\ SameLast(win, V1)
       /\ \A x \in Window : V1[x].hWndGroup = IF x = h THEN g0 ELSE win[x].hWndGroup
  BY <1>1, <1>10, SetGroup
<1> HIDE DEF V1
<1>12. /\ V2 \in Wins /\ Kin(V1, V2) /\ SameLast(V1, V2) /\ SameGroups(V1, V2)
       /\ \A x \in Window : V2[x].hWndSibling = IF s # <<>> /\ x = end THEN h ELSE V1[x].hWndSibling
       /\ \A x \in Window : V2[x].hWndChild = IF s = <<>> /\ x = p THEN h ELSE V1[x].hWndChild
  <2>1. CASE s = <<>>
    <3>1. /\ V2 \in Wins /\ Kin(V1, V2) /\ SameSiblings(V1, V2) /\ SameLast(V1, V2) /\ SameGroups(V1, V2)
          /\ \A x \in Window : V2[x].hWndChild = IF x = p THEN h ELSE V1[x].hWndChild
      <4>1. V2 = WithChild(V1, p, h)
        BY <2>1
      <4> HIDE DEF V2
      <4>2. V1 \in Wins /\ p \in Window /\ h \in HWND
        BY <1>1, <1>11
      <4> QED
        BY <4>1, <4>2, SetChild
    <3> HIDE DEF V2
    <3> QED
      BY <2>1, <3>1 DEF SameSiblings
  <2>2. CASE s # <<>>
    <3>1. /\ V2 \in Wins /\ Kin(V1, V2) /\ SameChildren(V1, V2) /\ SameLast(V1, V2) /\ SameGroups(V1, V2)
          /\ \A x \in Window : V2[x].hWndSibling = IF x = end THEN h ELSE V1[x].hWndSibling
      <4>1. V2 = WithSibling(V1, end, h) /\ end \in Window
        BY <1>1, <1>4, <2>2
      <4> HIDE DEF V2
      <4>2. V1 \in Wins /\ h \in HWND
        BY <1>1, <1>11
      <4> QED
        BY <4>1, <4>2, SetSibling
    <3> HIDE DEF V2
    <3> QED
      BY <2>2, <3>1 DEF SameChildren
  <2> QED
    BY <2>1, <2>2
<1> HIDE DEF V2
<1>13. /\ V3 \in Wins /\ Kin(V2, V3) /\ SameSiblings(V2, V3) /\ SameChildren(V2, V3) /\ SameLast(V2, V3)
       /\ \A x \in Window : V3[x].hWndGroup = IF joins /\ x = last THEN h ELSE V2[x].hWndGroup
  <2>1. CASE joins
    <3>1. V3 = WithGroup(V2, last, h) /\ last \in Window
      BY <1>1, <1>7, <2>1
    <3> HIDE DEF V3
    <3>2. /\ V3 \in Wins /\ Kin(V2, V3) /\ SameSiblings(V2, V3) /\ SameChildren(V2, V3) /\ SameLast(V2, V3)
          /\ \A x \in Window : V3[x].hWndGroup = IF x = last THEN h ELSE V2[x].hWndGroup
      <4>1. V2 \in Wins /\ h \in HWND
        BY <1>1, <1>12
      <4> QED
        BY <3>1, <4>1, SetGroup
    <3> QED
      BY <2>1, <3>2
  <2>2. CASE ~joins
    BY <1>12, <2>2 DEF Kin, SameSiblings, SameChildren, SameLast
  <2> QED
    BY <2>1, <2>2
<1> HIDE DEF V3
<1>14. /\ R \in Wins /\ Kin(V3, R) /\ SameSiblings(V3, R) /\ SameChildren(V3, R) /\ SameGroups(V3, R)
       /\ \A x \in Window : R[x].hWndLastChild =
             IF win[h].kind = "child" /\ x = p THEN h ELSE V3[x].hWndLastChild
  <2>1. CASE win[h].kind = "child"
    <3>1. R = WithLast(V3, p, h)
      BY <2>1
    <3> HIDE DEF R
    <3>2. /\ R \in Wins /\ Kin(V3, R) /\ SameSiblings(V3, R) /\ SameChildren(V3, R) /\ SameGroups(V3, R)
          /\ \A x \in Window : R[x].hWndLastChild = IF x = p THEN h ELSE V3[x].hWndLastChild
      <4>1. V3 \in Wins /\ p \in Window /\ h \in HWND
        BY <1>1, <1>13
      <4> QED
        BY <3>1, <4>1, SetLast
    <3> QED
      BY <2>1, <3>2
  <2>2. CASE win[h].kind # "child"
    BY <1>13, <2>2 DEF Kin, SameSiblings, SameChildren, SameGroups
  <2> QED
    BY <2>1, <2>2
<1> HIDE DEF R
<1>15. Kin(win, R)
  BY <1>11, <1>12, <1>13, <1>14 DEF Kin
<1>16. \A x \in Window : R[x].hWndSibling = IF s # <<>> /\ x = end THEN h ELSE win[x].hWndSibling
  BY <1>11, <1>12, <1>13, <1>14 DEF SameSiblings
<1>17. \A x \in Window : R[x].hWndChild = IF s = <<>> /\ x = p THEN h ELSE win[x].hWndChild
  BY <1>11, <1>12, <1>13, <1>14 DEF SameChildren
<1>18. \A x \in Window : R[x].hWndLastChild =
          IF win[h].kind = "child" /\ x = p THEN h ELSE win[x].hWndLastChild
  BY <1>11, <1>12, <1>13, <1>14 DEF SameLast
<1>19. \A x \in Window : R[x].hWndGroup =
          IF joins /\ x = last THEN h ELSE IF x = h THEN g0 ELSE win[x].hWndGroup
  BY <1>11, <1>12, <1>13, <1>14 DEF SameGroups
<1>20. (\A x \in M : ParentIn(R, x) = ParentIn(win, x)) /\ ParentIn(R, h) = p
  BY <1>1, <1>15 DEF Kin, ParentIn
<1>21. Groups(R, P \cup {h}, M \cup {h})
  <2>1. Groups(win, P \cup {h}, M)
    BY <1>1, GroupsWider
  <2>2. JoinsGroup(win, R, P \cup {h}, M, p, h)
    <3>1. CASE joins
      <4>1. R[h].hWndGroup = win[last].hWndGroup /\ R[last].hWndGroup = h
        BY <1>1, <1>7, <1>19, <3>1 DEF g0
      <4>2. \A x \in M \ {last} : R[x].hWndGroup = win[x].hWndGroup
        BY <1>1, <1>19
      <4>3. last \in Members(win, M, p)
        BY <1>7, <3>1 DEF S
      <4> QED
        BY <4>1, <4>2, <4>3 DEF JoinsGroup
    <3>2. CASE ~joins
      <4>1. R[h].hWndGroup = h
        BY <1>1, <1>19, <3>2 DEF g0
      <4>2. \A x \in M : R[x].hWndGroup = win[x].hWndGroup
        BY <1>1, <1>19, <3>2
      <4> QED
        BY <4>1, <4>2 DEF JoinsGroup
    <3> QED
      BY <3>1, <3>2
  <2>3. \A q \in P \cup {h} : R[q].hWndLastChild = win[q].hWndLastChild \/ (q = p /\ R[q].hWndLastChild = h)
    BY <1>1, <1>18
  <2> QED
    BY <1>1, <1>20, <2>1, <2>2, <2>3, GroupsPut
<1>22. Lists(PutAt(Widened(C, P, h), p, Len(C[p]) + 1, h), R, P \cup {h}, M \cup {h})
  <2> DEFINE D == Widened(C, P, h)
             Q == P \cup {h}
             k == Len(s) + 1
  <2>1. Lists(D, win, Q, M)
    <3>1. Lists(C, win, P, M)
      BY DEF Now
    <3> QED
      BY <1>1, <3>1, ListsWider
  <2>2. D[p] = s /\ p \in Q
    BY <1>1 DEF Widened, s
  <2>3. k \in 1 .. Len(D[p]) + 1 /\ (k = 1 <=> s = <<>>) /\ (k > 1 <=> s # <<>>) /\ k - 1 = Len(s)
    BY <1>3, <2>2
  <2>4. PutIn(win, R, Q, M, p, D[p], k, h)
    <3>1. \A x \in Win : x # h => R[x].hWndSibling = IF k > 1 /\ x = s[k - 1] THEN h ELSE win[x].hWndSibling
      BY <1>1, <1>16, <2>3 DEF end
    <3>2. R[h].hWndSibling = IF k = 1 THEN win[p].hWndChild ELSE win[s[k - 1]].hWndSibling
      BY <1>1, <1>4, <1>5, <1>16, <2>3 DEF end
    <3>3. \A q \in Q : R[q].hWndChild = IF k = 1 /\ q = p THEN h ELSE win[q].hWndChild
      BY <1>1, <1>17, <2>3
    <3> HIDE DEF D, Q, k
    <3> QED
      BY <1>20, <2>2, <3>1, <3>2, <3>3 DEF PutIn
  <2>5. Lists(PutAt(D, p, k, h), R, Q, M \cup {h})
    <3> HIDE DEF D, Q, k
    <3> QED
      BY <1>1, <2>1, <2>2, <2>3, <2>4, ListsPut
  <2> QED
    BY <2>5 DEF s
<1>23. \A x \in Win : x \notin Members(win, M, p) => R[x].hWndSibling = win[x].hWndSibling
  BY <1>1, <1>4, <1>16 DEF S
<1>24. \A x \in Window : x # p => /\ R[x].hWndChild = win[x].hWndChild
                                  /\ R[x].hWndLastChild = win[x].hWndLastChild
  BY <1>17, <1>18
<1>25. Touches(win, R, M, p)
  BY <1>23, <1>24 DEF Touches
<1>26. CanInsertLast(h, win[h]) /\ R \in Wins /\ Kin(win, R) /\ Groups(R, P \cup {h}, M \cup {h})
  BY <1>8, <1>9, <1>14, <1>15, <1>21
<1> HIDE DEF R
<1>27. IsInserted(C, P, M, p, h, R)
  BY <1>22, <1>25, <1>26 DEF IsInserted
<1> QED
  BY <1>9, <1>27

----------------------------------------------------------------------------
(* Another parent *)

WithParent(W, h, p, kind) == [W EXCEPT ![h].hWndParent = p, ![h].kind = kind]

KinBut(W, W2, h, p, kind) ==
    /\ \A x \in Window : x # h => W2[x].kind = W[x].kind /\ W2[x].hWndParent = W[x].hWndParent
    /\ \A x \in Window : W2[x].hWndOwner = W[x].hWndOwner
    /\ W2[h].kind = kind /\ W2[h].hWndParent = p

\* A window gets another parent and kind; the lists are as they were.
LEMMA SetPlace ==
    ASSUME NEW W \in Wins, NEW h \in Window, NEW p \in HWND, NEW kind \in {"overlapped", "popup", "child"}
    PROVE  LET U == WithParent(W, h, p, kind) IN
           /\ U \in Wins /\ KinBut(W, U, h, p, kind)
           /\ SameSiblings(W, U) /\ SameChildren(W, U) /\ SameLast(W, U) /\ SameGroups(W, U)
<1> DEFINE U == WithParent(W, h, p, kind)
           rec == [[W[h] EXCEPT !.hWndParent = p] EXCEPT !.kind = kind]
<1>1. \A x \in Window : W[x] \in WinRec
  BY DEF Wins
<1>2. U = [W EXCEPT ![h] = rec]
  BY DEF Wins, WithParent
<1>3. /\ rec \in WinRec /\ rec.kind = kind /\ rec.hWndParent = p
      /\ rec.hWndOwner = W[h].hWndOwner /\ rec.hWndSibling = W[h].hWndSibling
      /\ rec.hWndChild = W[h].hWndChild /\ rec.hWndLastChild = W[h].hWndLastChild
      /\ rec.hWndGroup = W[h].hWndGroup
  BY <1>1 DEF WinRec
<1> HIDE DEF rec, U
<1>4. \A x \in Window : U[x] = IF x = h THEN rec ELSE W[x]
  BY <1>2 DEF Wins
<1>5. U \in Wins
  BY <1>2, <1>3 DEF Wins
<1>6. KinBut(W, U, h, p, kind)
  BY <1>3, <1>4 DEF KinBut
<1>7. SameSiblings(W, U) /\ SameChildren(W, U) /\ SameLast(W, U) /\ SameGroups(W, U)
  BY <1>3, <1>4 DEF SameSiblings, SameChildren, SameLast, SameGroups
<1> QED
  BY <1>5, <1>6, <1>7 DEF U

NewKind(p) == IF p = Null THEN "popup" ELSE "child"

IsReparented(C, P, M, p0, k, p, h, R) ==
    /\ CanReparent(h, p)
    /\ R \in Wins /\ KinBut(win, R, h, p, NewKind(p))
    /\ Lists(PutAt(CutAt(C, p0, k), NewList(p), 1, h), R, P, M) /\ Groups(R, P, M)
    /\ \A x \in Win : x \notin Members(win, M, p0) => R[x].hWndSibling = win[x].hWndSibling
    /\ \A x \in Window : x \notin {p0, NewList(p)} => /\ R[x].hWndChild = win[x].hWndChild
                                                     /\ R[x].hWndLastChild = win[x].hWndLastChild

\* SetParent moves one window to the front of another list.
LEMMA Reparenting ==
    ASSUME NEW C, NEW P, NEW M, Now(C, P, M), Groups(win, P, M), NEW h \in M, NEW p0 \in P,
           p0 = ParentIn(win, h), NEW k \in DOMAIN C[p0], C[p0][k] = h,
           NEW p \in HWND, NewList(p) \in P, NewList(p) # p0, NewList(p) # h
    PROVE  IsReparented(C, P, M, p0, k, p, h, Reparented(h, p))
<1> DEFINE q == NewList(p)
           first == win[q].hWndChild
           alone == win[h].group \/ first = Null
           prev == PrevGroup(first)
           g0 == IF alone THEN h ELSE first
           kind == NewKind(p)
           D == CutAt(C, p0, k)
           N == M \ {h}
           V0 == RemoveFromList(h)
           V1 == WithParent(V0, h, p, kind)
           V2 == WithSibling(V1, h, first)
           V3 == WithGroup(V2, h, g0)
           V4 == WithChild(V3, q, h)
           R == IF alone THEN V4 ELSE WithGroup(V4, prev, h)
<1>1. /\ win \in Wins /\ P \subseteq Window /\ M \subseteq Win /\ Win \subseteq Window
      /\ h \in Win /\ h \in HWND /\ h \in Window /\ q \in Window /\ p0 \in Window /\ q # p0 /\ q # h /\ q \in P
      /\ kind \in {"overlapped", "popup", "child"}
  BY Handles DEF Now, Window, NewKind
<1>2. /\ CanRemove(h)
      /\ V0 \in Wins /\ Kin(win, V0) /\ Groups(V0, P, N)
      /\ Lists(D, V0, P, N)
      /\ \A x \in Win : x \notin Members(win, M, p0) => /\ V0[x].hWndSibling = win[x].hWndSibling
                                                   /\ V0[x].hWndGroup = win[x].hWndGroup
      /\ \A x \in Window : x # p0 => /\ V0[x].hWndChild = win[x].hWndChild
                                     /\ V0[x].hWndLastChild = win[x].hWndLastChild
  <2> HIDE DEF q, first, alone, prev, g0, kind, R
  <2> QED
    BY Removing DEF IsRemoved, Touches
<1>3. /\ Chain(C[q], win, first) /\ Elements(C[q]) = Members(win, M, q) /\ C[q] \in Seq(Win)
  BY ChildrenAre
<1>4. first # Null => first \in Members(win, M, q) /\ first \in M
  <2>1. CASE C[q] = <<>>
    BY <1>3, <2>1 DEF Chain
  <2>2. CASE C[q] # <<>>
    <3>1. 1 \in DOMAIN C[q] /\ first = C[q][1]
      BY <1>3, <2>2 DEF Chain
    <3> QED
      BY <1>3, <3>1 DEF Elements, Members
  <2> QED
    BY <2>1, <2>2
<1>5. first \in HWND
  BY <1>1 DEF Wins, WinRec
<1>6. ~alone => /\ InRing(first) /\ IsWindow(prev) /\ IsWindow(first)
                /\ prev \in Members(win, M, q) /\ win[prev].hWndGroup = first
  <2> SUFFICES ASSUME ~alone
               PROVE  /\ InRing(first) /\ IsWindow(prev) /\ IsWindow(first)
                      /\ prev \in Members(win, M, q) /\ win[prev].hWndGroup = first
    OBVIOUS
  <2>1. first \in M /\ q = ParentIn(win, first)
    BY <1>4 DEF Members
  <2>2. IsWindow(first)
    BY <2>1 DEF Now, IsWin, IsWindow, Alive
  <2> HIDE DEF q, first, g0, kind, R
  <2> QED
    BY <1>1, <2>1, <2>2, PrevGroupIs
<1>7. CanReparent(h, p)
  BY <1>2, <1>6 DEF CanReparent
<1>8. Reparented(h, p) = R
  <2>1. Reparented(h, p) =
           LET moved == [V0 EXCEPT ![h].hWndParent = p, ![h].kind = kind, ![h].hWndSibling = first,
                                   ![h].hWndGroup = g0, ![q].hWndChild = h]
           IN IF alone THEN moved ELSE [moved EXCEPT ![prev].hWndGroup = h]
    <3> HIDE DEF V0, q
    <3> QED
      BY DEF Reparented, NewKind, V0, q
  <2> HIDE DEF V0, q, first, alone, prev, g0, kind
  <2> QED
    BY <2>1 DEF WithParent, WithSibling, WithGroup, WithChild
<1>9. g0 \in HWND
  BY <1>1, <1>5
<1>10. ~alone => prev \in Members(win, M, q) /\ prev \in M /\ prev \in Window /\ prev # h
                 /\ prev \notin Members(win, M, p0) /\ V0[prev].hWndGroup = first
  BY <1>1, <1>2, <1>6 DEF Members
<1> HIDE DEF q, first, alone, prev, g0, kind, D, V0
<1>11. /\ V1 \in Wins /\ KinBut(V0, V1, h, p, kind)
       /\ SameSiblings(V0, V1) /\ SameChildren(V0, V1) /\ SameLast(V0, V1) /\ SameGroups(V0, V1)
  BY <1>1, <1>2, SetPlace
<1> HIDE DEF V1
<1>12. /\ V2 \in Wins /\ Kin(V1, V2) /\ SameChildren(V1, V2) /\ SameLast(V1, V2) /\ SameGroups(V1, V2)
       /\ \A x \in Window : V2[x].hWndSibling = IF x = h THEN first ELSE V1[x].hWndSibling
  BY <1>1, <1>5, <1>11, SetSibling
<1> HIDE DEF V2
<1>13. /\ V3 \in Wins /\ Kin(V2, V3) /\ SameSiblings(V2, V3) /\ SameChildren(V2, V3) /\ SameLast(V2, V3)
       /\ \A x \in Window : V3[x].hWndGroup = IF x = h THEN g0 ELSE V2[x].hWndGroup
  BY <1>1, <1>9, <1>12, SetGroup
<1> HIDE DEF V3
<1>14. /\ V4 \in Wins /\ Kin(V3, V4) /\ SameSiblings(V3, V4) /\ SameLast(V3, V4) /\ SameGroups(V3, V4)
       /\ \A x \in Window : V4[x].hWndChild = IF x = q THEN h ELSE V3[x].hWndChild
  BY <1>1, <1>13, SetChild
<1> HIDE DEF V4
<1>15. /\ R \in Wins /\ Kin(V4, R) /\ SameSiblings(V4, R) /\ SameChildren(V4, R) /\ SameLast(V4, R)
       /\ \A x \in Window : R[x].hWndGroup = IF ~alone /\ x = prev THEN h ELSE V4[x].hWndGroup
  <2>1. CASE alone
    BY <1>14, <2>1 DEF Kin, SameSiblings, SameChildren, SameLast
  <2>2. CASE ~alone
    <3>1. R = WithGroup(V4, prev, h)
      BY <2>2
    <3> HIDE DEF R
    <3>2. V4 \in Wins /\ h \in HWND /\ prev \in Window
      BY <1>1, <1>10, <1>14, <2>2
    <3>3. /\ R \in Wins /\ Kin(V4, R) /\ SameSiblings(V4, R) /\ SameChildren(V4, R) /\ SameLast(V4, R)
          /\ \A x \in Window : R[x].hWndGroup = IF x = prev THEN h ELSE V4[x].hWndGroup
      BY <3>1, <3>2, SetGroup
    <3> QED
      BY <2>2, <3>3
  <2> QED
    BY <2>1, <2>2
<1> HIDE DEF R
<1>16. KinBut(V0, R, h, p, kind) /\ KinBut(win, R, h, p, kind)
  <2>1. KinBut(V0, R, h, p, kind)
    BY <1>1, <1>11, <1>12, <1>13, <1>14, <1>15 DEF Kin, KinBut
  <2> QED
    BY <1>2, <2>1 DEF Kin, KinBut
<1>17. \A x \in Window : R[x].hWndSibling = IF x = h THEN first ELSE V0[x].hWndSibling
  BY <1>11, <1>12, <1>13, <1>14, <1>15 DEF SameSiblings
<1>18. \A x \in Window : R[x].hWndChild = IF x = q THEN h ELSE V0[x].hWndChild
  BY <1>11, <1>12, <1>13, <1>14, <1>15 DEF SameChildren
<1>19. \A x \in Window : R[x].hWndLastChild = V0[x].hWndLastChild
  BY <1>11, <1>12, <1>13, <1>14, <1>15 DEF SameLast
<1>20. \A x \in Window : R[x].hWndGroup =
          IF ~alone /\ x = prev THEN h ELSE IF x = h THEN g0 ELSE V0[x].hWndGroup
  BY <1>11, <1>12, <1>13, <1>14, <1>15 DEF SameGroups
<1>21. /\ \A x \in N : ParentIn(R, x) = ParentIn(V0, x)
       /\ ParentIn(R, h) = q
  <2>1. \A x \in N : x \in Window /\ x # h
    BY <1>1
  <2>2. ParentIn(R, h) = q
    BY <1>16 DEF ParentIn, KinBut, NewKind, NewList, kind, q
  <2> QED
    BY <1>16, <2>1, <2>2 DEF KinBut, ParentIn
<1>22. N \cup {h} = M /\ h \notin N /\ N \subseteq Win
  BY <1>1
<1>23. \A x \in M : ParentIn(V0, x) = ParentIn(win, x)
  BY <1>1, <1>2 DEF Kin, ParentIn
<1>24. Groups(R, P, M)
  <2>1. JoinsGroup(V0, R, P, N, q, h)
    <3>1. CASE alone
      <4>1. R[h].hWndGroup = h
        BY <1>1, <1>20, <3>1 DEF g0
      <4>2. \A x \in N : R[x].hWndGroup = V0[x].hWndGroup
        BY <1>1, <1>20, <3>1
      <4> QED
        BY <4>1, <4>2 DEF JoinsGroup
    <3>2. CASE ~alone
      <4>1. R[h].hWndGroup = V0[prev].hWndGroup /\ R[prev].hWndGroup = h
        BY <1>1, <1>10, <1>20, <3>2 DEF g0
      <4>2. \A x \in N \ {prev} : R[x].hWndGroup = V0[x].hWndGroup
        BY <1>1, <1>20
      <4>3. prev \in Members(V0, N, q)
        BY <1>10, <1>23, <3>2 DEF Members
      <4> HIDE DEF N
      <4> QED
        BY <4>1, <4>2, <4>3 DEF JoinsGroup
    <3> QED
      BY <3>1, <3>2
  <2>2. \A x \in P : R[x].hWndLastChild = V0[x].hWndLastChild \/ (x = q /\ R[x].hWndLastChild = h)
    BY <1>1, <1>19
  <2> HIDE DEF N
  <2>3. Groups(R, P, N \cup {h})
    BY <1>1, <1>2, <1>21, <1>22, <2>1, <2>2, GroupsPut
  <2> QED
    BY <1>22, <2>3
<1>25. Lists(PutAt(D, q, 1, h), R, P, M)
  <2>1. PutIn(V0, R, P, N, q, D[q], 1, h)
    <3>1. \A x \in Win : x # h => R[x].hWndSibling = V0[x].hWndSibling
      BY <1>1, <1>17
    <3>2. R[h].hWndSibling = V0[q].hWndChild
      BY <1>1, <1>2, <1>17 DEF first
    <3>3. \A x \in P : R[x].hWndChild = IF x = q THEN h ELSE V0[x].hWndChild
      BY <1>1, <1>18
    <3> HIDE DEF N
    <3> QED
      BY <1>21, <3>1, <3>2, <3>3 DEF PutIn
  <2>2. 1 \in 1 .. Len(D[q]) + 1
    <3>1. D[q] \in Seq(Win)
      BY <1>1, <1>2 DEF Lists
    <3> QED
      BY <3>1
  <2> HIDE DEF N
  <2>3. Lists(PutAt(D, q, 1, h), R, P, N \cup {h})
    BY <1>1, <1>2, <1>22, <2>1, <2>2, ListsPut
  <2> QED
    BY <1>22, <2>3
<1>26. \A x \in Win : x \notin Members(win, M, p0) => R[x].hWndSibling = win[x].hWndSibling
  <2>1. h \in Members(win, M, p0)
    BY DEF Members
  <2> QED
    BY <1>1, <1>2, <1>17, <2>1
<1>27. \A x \in Window : x \notin {p0, q} => /\ R[x].hWndChild = win[x].hWndChild
                                             /\ R[x].hWndLastChild = win[x].hWndLastChild
  BY <1>2, <1>18, <1>19
<1>28. R \in Wins /\ KinBut(win, R, h, p, kind) /\ Groups(R, P, M) /\ Lists(PutAt(D, q, 1, h), R, P, M)
  BY <1>15, <1>16, <1>24, <1>25
<1>29. IsReparented(C, P, M, p0, k, p, h, Reparented(h, p))
  <2> HIDE DEF R, first, alone, prev, g0
  <2> QED
    BY <1>7, <1>8, <1>26, <1>27, <1>28 DEF IsReparented, q, kind, D
<1> QED
  BY <1>29

----------------------------------------------------------------------------
(* The inductive invariant.  It is about explicit handles O, links W and    *)
(* calls under way S: steps are taken apart into a change of each.          *)

Fns == {"CreateWindowEx", "DestroyWindow", "SendDestroyMessages",
        "FreeWindow", "SetActiveWindow", "SetFocus", "SetWindowPos", "Proc"}
Stages == {"insert", "nccreate", "create", "notify", "show", "size",
           "return", "hide", "hidden", "first", "owned", "focus", "tell",
           "unlink", "rest", "children", "active", "ncdestroy", "free",
           "raise", "order", "swap", "nc", "activate", "focused"}
Messages == {"WM_GETMINMAXINFO", "WM_NCCREATE", "WM_CREATE",
             "WM_PARENTNOTIFY", "WM_SHOWWINDOW", "WM_SIZE", "WM_DESTROY",
             "WM_NCDESTROY", "WM_WINDOWPOSCHANGING", "WM_WINDOWPOSCHANGED",
             "WM_CHILDACTIVATE", "WM_ACTIVATE", "WM_NCACTIVATE",
             "WM_SETFOCUS", "WM_KILLFOCUS"}

FrameRec == [fn : Fns, at : Stages \cup Messages, hWnd : HWND, next : HWND, refused : BOOLEAN]
Objs == [Win -> {"none", "live", "marked", "gone"}]

KnownIn(O) == {h \in Win : O[h] = "live"}
Some(O) == {h \in Win : O[h] # "none"}

IsEntering(f) == f.fn = "CreateWindowEx" /\ f.at = "insert"
EnteringIn(S) == {S[i].hWnd : i \in {j \in DOMAIN S : IsEntering(S[j])}}
FreedIn(S) == {S[i].hWnd : i \in {j \in DOMAIN S : S[j].fn = "FreeWindow"}}
HeldIn(S) == {S[i].hWnd : i \in {j \in DOMAIN S : Holds(S[j])}}
TreeIn(O, S) == KnownIn(O) \ (EnteringIn(S) \cup FreedIn(S))

OverIn(O, W) ==
    [x \in HWND |-> IF x \in Win /\ IsWin(O, x)
                    THEN IF W[x].kind = "child" THEN W[x].hWndParent ELSE W[x].hWndOwner
                    ELSE Null]
FamilyIn(O, W, h) == Under(OverIn(O, W), h)

\* What the parents and owners of windows are.
Kinds(O, W) ==
    /\ W[Root].kind # "child" /\ W[Root].hWndOwner = Null
    /\ \A x \in Win : O[x] \in Alive =>
          /\ OverIn(O, W)[x] \in {Null} \cup Some(O)
          /\ W[x].kind = "child" <=> W[x].hWndParent # Null
          /\ W[x].hWndOwner # Null => W[x].kind = "popup"
          /\ O[x] = "live" /\ W[x].hWndOwner \in KnownIn(O) => W[W[x].hWndOwner].kind # "child"

\* A window that is, or was, no child window.
IsTop(O, W, h) == h \in Win => O[h] # "none" /\ W[h].kind # "child"

\* A window that stays in the tree, or is none.
Firm(O, T, x) == x \in T \/ ~IsWin(O, x)

\* What a call under way relies on.
GoodCreate(O, W, T, f) ==
    LET y == f.hWnd IN
    /\ IsEntering(f) =>
          /\ y \in KnownIn(O) /\ ParentIn(W, y) \in {Root} \cup T
          /\ W[y].hWndSibling = Null /\ W[y].hWndChild = Null /\ W[y].hWndLastChild = Null
          /\ \A x \in Win : OverIn(O, W)[x] # y
    /\ f.fn = "CreateWindowEx" /\ f.at \in {"insert", "nccreate"} => ~f.refused

GoodPlace(O, W, T, f) ==
    LET y == f.hWnd IN
    /\ f.fn \in {"CreateWindowEx", "SetActiveWindow", "SetWindowPos", "DestroyWindow"} /\ ~IsEntering(f)
         => y \in T /\ ParentIn(W, y) \in {Root} \cup T
    /\ f.fn = "SetWindowPos" => f.next \in {Null, Root} \cup Members(W, T, ParentIn(W, y))

GoodEnd(O, W, T, f) ==
    LET y == f.hWnd IN
    /\ f.fn = "DestroyWindow" => \A a \in Win : y \in FamilyIn(O, W, a) => Firm(O, T, a)
    /\ f.fn = "FreeWindow" =>
          /\ y \in KnownIn(O) /\ Firm(O, T, W[y].hWndOwner)
          /\ IF f.at = "children" THEN \E c : Chain(c, W, f.next) /\ Elements(c) = Members(W, T, y)
             ELSE Members(W, T, y) = {}

Good(O, W, T, f) ==
    /\ f.fn # "SendDestroyMessages" => f.hWnd \in {Null} \cup Some(O)
    /\ GoodCreate(O, W, T, f) /\ GoodPlace(O, W, T, f) /\ GoodEnd(O, W, T, f)

\* What a call under way relies on of one that called it: none of those is at work on
\* what it destroys, but for one that tells its end; and a window procedure that is left
\* there handles a message to the window itself or to a child window.
Busy(g) == g.fn \notin {"Proc", "SendDestroyMessages"}
Apart(O, W, f, g) ==
    /\ f.fn \in {"DestroyWindow", "FreeWindow"} =>
          /\ Busy(g) => g.hWnd \notin FamilyIn(O, W, f.hWnd)
          /\ g.fn = "Proc" /\ g.hWnd \in FamilyIn(O, W, f.hWnd) =>
                g.hWnd = f.hWnd \/ W[g.hWnd].kind = "child"
          /\ g.fn = "SetWindowPos" => g.next \notin FamilyIn(O, W, f.hWnd)
    /\ f.fn = "CreateWindowEx" /\ g.fn \in {"CreateWindowEx", "FreeWindow"} => f.hWnd # g.hWnd

\* WM_CREATE comes when CreateWindowEx is past WM_NCCREATE.
Sits(f, g) ==
    f.fn = "Proc" /\ f.at = "WM_CREATE" =>
        ~(g.fn = "CreateWindowEx" /\ g.at \in {"insert", "nccreate"})

Fits(O, W, T, S) ==
    /\ S \in Seq(FrameRec)
    /\ \A i \in DOMAIN S : Good(O, W, T, S[i])
    /\ \A i \in DOMAIN S : \A k \in 1 .. i - 1 : Apart(O, W, S[i], S[k])
    /\ \A i \in DOMAIN S : i > 1 => Sits(S[i], S[i - 1])

Tree(O, W, T, F) ==
    /\ O \in Objs /\ W \in Wins
    /\ \E C : Lists(C, W, {Root} \cup T, T)
    /\ Groups(W, {Root} \cup T, T)
    /\ Kinds(O, W) /\ NoCycle(OverIn(O, W))
    /\ \A x \in T : ParentIn(W, x) \in {Root} \cup T \cup F

Sound(O, W, S) ==
    /\ Tree(O, W, TreeIn(O, S), FreedIn(S))
    /\ Fits(O, W, TreeIn(O, S), S)

MarkedHeld(O, S) == \A x \in Win : O[x] = "marked" => x \in HeldIn(S)

----------------------------------------------------------------------------
(* One call more or less *)

\* The stack and what follows from it, with one frame more and one less.
LEMMA Appended ==
    ASSUME NEW S \in Seq(FrameRec), NEW f \in FrameRec
    PROVE  /\ Append(S, f) \in Seq(FrameRec) /\ Len(S) \in Nat
           /\ DOMAIN S = 1 .. Len(S) /\ DOMAIN Append(S, f) = 1 .. Len(S) + 1
           /\ \A i \in DOMAIN S : Append(S, f)[i] = S[i]
           /\ Append(S, f)[Len(S) + 1] = f
           /\ Len(Append(S, f)) = Len(S) + 1
           /\ Append(S, f) # <<>>
OBVIOUS

LEMMA AppendedSets ==
    ASSUME NEW S \in Seq(FrameRec), NEW f \in FrameRec
    PROVE  /\ EnteringIn(Append(S, f)) = EnteringIn(S) \cup {f.hWnd : x \in {y \in {f} : IsEntering(y)}}
           /\ FreedIn(Append(S, f)) = FreedIn(S) \cup {f.hWnd : x \in {y \in {f} : y.fn = "FreeWindow"}}
           /\ HeldIn(Append(S, f)) = HeldIn(S) \cup {f.hWnd : x \in {y \in {f} : Holds(y)}}
<1> DEFINE A == Append(S, f)
           n == Len(S)
<1>1. /\ A \in Seq(FrameRec) /\ Len(S) \in Nat
      /\ DOMAIN S = 1 .. n /\ DOMAIN A = 1 .. n + 1
      /\ \A i \in DOMAIN S : A[i] = S[i]
      /\ A[n + 1] = f
  BY Appended
<1> HIDE DEF A, n
<1>2. n \in Nat /\ \A i : i \in DOMAIN A <=> i \in DOMAIN S \/ i = n + 1
  BY <1>1 DEF n
<1>3. EnteringIn(A) = EnteringIn(S) \cup {f.hWnd : x \in {y \in {f} : IsEntering(y)}}
  BY <1>1, <1>2 DEF EnteringIn
<1>4. FreedIn(A) = FreedIn(S) \cup {f.hWnd : x \in {y \in {f} : y.fn = "FreeWindow"}}
  BY <1>1, <1>2 DEF FreedIn
<1>5. HeldIn(A) = HeldIn(S) \cup {f.hWnd : x \in {y \in {f} : Holds(y)}}
  BY <1>1, <1>2 DEF HeldIn
<1> QED
  BY <1>3, <1>4, <1>5 DEF A

LEMMA FrontOf ==
    ASSUME NEW S \in Seq(FrameRec), S # <<>>
    PROVE  /\ Front(S) \in Seq(FrameRec) /\ Last(S) \in FrameRec /\ S = Append(Front(S), Last(S))
           /\ Last(S) = S[Len(S)] /\ Len(Front(S)) = Len(S) - 1 /\ Len(S) \in Nat \ {0}
           /\ DOMAIN Front(S) = 1 .. Len(S) - 1
           /\ \A i \in DOMAIN Front(S) : Front(S)[i] = S[i]
<1> DEFINE n == Len(S)
           F == Front(S)
<1>1. n \in Nat \ {0} /\ DOMAIN S = 1 .. n /\ \A i \in 1 .. n : S[i] \in FrameRec
  OBVIOUS
<1>2. F = [i \in 1 .. n - 1 |-> S[i]]
  BY <1>1 DEF Front
<1>3. F \in Seq(FrameRec) /\ Len(F) = n - 1 /\ DOMAIN F = 1 .. n - 1
  BY <1>1, <1>2
<1>4. Last(S) = S[n] /\ S[n] \in FrameRec
  BY <1>1 DEF Last
<1>5. \A i \in 1 .. n - 1 : F[i] = S[i]
  BY <1>2
<1> HIDE DEF F
<1>6. S = Append(F, S[n])
  <2> DEFINE A == Append(F, S[n])
  <2>1. /\ A \in Seq(FrameRec) /\ Len(A) = Len(F) + 1
        /\ \A i \in 1 .. Len(F) : A[i] = F[i]
        /\ A[Len(F) + 1] = S[n]
    <3>1. F \in Seq(FrameRec) /\ S[n] \in FrameRec
      BY <1>3, <1>4
    <3> HIDE DEF n
    <3> QED
      BY <3>1
  <2> HIDE DEF A
  <2>2. Len(A) = n /\ \A i \in 1 .. n : A[i] = S[i]
    BY <1>1, <1>3, <1>5, <2>1
  <2>3. S = A
    BY <1>1, <2>1, <2>2
  <2> QED
    BY <2>3 DEF A
<1> QED
  BY <1>1, <1>3, <1>4, <1>5, <1>6 DEF F

LEMMA Joined ==
    ASSUME NEW S \in Seq(FrameRec), NEW f \in FrameRec
    PROVE  S \o <<f>> = Append(S, f) /\ S \o <<>> = S
OBVIOUS

IsFrame(r, f, a, h, v) ==
    r \in FrameRec /\ r.fn = f /\ r.at = a /\ r.hWnd = h /\ r.next = v /\ r.refused = FALSE

LEMMA FrameIs ==
    ASSUME NEW f \in Fns, NEW a \in Stages \cup Messages, NEW h \in HWND, NEW v \in HWND
    PROVE  IsFrame(Frame(f, a, h, v), f, a, h, v)
BY DEF Frame, FrameRec, IsFrame

\* What the calls under way rely on stays when one is made, goes on or returns.
LEMMA FitsPush ==
    ASSUME NEW O, NEW W, NEW T, NEW S, Fits(O, W, T, S), NEW f \in FrameRec, Good(O, W, T, f),
           \A k \in DOMAIN S : Apart(O, W, f, S[k]), S # <<>> => Sits(f, S[Len(S)])
    PROVE  Fits(O, W, T, Append(S, f))
<1> DEFINE A == Append(S, f)
           n == Len(S)
<1>0. S \in Seq(FrameRec)
  BY DEF Fits
<1>1. /\ A \in Seq(FrameRec) /\ n \in Nat
      /\ DOMAIN S = 1 .. n /\ DOMAIN A = 1 .. n + 1
      /\ \A i \in DOMAIN S : A[i] = S[i]
      /\ A[n + 1] = f
  BY <1>0, Appended
<1> HIDE DEF A
<1>2. \A i \in DOMAIN A : Good(O, W, T, A[i])
  BY <1>1 DEF Fits
<1>3. ASSUME NEW i \in DOMAIN A, NEW k \in 1 .. i - 1 PROVE Apart(O, W, A[i], A[k])
  <2>1. k \in DOMAIN S /\ A[k] = S[k]
    BY <1>1
  <2>2. CASE i = n + 1
    BY <1>1, <2>1, <2>2
  <2>3. CASE i # n + 1
    BY <1>1, <2>1, <2>3 DEF Fits
  <2> QED
    BY <2>2, <2>3
<1>4. ASSUME NEW i \in DOMAIN A, i > 1 PROVE Sits(A[i], A[i - 1])
  <2>1. CASE i = n + 1
    <3>1. n \in DOMAIN S /\ S # <<>> /\ i - 1 = n
      BY <1>1, <1>4, <2>1
    <3> QED
      BY <1>1, <2>1, <3>1
  <2>2. CASE i # n + 1
    <3>1. i \in DOMAIN S /\ i - 1 \in DOMAIN S
      BY <1>1, <1>4, <2>2
    <3> QED
      BY <1>1, <1>4, <3>1 DEF Fits
  <2> QED
    BY <2>1, <2>2
<1>5. Fits(O, W, T, A)
  BY <1>1, <1>2, <1>3, <1>4 DEF Fits
<1> QED
  BY <1>5 DEF A

LEMMA FitsPop ==
    ASSUME NEW O, NEW W, NEW T, NEW S, Fits(O, W, T, S), S # <<>>
    PROVE  Fits(O, W, T, Front(S))
<1>1. S \in Seq(FrameRec)
  BY DEF Fits
<1>2. /\ Front(S) \in Seq(FrameRec) /\ Len(S) \in Nat \ {0}
      /\ DOMAIN Front(S) = 1 .. Len(S) - 1 /\ DOMAIN S = 1 .. Len(S)
      /\ \A i \in DOMAIN Front(S) : Front(S)[i] = S[i]
  BY <1>1, FrontOf
<1>3. \A i \in DOMAIN Front(S) : i \in DOMAIN S /\ \A k \in 1 .. i - 1 : k \in DOMAIN Front(S)
  BY <1>2
<1>4. \A i \in DOMAIN Front(S) : i > 1 => i - 1 \in DOMAIN Front(S)
  BY <1>2
<1> QED
  BY <1>2, <1>3, <1>4 DEF Fits

\* The frame on top goes on: it stays above what it was above.
LEMMA FitsAdvance ==
    ASSUME NEW O, NEW W, NEW T, NEW S, Fits(O, W, T, S), S # <<>>, NEW f \in FrameRec,
           Good(O, W, T, f), f.fn = Last(S).fn, f.hWnd = Last(S).hWnd, f.fn = "Proc" => f.at = Last(S).at
    PROVE  Fits(O, W, T, Append(Front(S), f))
<1>1. S \in Seq(FrameRec)
  BY DEF Fits
<1>2. /\ Front(S) \in Seq(FrameRec) /\ Len(S) \in Nat \ {0} /\ Last(S) = S[Len(S)]
      /\ Len(Front(S)) = Len(S) - 1
      /\ DOMAIN Front(S) = 1 .. Len(S) - 1 /\ DOMAIN S = 1 .. Len(S)
      /\ \A i \in DOMAIN Front(S) : Front(S)[i] = S[i]
  BY <1>1, FrontOf
<1>3. Fits(O, W, T, Front(S))
  BY FitsPop
<1>4. ASSUME NEW k \in DOMAIN Front(S) PROVE Apart(O, W, f, Front(S)[k])
  <2>1. Apart(O, W, Last(S), S[k])
    BY <1>2 DEF Fits
  <2> QED
    BY <1>2, <2>1 DEF Apart
<1>5. ASSUME Front(S) # <<>> PROVE Sits(f, Front(S)[Len(Front(S))])
  <2>1. Len(S) - 1 \in DOMAIN Front(S) /\ Len(S) > 1 /\ Len(S) \in DOMAIN S
    BY <1>2, <1>5
  <2>2. Sits(Last(S), S[Len(S) - 1])
    BY <1>2, <2>1 DEF Fits
  <2>3. Sits(f, S[Len(S) - 1])
    BY <2>2 DEF Sits
  <2> QED
    BY <1>2, <2>1, <2>3
<1> QED
  BY <1>3, <1>4, <1>5, FitsPush

----------------------------------------------------------------------------
(* Steps that change no window *)

\* S2 has the same windows in the tree.
Same(S, S2) == EnteringIn(S2) = EnteringIn(S) /\ FreedIn(S2) = FreedIn(S)

LEMMA SameTree ==
    ASSUME NEW O, NEW W, NEW S, NEW S2, Sound(O, W, S), Same(S, S2),
           Fits(O, W, TreeIn(O, S), S2)
    PROVE  Sound(O, W, S2) /\ TreeIn(O, S2) = TreeIn(O, S)
BY DEF Sound, Same, TreeIn

LEMMA SamePushed ==
    ASSUME NEW S \in Seq(FrameRec), NEW f \in FrameRec, ~IsEntering(f), f.fn # "FreeWindow"
    PROVE  Same(S, Append(S, f))
<1>1. /\ EnteringIn(Append(S, f)) = EnteringIn(S) \cup {f.hWnd : x \in {y \in {f} : IsEntering(y)}}
      /\ FreedIn(Append(S, f)) = FreedIn(S) \cup {f.hWnd : x \in {y \in {f} : y.fn = "FreeWindow"}}
  BY AppendedSets
<1>2. {y \in {f} : IsEntering(y)} = {} /\ {y \in {f} : y.fn = "FreeWindow"} = {}
  OBVIOUS
<1> QED
  BY <1>1, <1>2 DEF Same

LEMMA SamePopped ==
    ASSUME NEW S \in Seq(FrameRec), S # <<>>, ~IsEntering(Last(S)), Last(S).fn # "FreeWindow"
    PROVE  Same(S, Front(S))
<1>1. Front(S) \in Seq(FrameRec) /\ Last(S) \in FrameRec /\ S = Append(Front(S), Last(S))
  BY FrontOf
<1>2. Same(Front(S), Append(Front(S), Last(S)))
  BY <1>1, SamePushed
<1> QED
  BY <1>1, <1>2 DEF Same

LEMMA SameAdvanced ==
    ASSUME NEW S \in Seq(FrameRec), S # <<>>, NEW f \in FrameRec, ~IsEntering(Last(S)), ~IsEntering(f),
           f.fn = Last(S).fn, f.hWnd = Last(S).hWnd
    PROVE  Same(S, Append(Front(S), f))
<1> DEFINE B == Front(S)
           t == Last(S)
<1>1. B \in Seq(FrameRec) /\ t \in FrameRec /\ S = Append(B, t)
  BY FrontOf
<1> HIDE DEF B, t
<1>2. /\ EnteringIn(Append(B, f)) = EnteringIn(B) \cup {f.hWnd : x \in {y \in {f} : IsEntering(y)}}
      /\ FreedIn(Append(B, f)) = FreedIn(B) \cup {f.hWnd : x \in {y \in {f} : y.fn = "FreeWindow"}}
      /\ EnteringIn(Append(B, t)) = EnteringIn(B) \cup {t.hWnd : x \in {y \in {t} : IsEntering(y)}}
      /\ FreedIn(Append(B, t)) = FreedIn(B) \cup {t.hWnd : x \in {y \in {t} : y.fn = "FreeWindow"}}
  BY <1>1, AppendedSets
<1>3. {y \in {f} : IsEntering(y)} = {} /\ {y \in {t} : IsEntering(y)} = {}
  BY DEF t
<1>4. {f.hWnd : x \in {y \in {f} : y.fn = "FreeWindow"}} = {t.hWnd : x \in {y \in {t} : y.fn = "FreeWindow"}}
  BY DEF t
<1>5. Same(S, Append(B, f))
  BY <1>1, <1>2, <1>3, <1>4 DEF Same
<1> QED
  BY <1>5 DEF B

\* So does the whole of the invariant.
LEMMA SoundPush ==
    ASSUME NEW O, NEW W, NEW S, Sound(O, W, S), NEW f \in FrameRec, Good(O, W, TreeIn(O, S), f),
           \A k \in DOMAIN S : Apart(O, W, f, S[k]), S # <<>> => Sits(f, S[Len(S)]),
           ~IsEntering(f), f.fn # "FreeWindow"
    PROVE  /\ Sound(O, W, Append(S, f)) /\ Same(S, Append(S, f))
           /\ TreeIn(O, Append(S, f)) = TreeIn(O, S)
<1>1. Fits(O, W, TreeIn(O, S), S) /\ S \in Seq(FrameRec)
  BY DEF Sound, Fits
<1>2. Fits(O, W, TreeIn(O, S), Append(S, f))
  BY <1>1, FitsPush
<1>3. Same(S, Append(S, f))
  BY <1>1, SamePushed
<1> QED
  BY <1>2, <1>3, SameTree

LEMMA SoundPop ==
    ASSUME NEW O, NEW W, NEW S, Sound(O, W, S), S # <<>>, ~IsEntering(Last(S)), Last(S).fn # "FreeWindow"
    PROVE  /\ Sound(O, W, Front(S)) /\ Same(S, Front(S)) /\ TreeIn(O, Front(S)) = TreeIn(O, S)
<1>1. Fits(O, W, TreeIn(O, S), S) /\ S \in Seq(FrameRec)
  BY DEF Sound, Fits
<1>2. Fits(O, W, TreeIn(O, S), Front(S))
  BY <1>1, FitsPop
<1>3. Same(S, Front(S))
  BY <1>1, SamePopped
<1> QED
  BY <1>2, <1>3, SameTree

LEMMA SoundAdvance ==
    ASSUME NEW O, NEW W, NEW S, Sound(O, W, S), S # <<>>, NEW f \in FrameRec,
           Good(O, W, TreeIn(O, S), f), f.fn = Last(S).fn, f.hWnd = Last(S).hWnd,
           f.fn = "Proc" => f.at = Last(S).at, ~IsEntering(Last(S)), ~IsEntering(f)
    PROVE  /\ Sound(O, W, Append(Front(S), f)) /\ Same(S, Append(Front(S), f))
           /\ TreeIn(O, Append(Front(S), f)) = TreeIn(O, S)
<1>1. Fits(O, W, TreeIn(O, S), S) /\ S \in Seq(FrameRec)
  BY DEF Sound, Fits
<1>2. Fits(O, W, TreeIn(O, S), Append(Front(S), f))
  BY <1>1, FitsAdvance
<1>3. Same(S, Append(Front(S), f))
  BY <1>1, SameAdvanced
<1> QED
  BY <1>2, <1>3, SameTree

\* A window procedure is called.
LEMMA SoundSent ==
    ASSUME NEW O, NEW W, NEW S, Sound(O, W, S), NEW m \in Messages, NEW h \in Some(O),
           m = "WM_CREATE" => S # <<>> /\ ~(S[Len(S)].fn = "CreateWindowEx" /\ S[Len(S)].at \in {"insert", "nccreate"})
    PROVE  LET f == Frame("Proc", m, h, Null) IN
           /\ Sound(O, W, Append(S, f)) /\ Same(S, Append(S, f))
           /\ TreeIn(O, Append(S, f)) = TreeIn(O, S)
<1> DEFINE f == Frame("Proc", m, h, Null)
<1>1. f \in FrameRec /\ f.fn = "Proc" /\ f.at = m /\ f.hWnd = h
  <2>1. h \in HWND /\ Null \in HWND /\ "Proc" \in Fns
    BY Handles DEF Some, Fns
  <2>2. m \in Stages \cup Messages
    OBVIOUS
  <2>3. IsFrame(Frame("Proc", m, h, Null), "Proc", m, h, Null)
    BY <2>1, <2>2, FrameIs
  <2> QED
    BY <2>3 DEF IsFrame
<1> HIDE DEF f
<1>2. Good(O, W, TreeIn(O, S), f)
  BY <1>1 DEF Good, GoodCreate, GoodPlace, GoodEnd, IsEntering
<1>3. \A k \in DOMAIN S : Apart(O, W, f, S[k])
  BY <1>1 DEF Apart
<1>4. S # <<>> => Sits(f, S[Len(S)])
  BY <1>1 DEF Sits
<1>5. ~IsEntering(f) /\ f.fn # "FreeWindow"
  BY <1>1 DEF IsEntering
<1>6. /\ Sound(O, W, Append(S, f)) /\ Same(S, Append(S, f))
      /\ TreeIn(O, Append(S, f)) = TreeIn(O, S)
  BY <1>1, <1>2, <1>3, <1>4, <1>5, SoundPush
<1> QED
  BY <1>6 DEF f

----------------------------------------------------------------------------
(* Over whom a window is *)

LEMMA OverEnds ==
    ASSUME NEW O \in Objs, NEW W \in Wins
    PROVE  OverIn(O, W) \in Links /\ EndsOut(OverIn(O, W))
<1>1. \A x \in Win : W[x].hWndParent \in HWND /\ W[x].hWndOwner \in HWND
  BY DEF Wins, Window, WinRec
<1>2. OverIn(O, W) \in Links
  BY <1>1, Handles DEF OverIn, Links
<1>3. OverIn(O, W)[Null] = Null /\ OverIn(O, W)[Root] = Null
  BY Handles DEF OverIn
<1> QED
  BY <1>2, <1>3 DEF EndsOut

LEMMA OverKin ==
    ASSUME NEW O, NEW W, NEW R, Kin(W, R)
    PROVE  /\ OverIn(O, R) = OverIn(O, W) /\ \A h : FamilyIn(O, R, h) = FamilyIn(O, W, h)
           /\ \A x \in Win : ParentIn(R, x) = ParentIn(W, x)
           /\ \A M, q : M \subseteq Win => Members(R, M, q) = Members(W, M, q)
<1>1. \A x \in Win : /\ R[x].kind = W[x].kind /\ R[x].hWndParent = W[x].hWndParent
                     /\ R[x].hWndOwner = W[x].hWndOwner
  BY DEF Kin, Window
<1>2. OverIn(O, R) = OverIn(O, W)
  BY <1>1 DEF OverIn
<1>3. \A x \in Win : ParentIn(R, x) = ParentIn(W, x)
  BY <1>1 DEF ParentIn
<1> QED
  BY <1>2, <1>3 DEF FamilyIn, Members

\* The definitions of the model, of explicit handles and links.
LEMMA StateIs ==
    /\ Over = OverIn(obj, win) /\ \A h : Family(h) = FamilyIn(obj, win, h)
    /\ Entering = EnteringIn(stack) /\ About({"FreeWindow"}) = FreedIn(stack)
    /\ Known = KnownIn(obj) /\ InTree = TreeIn(obj, stack)
    /\ \A s : Held(s) = HeldIn(s)
    /\ \A x : IsWindow(x) <=> IsWin(obj, x)
    /\ \A x : ListParent(x) = ParentIn(win, x)
<1>1. \A x : IsWindow(x) <=> IsWin(obj, x)
  BY DEF IsWindow, IsWin, Alive
<1>2. Over = OverIn(obj, win)
  BY <1>1 DEF Over, OverIn
<1>3. \A h : Family(h) = FamilyIn(obj, win, h)
  BY <1>2 DEF Family, FamilyIn, Under
<1>4. Entering = EnteringIn(stack)
  BY DEF Entering, EnteringIn, IsEntering
<1>5. About({"FreeWindow"}) = FreedIn(stack)
  BY DEF About, FreedIn
<1>6. Known = KnownIn(obj)
  BY DEF Known, KnownIn
<1>7. \A s : Held(s) = HeldIn(s)
  BY DEF Held, HeldIn
<1>8. \A x : ListParent(x) = ParentIn(win, x)
  BY DEF ListParent, ParentIn
<1> QED
  BY <1>1, <1>2, <1>3, <1>4, <1>5, <1>6, <1>7, <1>8 DEF InTree, TreeIn

\* No window is its own parent or owner.
LEMMA NotSelf ==
    ASSUME NEW O \in Objs, NEW W \in Wins, NoCycle(OverIn(O, W)), NEW x \in Win, IsWin(O, x)
    PROVE  ParentIn(W, x) # x /\ OverIn(O, W)[x] # x
<1>1. OverIn(O, W) \in Links /\ x \in HWND
  BY OverEnds, Handles
<1>2. OverIn(O, W)[x] # x
  BY <1>1, UnderSelf DEF NoCycle
<1>3. W[x].kind = "child" => OverIn(O, W)[x] = W[x].hWndParent
  BY <1>1 DEF OverIn
<1> QED
  BY <1>2, <1>3, Handles DEF ParentIn

\* The operations on the lists can be reasoned about in a tree.
LEMMA NowTree ==
    ASSUME NEW T, NEW F, Tree(obj, win, T, F), T \subseteq KnownIn(obj),
           NEW C, Lists(C, win, {Root} \cup T, T)
    PROVE  Now(C, {Root} \cup T, T)
<1>1. T \subseteq Win /\ \A x \in T : IsWin(obj, x)
  BY DEF KnownIn, IsWin, Alive
<1>2. \A x \in T : ParentIn(win, x) # x
  BY <1>1, NotSelf DEF Tree
<1>3. IsWin(obj, Root)
  BY DEF IsWin
<1> QED
  BY <1>1, <1>2, <1>3 DEF Now, Tree, Window

LEMMA TreeKnown ==
    ASSUME NEW O, NEW S
    PROVE  /\ TreeIn(O, S) \subseteq KnownIn(O) /\ TreeIn(O, S) \subseteq Win
           /\ TreeIn(O, S) \subseteq Some(O) /\ \A x \in TreeIn(O, S) : IsWin(O, x)
BY DEF TreeIn, KnownIn, Some, IsWin, Alive

----------------------------------------------------------------------------
(* Handles that go *)

\* O2 is O, where some marked windows are gone.
Fewer(O, O2) ==
    /\ O2 \in Objs /\ KnownIn(O2) = KnownIn(O) /\ Some(O2) = Some(O)
    /\ \A x : IsWin(O2, x) => IsWin(O, x)

\* When handles go, fewer windows are over others.
LEMMA LessOver ==
    ASSUME NEW O \in Objs, NEW W \in Wins, NEW O2, Fewer(O, O2)
    PROVE  /\ \A x \in HWND : OverIn(O2, W)[x] \in {OverIn(O, W)[x], Null}
           /\ \A h \in Win : FamilyIn(O2, W, h) \subseteq FamilyIn(O, W, h)
           /\ NoCycle(OverIn(O, W)) => NoCycle(OverIn(O2, W))
<1>1. \A x \in HWND : OverIn(O2, W)[x] \in {OverIn(O, W)[x], Null}
  BY DEF OverIn, Fewer
<1>2. /\ OverIn(O, W) \in Links /\ EndsOut(OverIn(O, W)) /\ OverIn(O2, W) \in Links
  BY OverEnds DEF Fewer
<1>3. /\ \A h \in Win : Under(OverIn(O2, W), h) \subseteq Under(OverIn(O, W), h)
      /\ NoCycle(OverIn(O, W)) => NoCycle(OverIn(O2, W))
  BY <1>1, <1>2, UnderLess
<1> QED
  BY <1>1, <1>3 DEF FamilyIn

LEMMA GoodFewer ==
    ASSUME NEW O \in Objs, NEW W \in Wins, NEW O2, Fewer(O, O2), NEW T, NEW f \in FrameRec, Good(O, W, T, f)
    PROVE  Good(O2, W, T, f)
<1>1. /\ \A x \in HWND : OverIn(O2, W)[x] \in {OverIn(O, W)[x], Null}
      /\ \A h \in Win : FamilyIn(O2, W, h) \subseteq FamilyIn(O, W, h)
  BY LessOver
<1>2. /\ KnownIn(O2) = KnownIn(O) /\ Some(O2) = Some(O)
      /\ \A x : Firm(O, T, x) => Firm(O2, T, x)
  BY DEF Fewer, Firm
<1>3. GoodCreate(O2, W, T, f)
  <2>1. GoodCreate(O, W, T, f)
    BY DEF Good
  <2>2. f.hWnd \in KnownIn(O) => f.hWnd # Null
    BY Handles DEF KnownIn
  <2>3. ASSUME IsEntering(f), NEW x \in Win PROVE OverIn(O2, W)[x] # f.hWnd
    BY <1>1, <2>1, <2>2, <2>3, Handles DEF GoodCreate
  <2> QED
    BY <1>2, <2>1, <2>3 DEF GoodCreate
<1>4. GoodPlace(O2, W, T, f)
  BY DEF Good, GoodPlace
<1>5. GoodEnd(O2, W, T, f)
  BY <1>1, <1>2 DEF Good, GoodEnd
<1> QED
  BY <1>2, <1>3, <1>4, <1>5 DEF Good

LEMMA ApartFewer ==
    ASSUME NEW O \in Objs, NEW W \in Wins, NEW O2, Fewer(O, O2), NEW f, NEW g, Apart(O, W, f, g),
           f.fn \in {"DestroyWindow", "FreeWindow"} => f.hWnd \in Win
    PROVE  Apart(O2, W, f, g)
BY LessOver DEF Apart

\* What destroys works on a window.
LEMMA EndsWindow ==
    ASSUME NEW O, NEW W, NEW T, T \subseteq Win, NEW f, Good(O, W, T, f),
           f.fn \in {"DestroyWindow", "FreeWindow"}
    PROVE  f.hWnd \in Win
BY DEF Good, GoodPlace, GoodEnd, IsEntering, KnownIn

LEMMA SoundFewer ==
    ASSUME NEW O, NEW W, NEW S, Sound(O, W, S), NEW O2, Fewer(O, O2)
    PROVE  Sound(O2, W, S) /\ TreeIn(O2, S) = TreeIn(O, S)
<1> DEFINE T == TreeIn(O, S)
<1>1. O \in Objs /\ W \in Wins /\ S \in Seq(FrameRec) /\ \A i \in DOMAIN S : S[i] \in FrameRec
  BY DEF Sound, Tree, Fits
<1>2. TreeIn(O2, S) = T /\ T \subseteq Win
  BY TreeKnown DEF TreeIn, Fewer
<1> HIDE DEF T
<1>3. Tree(O, W, T, FreedIn(S)) /\ Fits(O, W, T, S)
  BY DEF Sound, T
<1>4. Tree(O2, W, T, FreedIn(S))
  <2>1. O2 \in Objs /\ NoCycle(OverIn(O2, W))
    BY <1>1, <1>3, LessOver DEF Fewer, Tree
  <2>2. Kinds(O2, W)
    <3> SUFFICES ASSUME NEW x \in Win, O2[x] \in Alive
                 PROVE  /\ OverIn(O2, W)[x] \in {Null} \cup Some(O2)
                        /\ W[x].kind = "child" <=> W[x].hWndParent # Null
                        /\ W[x].hWndOwner # Null => W[x].kind = "popup"
                        /\ O2[x] = "live" /\ W[x].hWndOwner \in KnownIn(O2) => W[W[x].hWndOwner].kind # "child"
      BY <1>3 DEF Kinds, Tree
    <3>1. O[x] \in Alive /\ x \in HWND /\ (O2[x] = "live" => O[x] = "live")
      <4>1. IsWin(O, x) /\ x # Root
        BY Handles DEF Fewer, IsWin
      <4> QED
        BY <4>1, Handles DEF IsWin, Fewer, KnownIn
    <3>2. OverIn(O2, W)[x] \in {OverIn(O, W)[x], Null}
      BY <1>1, <3>1, LessOver
    <3>3. /\ OverIn(O, W)[x] \in {Null} \cup Some(O)
          /\ W[x].kind = "child" <=> W[x].hWndParent # Null
          /\ W[x].hWndOwner # Null => W[x].kind = "popup"
          /\ O[x] = "live" /\ W[x].hWndOwner \in KnownIn(O) => W[W[x].hWndOwner].kind # "child"
      BY <1>3, <3>1 DEF Kinds, Tree
    <3> QED
      BY <3>1, <3>2, <3>3 DEF Fewer
  <2> QED
    BY <1>3, <2>1, <2>2 DEF Tree
<1>5. Fits(O2, W, T, S)
  <2>1. \A i \in DOMAIN S : Good(O2, W, T, S[i])
    BY <1>1, <1>3, GoodFewer DEF Fits
  <2>2. ASSUME NEW i \in DOMAIN S, NEW k \in 1 .. i - 1 PROVE Apart(O2, W, S[i], S[k])
    <3>1. Apart(O, W, S[i], S[k]) /\ Good(O, W, T, S[i])
      BY <1>3 DEF Fits
    <3>2. S[i].fn \in {"DestroyWindow", "FreeWindow"} => S[i].hWnd \in Win
      BY <1>2, <3>1, EndsWindow
    <3> QED
      BY <1>1, <3>1, <3>2, ApartFewer
  <2> QED
    BY <1>3, <2>1, <2>2 DEF Fits
<1> QED
  BY <1>2, <1>4, <1>5 DEF Sound, T

\* What Continue makes of the handles.
Released(O, S) == [h \in Win |-> IF O[h] = "marked" /\ h \notin HeldIn(S) THEN "gone" ELSE O[h]]

\* Continue may release what is held no more.
LEMMA SoundReleased ==
    ASSUME NEW O, NEW W, NEW S, Sound(O, W, S)
    PROVE  LET O2 == Released(O, S) IN
           Sound(O2, W, S) /\ MarkedHeld(O2, S) /\ TreeIn(O2, S) = TreeIn(O, S)
<1> DEFINE O2 == Released(O, S)
<1>1. O \in Objs
  BY DEF Sound, Tree
<1>2. O2 \in Objs /\ \A h \in Win : O2[h] = IF O[h] = "marked" /\ h \notin HeldIn(S) THEN "gone" ELSE O[h]
  BY <1>1 DEF Objs, Released
<1> HIDE DEF O2
<1>3. Fewer(O, O2)
  <2>1. \A h \in Win : /\ O2[h] = "live" <=> O[h] = "live"
                       /\ O2[h] = "none" <=> O[h] = "none"
                       /\ O2[h] \in Alive => O[h] \in Alive
    <3>1. \A h \in Win : O2[h] = O[h] \/ (O[h] = "marked" /\ O2[h] = "gone")
      BY <1>2
    <3> QED
      BY <3>1 DEF Alive
  <2>2. KnownIn(O2) = KnownIn(O)
    BY <2>1 DEF KnownIn
  <2>3. Some(O2) = Some(O)
    BY <2>1 DEF Some
  <2>4. \A x : IsWin(O2, x) => IsWin(O, x)
    BY <2>1 DEF IsWin
  <2> QED
    BY <1>2, <2>2, <2>3, <2>4 DEF Fewer
<1>4. MarkedHeld(O2, S)
  BY <1>2 DEF MarkedHeld
<1>5. Sound(O2, W, S) /\ TreeIn(O2, S) = TreeIn(O, S)
  BY <1>3, SoundFewer
<1> QED
  BY <1>4, <1>5 DEF O2

----------------------------------------------------------------------------
(* Calls that change no window *)

\* The calls under way were S and are S2; the handles are as they were.
Calm(W, S, S2) == Sound(obj, W, S2) /\ TreeIn(obj, S2) = TreeIn(obj, S)

\* Calm steps follow each other.
LEMMA CalmTwice ==
    ASSUME NEW W, NEW S, NEW S2, NEW S3, Calm(W, S, S2), Calm(W, S2, S3)
    PROVE  Calm(W, S, S3)
BY DEF Calm

LEMMA CalmSame ==
    ASSUME NEW W, NEW S, Sound(obj, W, S)
    PROVE  Calm(W, S, S \o <<>>) /\ S \o <<>> = S
<1>1. S \in Seq(FrameRec)
  BY DEF Sound, Fits
<1>2. S \o <<>> = S
  BY <1>1
<1> QED
  BY <1>2 DEF Calm

LEMMA CalmPush ==
    ASSUME NEW W, NEW S, Sound(obj, W, S), NEW f \in FrameRec, Good(obj, W, TreeIn(obj, S), f),
           \A k \in DOMAIN S : Apart(obj, W, f, S[k]), S # <<>> => Sits(f, S[Len(S)]),
           ~IsEntering(f), f.fn # "FreeWindow"
    PROVE  Calm(W, S, S \o <<f>>) /\ S \o <<f>> = Append(S, f)
<1>1. S \in Seq(FrameRec)
  BY DEF Sound, Fits
<1>2. S \o <<f>> = Append(S, f)
  BY <1>1, Joined
<1>3. Sound(obj, W, Append(S, f)) /\ TreeIn(obj, Append(S, f)) = TreeIn(obj, S)
  BY SoundPush
<1> QED
  BY <1>2, <1>3 DEF Calm

\* A message is sent.
Ready(S, m) ==
    m = "WM_CREATE" => S # <<>> /\ ~(S[Len(S)].fn = "CreateWindowEx" /\ S[Len(S)].at \in {"insert", "nccreate"})

LEMMA Sending ==
    ASSUME NEW W, NEW S, Sound(obj, W, S), NEW m \in Messages, Ready(S, m), NEW h
    PROVE  Calm(W, S, S \o Send(h, m))
<1>1. S \in Seq(FrameRec)
  BY DEF Sound, Fits
<1>2. CASE h \in Win /\ IsWindow(h) /\ m \in Handled
  <2> DEFINE f == Frame("Proc", m, h, Null)
  <2>1. h \in Some(obj)
    BY <1>2, Handles DEF IsWindow, Some
  <2>2. Sound(obj, W, Append(S, f)) /\ TreeIn(obj, Append(S, f)) = TreeIn(obj, S)
    BY <2>1, SoundSent DEF Ready
  <2>3. f \in FrameRec
    <3>1. h \in HWND /\ Null \in HWND /\ "Proc" \in Fns /\ m \in Stages \cup Messages
      BY <1>2, Handles DEF Fns
    <3>2. IsFrame(f, "Proc", m, h, Null)
      BY <3>1, FrameIs
    <3> QED
      BY <3>2 DEF IsFrame
  <2> HIDE DEF f
  <2>4. S \o <<f>> = Append(S, f)
    BY <1>1, <2>3, Joined
  <2>5. Send(h, m) = <<f>>
    BY <1>2 DEF Send, f
  <2> QED
    BY <2>2, <2>4, <2>5 DEF Calm
<1>3. CASE ~(h \in Win /\ IsWindow(h) /\ m \in Handled)
  <2>1. Send(h, m) = <<>>
    BY <1>3 DEF Send
  <2> QED
    BY <2>1, CalmSame
<1> QED
  BY <1>2, <1>3

\* InternalSetActiveWindow is called for a window in the tree.
LEMMA ActivePush ==
    ASSUME NEW W, NEW S, Sound(obj, W, S), NEW x \in TreeIn(obj, S),
           ParentIn(W, x) \in {Root} \cup TreeIn(obj, S)
    PROVE  Calm(W, S, S \o <<Frame("SetActiveWindow", "raise", x, Null)>>)
<1> DEFINE f == Frame("SetActiveWindow", "raise", x, Null)
<1>1. /\ x \in Some(obj) /\ x \in Win
  BY TreeKnown
<1>2. IsFrame(f, "SetActiveWindow", "raise", x, Null)
  <2>1. x \in HWND /\ Null \in HWND /\ "SetActiveWindow" \in Fns /\ "raise" \in Stages \cup Messages
    BY <1>1, Handles DEF Fns, Stages
  <2> QED
    BY <2>1, FrameIs
<1> HIDE DEF f
<1>3. f \in FrameRec /\ f.fn = "SetActiveWindow" /\ f.hWnd = x
  BY <1>2 DEF IsFrame
<1>4. Good(obj, W, TreeIn(obj, S), f)
  BY <1>1, <1>3 DEF Good, GoodCreate, GoodPlace, GoodEnd, IsEntering
<1>5. \A g : Apart(obj, W, f, g) /\ Sits(f, g)
  BY <1>3 DEF Apart, Sits
<1>6. Calm(W, S, S \o <<f>>)
  BY <1>3, <1>4, <1>5, CalmPush DEF IsEntering
<1> QED
  BY <1>6 DEF f

\* So does SetActiveWindow, of a window that is in the tree or none.
LEMMA Activating ==
    ASSUME NEW S, Sound(obj, win, S), NEW x, Firm(obj, TreeIn(obj, S), x)
    PROVE  Calm(win, S, S \o ActiveCall(x))
<1>1. CASE IsWindow(x) /\ win[x].kind # "child" /\ x # hCurrentActiveWindow
  <2>1. x \in TreeIn(obj, S)
    BY <1>1, StateIs DEF Firm
  <2>2. ParentIn(win, x) = Root
    BY <1>1 DEF ParentIn
  <2>3. ActiveCall(x) = <<Frame("SetActiveWindow", "raise", x, Null)>>
    BY <1>1 DEF ActiveCall
  <2> QED
    BY <2>1, <2>2, <2>3, ActivePush
<1>2. CASE ~(IsWindow(x) /\ win[x].kind # "child" /\ x # hCurrentActiveWindow)
  <2>1. ActiveCall(x) = <<>>
    BY <1>2 DEF ActiveCall
  <2> QED
    BY <2>1, CalmSame
<1> QED
  BY <1>1, <1>2

\* What is over a window is in the tree.
Safe(O, W, T, h) == \A a \in Win : h \in FamilyIn(O, W, a) => Firm(O, T, a)

\* The top-level ancestor is over the window.
LEMMA AncestorIs ==
    ASSUME obj \in Objs, win \in Wins, NEW h \in Win, IsWin(obj, h), Kinds(obj, win)
    PROVE  LET t == GetTopLevelAncestor(h) IN
           /\ t \in Win /\ IsWin(obj, t) /\ h \in FamilyIn(obj, win, t)
           /\ win[h].kind # "child" => t = h
<1> DEFINE link == [x \in HWND |-> IF /\ x # Null /\ IsWindow(x) /\ win[x].kind = "child"
                             /\ IsWindow(win[x].hWndParent)
                          THEN win[x].hWndParent ELSE Null]
           up == Along(link, h)
           t == GetTopLevelAncestor(h)
           Ends(n) == up[n] # Null /\ \A m \in n + 1 .. MaxWindows : up[m] = Null
<1>1. /\ \A x \in HWND : link[x] = IF /\ x # Null /\ IsWin(obj, x) /\ win[x].kind = "child"
                                      /\ IsWin(obj, win[x].hWndParent)
                                   THEN win[x].hWndParent ELSE Null
  BY StateIs
<1>2. link \in Links
  <2>1. \A x \in HWND : IsWin(obj, x) => win[x].hWndParent \in HWND
    BY DEF IsWin, Wins, Window, WinRec
  <2> QED
    BY <1>1, <2>1, Handles DEF Links
<1>3. \A x \in HWND : link[x] \in {OverIn(obj, win)[x], Null}
  BY <1>1 DEF OverIn, IsWin, Kinds
<1>4. /\ OverIn(obj, win) \in Links /\ EndsOut(OverIn(obj, win))
  BY OverEnds
<1>5. \A x \in HWND : link[x] # Null => link[x] \in Win /\ IsWin(obj, link[x])
  <2> SUFFICES ASSUME NEW x \in HWND, link[x] # Null PROVE link[x] \in Win /\ IsWin(obj, link[x])
    OBVIOUS
  <2>1. IsWin(obj, link[x]) /\ IsWin(obj, x) /\ win[x].kind = "child" /\ link[x] = OverIn(obj, win)[x]
    BY <1>1, <1>3
  <2>2. x \in Win
    BY <2>1 DEF IsWin, Kinds
  <2>3. obj[x] \in Alive
    BY <2>1, <2>2, Handles DEF IsWin
  <2> QED
    BY <2>1, <2>2, <2>3 DEF Kinds, Some
<1>6. up = Along(link, h) /\ t = up[CHOOSE n \in 0 .. MaxWindows : Ends(n)]
  BY DEF GetTopLevelAncestor, Up
<1> HIDE DEF link, t
<1>7. Walks(link, up) /\ up[0] = h
  BY <1>2, AlongWalks, Handles
<1> HIDE DEF up
<1>8. PICK n \in 0 .. MaxWindows : Ends(n)
  <2> DEFINE Not == {m \in 0 .. MaxWindows : up[MaxWindows - m] # Null}
  <2>1. MaxWindows \in Not /\ Not \subseteq Nat
    BY <1>7, Handles, BoundAssumption
  <2>2. PICK m \in Not : \A y \in Not : m <= y
    <3> HIDE DEF Not
    <3> QED
      BY <2>1, Smallest
  <2>3. m \in 0 .. MaxWindows /\ up[MaxWindows - m] # Null
    BY <2>2
  <2>4. ASSUME NEW i \in (MaxWindows - m) + 1 .. MaxWindows PROVE up[i] = Null
    <3>1. MaxWindows - i \in 0 .. MaxWindows /\ MaxWindows - i < m /\ MaxWindows - (MaxWindows - i) = i
      BY <2>3, BoundAssumption
    <3>2. MaxWindows - i \notin Not
      BY <2>2, <2>3, <3>1
    <3> QED
      BY <3>1, <3>2
  <2>5. MaxWindows - m \in 0 .. MaxWindows
    BY <2>3, BoundAssumption
  <2> QED
    BY <2>3, <2>4, <2>5
<1>9. PICK k \in 0 .. MaxWindows : t = up[k] /\ up[k] # Null
  BY <1>6, <1>8
<1>10. t \in Win /\ IsWin(obj, t)
  <2>1. CASE k = 0
    BY <1>7, <1>9, <2>1
  <2>2. CASE k # 0
    <3>1. k - 1 \in 0 .. MaxWindows - 1 /\ (k - 1) + 1 = k
      BY <2>2, BoundAssumption
    <3>2. up[k] = link[up[k - 1]] /\ up[k - 1] \in HWND
      BY <1>7, <3>1, BoundAssumption DEF Walks
    <3> QED
      BY <1>5, <1>9, <3>2
  <2> QED
    BY <2>1, <2>2
<1>11. h \in Under(link, t)
  BY <1>6, <1>9 DEF Under
<1>12. h \in FamilyIn(obj, win, t)
  BY <1>2, <1>3, <1>4, <1>10, <1>11, UnderLess DEF FamilyIn
<1>13. ASSUME win[h].kind # "child" PROVE t = h
  <2>1. link[h] = Null /\ EndsOut(link)
    BY <1>1, <1>2, <1>13, Handles DEF EndsOut, Kinds
  <2>2. Under(link, t) \subseteq Win
    BY DEF Under
  <2> SUFFICES ASSUME t # h PROVE FALSE
    OBVIOUS
  <2>3. link[h] \in Under(link, t)
    BY <1>2, <1>10, <1>11, <2>1, UnderNext
  <2> QED
    BY <2>1, <2>2, <2>3, Handles
<1> QED
  BY <1>10, <1>12, <1>13 DEF t

\* SetFocus is called.
LEMMA FocusPush ==
    ASSUME NEW S, Sound(obj, win, S), NEW h \in {Null} \cup Some(obj)
    PROVE  Calm(win, S, S \o <<Frame("SetFocus", "focus", h, Null)>>)
<1> DEFINE f == Frame("SetFocus", "focus", h, Null)
<1>1. IsFrame(f, "SetFocus", "focus", h, Null)
  <2>1. h \in HWND /\ Null \in HWND /\ "SetFocus" \in Fns /\ "focus" \in Stages \cup Messages
    BY Handles DEF Fns, Stages, Some
  <2> QED
    BY <2>1, FrameIs
<1> HIDE DEF f
<1>2. f \in FrameRec /\ f.fn = "SetFocus" /\ f.hWnd = h
  BY <1>1 DEF IsFrame
<1>3. Good(obj, win, TreeIn(obj, S), f)
  BY <1>2 DEF Good, GoodCreate, GoodPlace, GoodEnd, IsEntering
<1>4. \A g : Apart(obj, win, f, g) /\ Sits(f, g)
  BY <1>2 DEF Apart, Sits
<1>5. Calm(win, S, S \o <<f>>)
  BY <1>2, <1>3, <1>4, CalmPush DEF IsEntering
<1> QED
  BY <1>5 DEF f

LEMMA Three ==
    ASSUME NEW S \in Seq(FrameRec), NEW c \in Seq(FrameRec), NEW d \in Seq(FrameRec)
    PROVE  (S \o c) \o d = S \o (c \o d)
OBVIOUS

LEMMA CallsAre ==
    /\ \A x : x \in Win => ActiveCall(x) \in Seq(FrameRec)
    /\ \A h, m : m \in Messages => Send(h, m) \in Seq(FrameRec)
<1>1. Null \in HWND /\ Win \subseteq HWND
  BY Handles
<1>2. \A x : x \in Win => Frame("SetActiveWindow", "raise", x, Null) \in FrameRec
  <2>1. "SetActiveWindow" \in Fns /\ "raise" \in Stages \cup Messages
    BY DEF Fns, Stages
  <2> QED
    BY <1>1, <2>1, FrameIs DEF IsFrame
<1>3. \A h, m : h \in Win /\ m \in Messages => Frame("Proc", m, h, Null) \in FrameRec
  <2>1. "Proc" \in Fns
    BY DEF Fns
  <2> QED
    BY <1>1, <2>1, FrameIs DEF IsFrame
<1>4. \A x : x \in Win => ActiveCall(x) \in Seq(FrameRec)
  <2> TAKE x
  <2> HAVE x \in Win
  <2> DEFINE f == Frame("SetActiveWindow", "raise", x, Null)
  <2>1. f \in FrameRec
    BY <1>2
  <2>2. ActiveCall(x) = <<f>> \/ ActiveCall(x) = <<>>
    BY DEF ActiveCall
  <2> HIDE DEF f
  <2>3. <<f>> \in Seq(FrameRec) /\ <<>> \in Seq(FrameRec)
    BY <2>1
  <2> QED
    BY <2>2, <2>3
<1>5. \A h, m : m \in Messages => Send(h, m) \in Seq(FrameRec)
  <2> TAKE h, m
  <2> HAVE m \in Messages
  <2> DEFINE f == Frame("Proc", m, h, Null)
  <2>1. h \in Win => f \in FrameRec
    BY <1>3
  <2>2. (h \in Win /\ Send(h, m) = <<f>>) \/ Send(h, m) = <<>>
    BY DEF Send
  <2> HIDE DEF f
  <2>3. (h \in Win => <<f>> \in Seq(FrameRec)) /\ <<>> \in Seq(FrameRec)
    BY <2>1
  <2> QED
    BY <2>2, <2>3
<1> QED
  BY <1>4, <1>5

\* SetFocus calls for the window itself and for its top-level ancestor.
LEMMA Focusing ==
    ASSUME NEW S, Sound(obj, win, S), NEW h \in {Null} \cup Some(obj),
           h # Null => Safe(obj, win, TreeIn(obj, S), h)
    PROVE  Calm(win, S, S \o FocusCall(h))
<1> DEFINE f == Frame("SetFocus", "focus", h, Null)
           S2 == S \o <<f>>
           c == IF h # Null /\ IsWindow(h) THEN ActiveCall(GetTopLevelAncestor(h)) ELSE <<>>
           t == GetTopLevelAncestor(h)
<1>1. Calm(win, S, S2)
  BY FocusPush
<1>2. f \in FrameRec /\ <<f>> \in Seq(FrameRec)
  <2>1. h \in HWND /\ Null \in HWND /\ "SetFocus" \in Fns /\ "focus" \in Stages \cup Messages
    BY Handles DEF Fns, Stages, Some
  <2>2. f \in FrameRec
    BY <2>1, FrameIs DEF IsFrame
  <2> HIDE DEF f
  <2> QED
    BY <2>2
<1> HIDE DEF f, S2, t
<1>3. FocusCall(h) = <<f>> \o c
  BY DEF FocusCall, f, t
<1>4. S \in Seq(FrameRec) /\ Sound(obj, win, S2)
  BY <1>1 DEF Sound, Fits, Calm
<1>5. CASE h # Null /\ IsWindow(h)
  <2>1. h \in Win /\ IsWin(obj, h)
    BY <1>5, StateIs DEF Some
  <2>2. obj \in Objs /\ win \in Wins /\ Kinds(obj, win)
    BY DEF Sound, Tree
  <2>3. t \in Win /\ IsWin(obj, t) /\ h \in FamilyIn(obj, win, t)
    BY <2>1, <2>2, AncestorIs DEF t
  <2>4. Firm(obj, TreeIn(obj, S), t)
    BY <1>5, <2>3 DEF Safe
  <2>5. Calm(win, S2, S2 \o ActiveCall(t))
    BY <1>1, <1>4, <2>4, Activating DEF Calm
  <2>6. ActiveCall(t) \in Seq(FrameRec)
    BY <2>3, CallsAre
  <2>7. S2 \o ActiveCall(t) = S \o (<<f>> \o ActiveCall(t))
    BY <1>2, <1>4, <2>6, Three DEF S2
  <2>8. c = ActiveCall(t)
    BY <1>5 DEF t
  <2> HIDE DEF c
  <2> QED
    BY <1>1, <1>3, <2>5, <2>7, <2>8, CalmTwice
<1>6. CASE ~(h # Null /\ IsWindow(h))
  <2>1. c = <<>>
    BY <1>6
  <2> HIDE DEF c
  <2>2. <<f>> \o c = <<f>>
    BY <1>2, <2>1
  <2> QED
    BY <1>1, <1>3, <2>2 DEF S2
<1> QED
  BY <1>5, <1>6

\* SendDestroyMessages is called.
LEMMA Telling ==
    ASSUME NEW S, Sound(obj, win, S), NEW h \in HWND
    PROVE  Calm(win, S, S \o TellCall(h))
<1> DEFINE f == Frame("SendDestroyMessages", "first", h, Null)
           S2 == S \o <<f>>
           m == "WM_DESTROY"
<1>1. IsFrame(f, "SendDestroyMessages", "first", h, Null)
  <2>1. Null \in HWND /\ "SendDestroyMessages" \in Fns /\ "first" \in Stages \cup Messages
    BY Handles DEF Fns, Stages
  <2> QED
    BY <2>1, FrameIs
<1>2. m \in Messages /\ Ready(S2, m)
  BY DEF Messages, Ready
<1> HIDE DEF f, m
<1>3. f \in FrameRec /\ f.fn = "SendDestroyMessages"
  BY <1>1 DEF IsFrame
<1>4. Good(obj, win, TreeIn(obj, S), f)
  BY <1>3 DEF Good, GoodCreate, GoodPlace, GoodEnd, IsEntering
<1>5. \A g : Apart(obj, win, f, g) /\ Sits(f, g)
  BY <1>3 DEF Apart, Sits
<1>6. Calm(win, S, S2)
  BY <1>3, <1>4, <1>5, CalmPush DEF IsEntering
<1>7. S \in Seq(FrameRec) /\ Sound(obj, win, S2) /\ <<f>> \in Seq(FrameRec)
  BY <1>3, <1>6 DEF Sound, Fits, Calm
<1> HIDE DEF S2
<1>8. Calm(win, S2, S2 \o Send(h, m))
  BY <1>2, <1>7, Sending
<1>9. S2 \o Send(h, m) = S \o (<<f>> \o Send(h, m))
  BY <1>2, <1>7, CallsAre, Three DEF S2
<1>10. TellCall(h) = <<f>> \o Send(h, m)
  BY DEF TellCall, f, m
<1> QED
  BY <1>6, <1>8, <1>9, <1>10, CalmTwice

----------------------------------------------------------------------------
(* The frame on top goes on *)

Moved(at, next) == [Top EXCEPT !.at = at, !.next = next]
On(at, next) == Front(stack) \o <<Moved(at, next)>>

LEMMA ThenIs == \A at, next, c : Then(at, next, c) = On(at, next) \o c
BY DEF Then, On, Moved

IsMoved(g, f, a, v) ==
    /\ g \in FrameRec /\ g.fn = f.fn /\ g.at = a /\ g.hWnd = f.hWnd /\ g.next = v
    /\ g.refused = f.refused

LEMMA MovedIs ==
    ASSUME NEW f \in FrameRec, NEW a \in Stages \cup Messages, NEW v \in HWND
    PROVE  IsMoved([f EXCEPT !.at = a, !.next = v], f, a, v)
BY DEF FrameRec, IsMoved

\* What it relies on, it goes on to rely on.
LEMMA GoodOn ==
    ASSUME NEW O, NEW W, NEW T, NEW f \in FrameRec, Good(O, W, T, f), NEW g \in FrameRec,
           g.fn = f.fn, g.hWnd = f.hWnd,
           f.fn # "SetWindowPos", f.fn = "FreeWindow" => f.at # "children" /\ g.at # "children",
           f.fn = "SetFocus" => g.at # "focus",
           f.fn = "CreateWindowEx" => f.at # "insert" /\ g.at \notin {"insert", "nccreate"}
    PROVE  Good(O, W, T, g)
<1>1. ~IsEntering(f) /\ ~IsEntering(g)
  BY DEF IsEntering
<1>2. GoodCreate(O, W, T, g)
  BY <1>1 DEF GoodCreate
<1>3. GoodPlace(O, W, T, g)
  BY <1>1 DEF Good, GoodPlace
<1>4. GoodEnd(O, W, T, g)
  BY DEF Good, GoodEnd
<1> QED
  BY <1>2, <1>3, <1>4 DEF Good

\* The stack, taken apart.
LEMMA Stacked ==
    ASSUME NEW W, Sound(obj, W, stack), stack # <<>>
    PROVE  /\ stack \in Seq(FrameRec) /\ Top \in FrameRec /\ Good(obj, W, TreeIn(obj, stack), Top)
           /\ w = Top.hWnd /\ Top = Last(stack) /\ w \in HWND /\ Top.next \in HWND
           /\ Front(stack) \in Seq(FrameRec) /\ stack = Append(Front(stack), Top)
           /\ Len(stack) \in DOMAIN stack /\ stack[Len(stack)] = Top
<1>1. stack \in Seq(FrameRec)
  BY DEF Sound, Fits
<1>2. /\ Front(stack) \in Seq(FrameRec) /\ Top \in FrameRec /\ stack = Append(Front(stack), Top)
      /\ Top = stack[Len(stack)] /\ Len(stack) \in Nat \ {0}
  BY <1>1, FrontOf DEF Top
<1>3. Len(stack) \in DOMAIN stack
  BY <1>1, <1>2
<1>4. Good(obj, W, TreeIn(obj, stack), Top)
  BY <1>2, <1>3 DEF Sound, Fits
<1>5. Top.hWnd \in HWND /\ Top.next \in HWND
  BY <1>2 DEF FrameRec
<1> QED
  BY <1>1, <1>2, <1>3, <1>4, <1>5 DEF w, Top

LEMMA GoesOnGood ==
    ASSUME NEW W, Sound(obj, W, stack), stack # <<>>, NEW at \in Stages \cup Messages, NEW next \in HWND,
           Good(obj, W, TreeIn(obj, stack), Moved(at, next)),
           ~IsEntering(Top), ~IsEntering(Moved(at, next)), Top.fn = "Proc" => at = Top.at
    PROVE  /\ Calm(W, stack, On(at, next)) /\ On(at, next) # <<>>
           /\ On(at, next)[Len(On(at, next))] = Moved(at, next) /\ On(at, next) \in Seq(FrameRec)
<1>1. /\ stack \in Seq(FrameRec) /\ Top \in FrameRec /\ Front(stack) \in Seq(FrameRec) /\ Top = Last(stack)
  BY Stacked
<1>2. /\ Moved(at, next) \in FrameRec /\ Moved(at, next).fn = Top.fn /\ Moved(at, next).hWnd = Top.hWnd
      /\ Moved(at, next).at = at
  <2>1. IsMoved(Moved(at, next), Top, at, next)
    BY <1>1, MovedIs DEF Moved
  <2> QED
    BY <2>1 DEF IsMoved
<1> DEFINE g == Moved(at, next)
<1> HIDE DEF g
<1>3. On(at, next) = Append(Front(stack), g)
  BY <1>1, <1>2, Joined DEF On, g
<1>4. Sound(obj, W, Append(Front(stack), g)) /\ TreeIn(obj, Append(Front(stack), g)) = TreeIn(obj, stack)
  BY <1>1, <1>2, SoundAdvance DEF g
<1>5. /\ Append(Front(stack), g) # <<>> /\ Append(Front(stack), g) \in Seq(FrameRec)
      /\ Append(Front(stack), g)[Len(Append(Front(stack), g))] = g
  BY <1>1, <1>2, Appended DEF g
<1> QED
  BY <1>3, <1>4, <1>5 DEF Calm, g

LEMMA GoesOn ==
    ASSUME NEW W, Sound(obj, W, stack), stack # <<>>, NEW at \in Stages, NEW next \in HWND,
           Top.fn \notin {"SetWindowPos", "Proc"},
           Top.fn = "FreeWindow" => Top.at # "children" /\ at # "children",
           Top.fn = "SetFocus" => at # "focus",
           Top.fn = "CreateWindowEx" => Top.at # "insert" /\ at \notin {"insert", "nccreate"}
    PROVE  /\ Calm(W, stack, On(at, next)) /\ On(at, next) # <<>>
           /\ On(at, next)[Len(On(at, next))] = Moved(at, next) /\ On(at, next) \in Seq(FrameRec)
<1>1. Top \in FrameRec /\ Good(obj, W, TreeIn(obj, stack), Top)
  BY Stacked
<1>2. /\ Moved(at, next) \in FrameRec /\ Moved(at, next).fn = Top.fn /\ Moved(at, next).hWnd = Top.hWnd
      /\ Moved(at, next).at = at
  <2>1. IsMoved(Moved(at, next), Top, at, next)
    BY <1>1, MovedIs DEF Moved
  <2> QED
    BY <2>1 DEF IsMoved
<1> DEFINE g == Moved(at, next)
<1> HIDE DEF g
<1>3. Good(obj, W, TreeIn(obj, stack), g)
  BY <1>1, <1>2, GoodOn DEF g
<1>4. ~IsEntering(Top) /\ ~IsEntering(g)
  BY <1>2 DEF IsEntering, g
<1> QED
  BY <1>3, <1>4, GoesOnGood DEF g

----------------------------------------------------------------------------
(* Links that change, and what the calls under way rely on *)

SameLinks(W, R, x) ==
    /\ R[x].hWndSibling = W[x].hWndSibling /\ R[x].hWndChild = W[x].hWndChild
    /\ R[x].hWndLastChild = W[x].hWndLastChild

\* There may be more windows in the tree.
LEMMA GoodMore ==
    ASSUME NEW O, NEW W, NEW R, Kin(W, R), NEW T, NEW T2, T \subseteq T2, T2 \subseteq Win,
           NEW f, Good(O, W, T, f),
           IsEntering(f) => SameLinks(W, R, f.hWnd),
           f.fn = "FreeWindow" => /\ Members(W, T2, f.hWnd) = Members(W, T, f.hWnd)
                                  /\ \A x \in Members(W, T, f.hWnd) : R[x].hWndSibling = W[x].hWndSibling
    PROVE  Good(O, R, T2, f)
<1> DEFINE y == f.hWnd
<1>1. /\ OverIn(O, R) = OverIn(O, W) /\ \A h : FamilyIn(O, R, h) = FamilyIn(O, W, h)
      /\ \A x \in Win : ParentIn(R, x) = ParentIn(W, x)
      /\ \A M, q : M \subseteq Win => Members(R, M, q) = Members(W, M, q)
  BY OverKin
<1>2. \A x : Firm(O, T, x) => Firm(O, T2, x)
  BY DEF Firm
<1>3. GoodCreate(O, W, T, f) /\ GoodPlace(O, W, T, f) /\ GoodEnd(O, W, T, f)
  BY DEF Good
<1>4. GoodCreate(O, R, T2, f)
  <2>1. IsEntering(f) => y \in Win
    BY <1>3 DEF GoodCreate, KnownIn
  <2> QED
    BY <1>1, <1>3, <2>1 DEF GoodCreate, SameLinks
<1>5. GoodPlace(O, R, T2, f)
  <2>1. ASSUME f.fn \in {"CreateWindowEx", "SetActiveWindow", "SetWindowPos", "DestroyWindow"}, ~IsEntering(f)
        PROVE  y \in T2 /\ y \in Win /\ ParentIn(R, y) = ParentIn(W, y) /\ ParentIn(R, y) \in {Root} \cup T2
    BY <1>1, <1>3, <2>1 DEF GoodPlace
  <2>2. ASSUME f.fn = "SetWindowPos"
        PROVE  f.next \in {Null, Root} \cup Members(R, T2, ParentIn(R, y))
    <3>1. ~IsEntering(f) /\ ParentIn(R, y) = ParentIn(W, y)
      BY <2>1, <2>2 DEF IsEntering
    <3>2. Members(W, T, ParentIn(W, y)) \subseteq Members(R, T2, ParentIn(W, y))
      BY <1>1 DEF Members
    <3> QED
      BY <1>3, <2>2, <3>1, <3>2 DEF GoodPlace
  <2> QED
    BY <2>1, <2>2 DEF GoodPlace
<1>6. GoodEnd(O, R, T2, f)
  <2>1. ASSUME f.fn = "FreeWindow"
        PROVE  /\ y \in KnownIn(O) /\ Firm(O, T2, R[y].hWndOwner)
               /\ IF f.at = "children" THEN \E c : Chain(c, R, f.next) /\ Elements(c) = Members(R, T2, y)
                  ELSE Members(R, T2, y) = {}
    <3>1. Members(R, T2, y) = Members(W, T, y)
      BY <1>1, <2>1
    <3>2. y \in KnownIn(O) /\ y \in Win /\ Firm(O, T, W[y].hWndOwner)
      BY <1>3, <2>1 DEF GoodEnd, KnownIn
    <3>3. R[y].hWndOwner = W[y].hWndOwner
      BY <3>2 DEF Kin, Window
    <3>4. ASSUME f.at = "children" PROVE \E c : Chain(c, R, f.next) /\ Elements(c) = Members(R, T2, y)
      <4>1. PICK c : Chain(c, W, f.next) /\ Elements(c) = Members(W, T, y)
        BY <1>3, <2>1, <3>4 DEF GoodEnd
      <4>2. \A x \in Elements(c) : R[x].hWndSibling = W[x].hWndSibling
        BY <2>1, <4>1
      <4>3. Chain(c, R, f.next)
        BY <4>1, <4>2, SameChain
      <4> QED
        BY <3>1, <4>1, <4>3
    <3>5. f.at # "children" => Members(R, T2, y) = {}
      BY <1>3, <2>1, <3>1 DEF GoodEnd
    <3> QED
      BY <1>2, <3>2, <3>3, <3>4, <3>5
  <2>3. f.fn = "DestroyWindow" => \A a \in Win : y \in FamilyIn(O, R, a) => Firm(O, T2, a)
    BY <1>1, <1>2, <1>3 DEF GoodEnd
  <2> QED
    BY <2>1, <2>3 DEF GoodEnd
<1> QED
  BY <1>4, <1>5, <1>6 DEF Good

\* One window less is in the tree: n, with whose family no call is at work.
Clear(O, W, f, n) ==
    /\ Busy(f) => f.hWnd \notin FamilyIn(O, W, n)
    /\ f.fn = "SetWindowPos" => f.next \notin FamilyIn(O, W, n)

LEMMA OverParent ==
    ASSUME NEW O, NEW W \in Wins, O \in Objs, NEW n \in Win, NEW y \in Win, IsWin(O, y),
           y \notin FamilyIn(O, W, n)
    PROVE  /\ y # n /\ OverIn(O, W)[y] # n /\ ParentIn(W, y) # n
           /\ Kinds(O, W) => W[y].hWndOwner # n
<1>1. OverIn(O, W) \in Links /\ EndsOut(OverIn(O, W)) /\ y \in HWND
  BY OverEnds, Handles
<1>2. n \in FamilyIn(O, W, n)
  BY <1>1, UnderSelf DEF FamilyIn
<1>3. OverIn(O, W)[y] # n
  BY <1>1, <1>2, UnderClosed DEF FamilyIn
<1>4. W[y].kind = "child" => OverIn(O, W)[y] = W[y].hWndParent
  BY <1>1 DEF OverIn
<1>5. W[y].kind # "child" => OverIn(O, W)[y] = W[y].hWndOwner
  BY <1>1 DEF OverIn
<1>6. Kinds(O, W) /\ W[y].kind = "child" => W[y].hWndOwner = Null
  <2>1. O[y] \in Alive
    BY Handles DEF IsWin
  <2> QED
    BY <2>1 DEF Kinds
<1>7. n # Root /\ n # Null
  BY Handles
<1> QED
  BY <1>2, <1>3, <1>4, <1>5, <1>6, <1>7 DEF ParentIn

LEMMA GoodLess ==
    ASSUME NEW O \in Objs, NEW W \in Wins, NEW R, Kin(W, R), Kinds(O, W), NEW T, T \subseteq KnownIn(O),
           NEW n \in T, NEW f, Good(O, W, T, f), Clear(O, W, f, n),
           IsEntering(f) => SameLinks(W, R, f.hWnd),
           f.fn = "FreeWindow" => /\ ParentIn(W, n) # f.hWnd
                                  /\ \A x \in Members(W, T, f.hWnd) : R[x].hWndSibling = W[x].hWndSibling
    PROVE  Good(O, R, T \ {n}, f)
<1> DEFINE y == f.hWnd
           T2 == T \ {n}
<1>1. /\ OverIn(O, R) = OverIn(O, W) /\ \A h : FamilyIn(O, R, h) = FamilyIn(O, W, h)
      /\ \A x \in Win : ParentIn(R, x) = ParentIn(W, x)
      /\ \A M, q : M \subseteq Win => Members(R, M, q) = Members(W, M, q)
  BY OverKin
<1>2. \A x : Firm(O, T, x) /\ x # n => Firm(O, T2, x)
  BY DEF Firm
<1>3. GoodCreate(O, W, T, f) /\ GoodPlace(O, W, T, f) /\ GoodEnd(O, W, T, f)
  BY DEF Good
<1>4. /\ T \subseteq Win /\ T2 \subseteq Win /\ n \in Win /\ \A x \in KnownIn(O) : x \in Win /\ IsWin(O, x)
      /\ n \in FamilyIn(O, W, n)
  <2>1. n \in Win
    BY DEF KnownIn
  <2> QED
    BY <2>1, OverEnds, UnderSelf DEF KnownIn, IsWin, Alive, FamilyIn
<1>5. ASSUME Busy(f), y \in KnownIn(O)
      PROVE  y # n /\ ParentIn(W, y) # n /\ W[y].hWndOwner # n
  BY <1>4, <1>5, OverParent DEF Clear
<1>6. f.fn \in {"CreateWindowEx", "SetActiveWindow", "SetWindowPos", "DestroyWindow", "FreeWindow", "SetFocus"} => Busy(f)
  BY DEF Busy
<1> HIDE DEF T2
<1>7. GoodCreate(O, R, T2, f)
  <2>1. IsEntering(f) => f.fn = "CreateWindowEx"
    BY DEF IsEntering
  <2>2. ASSUME IsEntering(f)
        PROVE  /\ y \in KnownIn(O) /\ ParentIn(R, y) \in {Root} \cup T2
               /\ R[y].hWndSibling = Null /\ R[y].hWndChild = Null /\ R[y].hWndLastChild = Null
               /\ \A x \in Win : OverIn(O, R)[x] # y
    <3>1. /\ y \in KnownIn(O) /\ ParentIn(W, y) \in {Root} \cup T
          /\ W[y].hWndSibling = Null /\ W[y].hWndChild = Null /\ W[y].hWndLastChild = Null
          /\ \A x \in Win : OverIn(O, W)[x] # y
      BY <1>3, <2>2 DEF GoodCreate
    <3>2. ParentIn(W, y) # n
      BY <1>5, <1>6, <2>1, <2>2, <3>1
    <3> QED
      BY <1>1, <1>4, <2>2, <3>1, <3>2 DEF T2, SameLinks
  <2> QED
    BY <1>3, <2>2 DEF GoodCreate
<1>8. GoodPlace(O, R, T2, f)
  <2>1. ASSUME f.fn \in {"CreateWindowEx", "SetActiveWindow", "SetWindowPos", "DestroyWindow"}, ~IsEntering(f)
        PROVE  y \in T2 /\ y \in Win /\ ParentIn(R, y) = ParentIn(W, y) /\ ParentIn(R, y) \in {Root} \cup T2
    <3>1. y \in T /\ ParentIn(W, y) \in {Root} \cup T
      BY <1>3, <2>1 DEF GoodPlace
    <3>2. y # n /\ ParentIn(W, y) # n
      BY <1>5, <1>6, <2>1, <3>1
    <3> QED
      BY <1>1, <1>4, <3>1, <3>2 DEF T2
  <2>2. ASSUME f.fn = "SetWindowPos"
        PROVE  f.next \in {Null, Root} \cup Members(R, T2, ParentIn(R, y))
    <3>1. ~IsEntering(f) /\ ParentIn(R, y) = ParentIn(W, y)
      BY <2>1, <2>2 DEF IsEntering
    <3>2. f.next # n
      BY <1>4, <2>2 DEF Clear
    <3>3. Members(W, T, ParentIn(W, y)) \ {n} \subseteq Members(R, T2, ParentIn(W, y))
      BY <1>1, <1>4 DEF Members, T2
    <3> QED
      BY <1>3, <2>2, <3>1, <3>2, <3>3 DEF GoodPlace
  <2> QED
    BY <2>1, <2>2 DEF GoodPlace
<1>9. GoodEnd(O, R, T2, f)
  <2>1. ASSUME f.fn = "FreeWindow"
        PROVE  /\ y \in KnownIn(O) /\ Firm(O, T2, R[y].hWndOwner)
               /\ IF f.at = "children" THEN \E c : Chain(c, R, f.next) /\ Elements(c) = Members(R, T2, y)
                  ELSE Members(R, T2, y) = {}
    <3>1. Members(R, T2, y) = Members(W, T, y)
      BY <1>1, <1>4, <2>1 DEF Members, T2
    <3>2. y \in KnownIn(O) /\ y \in Win /\ Firm(O, T, W[y].hWndOwner)
      BY <1>3, <2>1 DEF GoodEnd, KnownIn
    <3>3. R[y].hWndOwner = W[y].hWndOwner /\ W[y].hWndOwner # n
      BY <1>5, <1>6, <2>1, <3>2 DEF Kin, Window
    <3>4. ASSUME f.at = "children" PROVE \E c : Chain(c, R, f.next) /\ Elements(c) = Members(R, T2, y)
      <4>1. PICK c : Chain(c, W, f.next) /\ Elements(c) = Members(W, T, y)
        BY <1>3, <2>1, <3>4 DEF GoodEnd
      <4>2. \A x \in Elements(c) : R[x].hWndSibling = W[x].hWndSibling
        BY <2>1, <4>1
      <4>3. Chain(c, R, f.next)
        BY <4>1, <4>2, SameChain
      <4> QED
        BY <3>1, <4>1, <4>3
    <3>5. f.at # "children" => Members(R, T2, y) = {}
      BY <1>3, <2>1, <3>1 DEF GoodEnd
    <3> QED
      BY <1>2, <3>2, <3>3, <3>4, <3>5
  <2>3. ASSUME f.fn = "DestroyWindow", NEW a \in Win, y \in FamilyIn(O, R, a) PROVE Firm(O, T2, a)
    <3>1. y \in FamilyIn(O, W, a) /\ y \notin FamilyIn(O, W, n)
      BY <1>1, <1>6, <2>3 DEF Clear
    <3>2. a # n /\ Firm(O, T, a)
      BY <1>3, <2>3, <3>1 DEF GoodEnd
    <3> QED
      BY <1>2, <3>2
  <2> QED
    BY <2>1, <2>3 DEF GoodEnd
<1>10. f.fn # "SendDestroyMessages" => f.hWnd \in {Null} \cup Some(O)
  BY DEF Good
<1>11. Good(O, R, T2, f)
  BY <1>7, <1>8, <1>9, <1>10 DEF Good
<1> QED
  BY <1>11 DEF T2

LEMMA ApartKin ==
    ASSUME NEW O, NEW W, NEW R, Kin(W, R), NEW f, NEW g, Apart(O, W, f, g)
    PROVE  Apart(O, R, f, g)
<1>1. \A h : FamilyIn(O, R, h) = FamilyIn(O, W, h) /\ FamilyIn(O, W, h) \subseteq Win
  BY OverKin DEF FamilyIn, Under
<1>2. g.hWnd \in Win => R[g.hWnd].kind = W[g.hWnd].kind
  BY DEF Kin, Window
<1> QED
  BY <1>1, <1>2 DEF Apart

LEMMA TouchesNone ==
    ASSUME NEW W, NEW R, NEW T, NEW p \in {Root} \cup T, Touches(W, R, T, p), NEW y \in Win, y \notin T
    PROVE  /\ SameLinks(W, R, y)
           /\ T \subseteq Win => \A x \in Members(W, T, y) : R[x].hWndSibling = W[x].hWndSibling
<1>1. y # p /\ y \in Window
  BY Handles DEF Window
<1>2. y \notin Members(W, T, p)
  BY DEF Members
<1>3. ASSUME T \subseteq Win, NEW x \in Members(W, T, y) PROVE R[x].hWndSibling = W[x].hWndSibling
  <2>1. x \in Win /\ x \notin Members(W, T, p)
    BY <1>1, <1>3 DEF Members
  <2> QED
    BY <2>1 DEF Touches
<1> QED
  BY <1>1, <1>2, <1>3 DEF Touches, SameLinks

\* Windows that come or go are not in the tree.
Outside(T, S) == \A i \in DOMAIN S : IsEntering(S[i]) \/ S[i].fn = "FreeWindow" => S[i].hWnd \in Win \ T

LEMMA FitsMore ==
    ASSUME NEW O, NEW W, NEW R, Kin(W, R), NEW T, NEW T2, T \subseteq T2, T2 \subseteq Win, NEW S,
           Fits(O, W, T, S), Outside(T, S), NEW p \in {Root} \cup T, Touches(W, R, T, p),
           \A i \in DOMAIN S : S[i].fn = "FreeWindow" => Members(W, T2, S[i].hWnd) = Members(W, T, S[i].hWnd)
    PROVE  Fits(O, R, T2, S)
<1>1. \A i \in DOMAIN S : Good(O, R, T2, S[i])
  <2> TAKE i \in DOMAIN S
  <2>1. Good(O, W, T, S[i])
    BY DEF Fits
  <2>2. IsEntering(S[i]) => SameLinks(W, R, S[i].hWnd)
    BY TouchesNone DEF Outside
  <2>3. S[i].fn = "FreeWindow" => /\ Members(W, T2, S[i].hWnd) = Members(W, T, S[i].hWnd)
                                  /\ \A x \in Members(W, T, S[i].hWnd) : R[x].hWndSibling = W[x].hWndSibling
    BY TouchesNone DEF Outside
  <2> QED
    BY <2>1, <2>2, <2>3, GoodMore
<1>2. \A i \in DOMAIN S : \A k \in 1 .. i - 1 : Apart(O, R, S[i], S[k])
  BY ApartKin DEF Fits
<1> QED
  BY <1>1, <1>2 DEF Fits

LEMMA FitsLess ==
    ASSUME NEW O \in Objs, NEW W \in Wins, NEW R, Kin(W, R), Kinds(O, W), NEW T, T \subseteq KnownIn(O),
           NEW n \in T, NEW S, Fits(O, W, T, S), Outside(T, S), NEW p \in {Root} \cup T, Touches(W, R, T, p),
           \A i \in DOMAIN S : Clear(O, W, S[i], n),
           \A i \in DOMAIN S : S[i].fn = "FreeWindow" => ParentIn(W, n) # S[i].hWnd
    PROVE  Fits(O, R, T \ {n}, S)
<1>0. T \subseteq Win
  BY DEF KnownIn
<1>1. \A i \in DOMAIN S : Good(O, R, T \ {n}, S[i])
  <2> TAKE i \in DOMAIN S
  <2>1. Good(O, W, T, S[i])
    BY DEF Fits
  <2>2. IsEntering(S[i]) => SameLinks(W, R, S[i].hWnd)
    BY TouchesNone DEF Outside
  <2>3. S[i].fn = "FreeWindow" => /\ ParentIn(W, n) # S[i].hWnd
                                  /\ \A x \in Members(W, T, S[i].hWnd) : R[x].hWndSibling = W[x].hWndSibling
    BY <1>0, TouchesNone DEF Outside
  <2> QED
    BY <2>1, <2>2, <2>3, GoodLess
<1>2. \A i \in DOMAIN S : \A k \in 1 .. i - 1 : Apart(O, R, S[i], S[k])
  BY ApartKin DEF Fits
<1> QED
  BY <1>1, <1>2 DEF Fits

LEMMA KindsKin ==
    ASSUME NEW O, NEW W, NEW R, Kin(W, R), Kinds(O, W)
    PROVE  Kinds(O, R)
<1>1. OverIn(O, R) = OverIn(O, W)
  BY OverKin
<1>2. \A x \in Window : /\ R[x].kind = W[x].kind /\ R[x].hWndParent = W[x].hWndParent
                        /\ R[x].hWndOwner = W[x].hWndOwner
  BY DEF Kin
<1>3. Root \in Window /\ Win \subseteq Window /\ KnownIn(O) \subseteq Window
  BY DEF Window, KnownIn
<1> QED
  BY <1>1, <1>2, <1>3 DEF Kinds

LEMMA OutsideTree ==
    ASSUME NEW O, NEW W, NEW S, Sound(O, W, S)
    PROVE  Outside(TreeIn(O, S), S)
<1> SUFFICES ASSUME NEW i \in DOMAIN S, IsEntering(S[i]) \/ S[i].fn = "FreeWindow"
             PROVE  S[i].hWnd \in Win \ TreeIn(O, S)
  BY DEF Outside
<1>1. Good(O, W, TreeIn(O, S), S[i])
  BY DEF Sound, Fits
<1>2. S[i].hWnd \in Win
  BY <1>1 DEF Good, GoodCreate, GoodEnd, KnownIn
<1>3. S[i].hWnd \in EnteringIn(S) \cup FreedIn(S)
  BY DEF EnteringIn, FreedIn
<1> QED
  BY <1>2, <1>3 DEF TreeIn

----------------------------------------------------------------------------
(* A window gets another place *)

\* The tree has the lists C.
Has(C, W, T) == Lists(C, W, {Root} \cup T, T)

\* h has another place in its list, or the same.
Placed(W, R, T, h) ==
    \E C : /\ Has(C, W, T)
           /\ \/ Has(C, R, T)
              \/ \E p \in {Root} \cup T : \E k \in DOMAIN C[p], j \in DOMAIN C[p] :
                    C[p][k] = h /\ Has(Replaced(C, p, k, j, h), R, T)

LEMMA FreedOutside ==
    ASSUME NEW T, NEW F, NEW p, p \in {Root} \cup T, NEW q \in Win, q \notin T
    PROVE  p # q
BY Handles

LEMMA Reordered ==
    ASSUME Sound(obj, win, stack), NEW h \in TreeIn(obj, stack),
           ParentIn(win, h) \in {Root} \cup TreeIn(obj, stack),
           NEW after \in {Null, Root} \cup Members(win, TreeIn(obj, stack), ParentIn(win, h))
    PROVE  LET R == ChangeZOrder(h, after) IN
           /\ CanFindPrev(h)
           /\ Sound(obj, R, stack) /\ Kin(win, R) /\ Placed(win, R, TreeIn(obj, stack), h)
<1> DEFINE T == TreeIn(obj, stack)
           F == FreedIn(stack)
           p == ParentIn(win, h)
           R == ChangeZOrder(h, after)
<1>1. /\ T \subseteq KnownIn(obj) /\ T \subseteq Win /\ Outside(T, stack) /\ h \in Win
  BY TreeKnown, OutsideTree
<1> HIDE DEF T, F, R
<1>2. Tree(obj, win, T, F) /\ Fits(obj, win, T, stack) /\ h \in T /\ p \in {Root} \cup T
  BY DEF Sound, T, F
<1>3. PICK C : Lists(C, win, {Root} \cup T, T)
  BY <1>2 DEF Tree
<1>4. Now(C, {Root} \cup T, T)
  BY <1>1, <1>2, <1>3, NowTree
<1>5. PICK k \in DOMAIN C[p] : C[p][k] = h
  BY <1>2, <1>4, PlaceOf
<1>6. CanFindPrev(h)
  BY <1>2, <1>4, <1>5, Unlinking
<1>7. after \in {Null, Root} \cup Members(win, T, p)
  BY DEF T
<1> HIDE DEF p
<1>8. p = ParentIn(win, h)
  BY DEF p
<1>9. R = win \/ \E j \in DOMAIN C[p] : Relinked(Replaced(C, p, k, j, h), R, {Root} \cup T, T, p)
  BY <1>2, <1>4, <1>5, <1>7, <1>8, Reordering DEF R
<1>10. CASE R = win
  <2>1. Placed(win, R, T, h)
    BY <1>3, <1>10 DEF Placed, Has
  <2>2. Sound(obj, R, stack) /\ Kin(win, R)
    BY <1>10 DEF Kin
  <2> QED
    BY <1>6, <2>1, <2>2 DEF R, T
<1>11. CASE R # win
  <2>1. PICK j \in DOMAIN C[p] : Relinked(Replaced(C, p, k, j, h), R, {Root} \cup T, T, p)
    BY <1>9, <1>11
  <2> DEFINE D == Replaced(C, p, k, j, h)
  <2> HIDE DEF D
  <2>2. /\ R \in Wins /\ Kin(win, R) /\ SameLast(win, R) /\ SameGroups(win, R)
        /\ Lists(D, R, {Root} \cup T, T) /\ Touches(win, R, T, p)
    BY <2>1 DEF Relinked, Touches, SameLast, D
  <2>3. Placed(win, R, T, h)
    BY <1>2, <1>3, <1>5, <2>2 DEF Placed, Has, D
  <2>4. /\ OverIn(obj, R) = OverIn(obj, win) /\ \A x \in Win : ParentIn(R, x) = ParentIn(win, x)
        /\ \A q : Members(R, T, q) = Members(win, T, q)
    BY <1>1, <2>2, OverKin
  <2>5. Groups(R, {Root} \cup T, T)
    <3> SUFFICES ASSUME NEW q \in {Root} \cup T
                 PROVE  R[q].hWndLastChild \in {Null} \cup Members(R, T, q) /\ Rings(Members(R, T, q), R)
      BY DEF Groups
    <3>1. q \in Window /\ Members(win, T, q) \subseteq Window
      BY <1>1 DEF Window, Members
    <3>2. win[q].hWndLastChild \in {Null} \cup Members(win, T, q) /\ Rings(Members(win, T, q), win)
      BY <1>2 DEF Tree, Groups
    <3>3. Rings(Members(win, T, q), R)
      BY <2>2, <3>1, <3>2, RingsSame DEF SameGroups
    <3> QED
      BY <2>2, <2>4, <3>1, <3>2, <3>3 DEF SameLast
  <2>6. Tree(obj, R, T, F)
    <3>1. Kinds(obj, R) /\ NoCycle(OverIn(obj, R)) /\ \A x \in T : ParentIn(R, x) \in {Root} \cup T \cup F
      BY <1>1, <1>2, <2>2, <2>4, KindsKin DEF Tree
    <3> QED
      BY <1>2, <2>2, <2>5, <3>1 DEF Tree
  <2>7. Fits(obj, R, T, stack)
    BY <1>1, <1>2, <2>2, FitsMore
  <2>8. Sound(obj, R, stack)
    BY <2>6, <2>7 DEF Sound, T, F
  <2> QED
    BY <1>6, <2>2, <2>3, <2>8 DEF R, T
<1> QED
  BY <1>10, <1>11

----------------------------------------------------------------------------
(* What no link, parent or owner depends on *)

SameBut(W, R, x) ==
    /\ R[x].kind = W[x].kind /\ R[x].hWndParent = W[x].hWndParent /\ R[x].hWndOwner = W[x].hWndOwner
    /\ SameLinks(W, R, x) /\ R[x].hWndGroup = W[x].hWndGroup

Alike(O, W, R, S) ==
    R \in Wins /\ \A x \in Window : IsWin(O, x) \/ x \in HeldIn(S) => SameBut(W, R, x)

LEMMA SoundAlike ==
    ASSUME NEW O, NEW W, NEW S, Sound(O, W, S), NEW R, Alike(O, W, R, S)
    PROVE  /\ Sound(O, R, S)
           /\ \A C : Has(C, W, TreeIn(O, S)) => Has(C, R, TreeIn(O, S))
<1> DEFINE T == TreeIn(O, S)
           F == FreedIn(S)
           P == {Root} \cup T
<1>1. /\ T \subseteq KnownIn(O) /\ T \subseteq Win /\ Outside(T, S)
      /\ \A x \in KnownIn(O) : IsWin(O, x) /\ x \in Win
      /\ IsWin(O, Root) /\ \A x \in T : IsWin(O, x)
  BY TreeKnown, OutsideTree DEF KnownIn, IsWin, Alive
<1> HIDE DEF T, F
<1>2. Tree(O, W, T, F) /\ Fits(O, W, T, S)
  BY DEF Sound, T, F
<1>3. /\ \A x \in P : SameBut(W, R, x) /\ x \in Window
      /\ \A x \in KnownIn(O) : SameBut(W, R, x)
      /\ \A x \in Win : IsWin(O, x) => SameBut(W, R, x)
  BY <1>1 DEF Alike, Window
<1> HIDE DEF P
<1>4. OverIn(O, R) = OverIn(O, W) /\ \A h : FamilyIn(O, R, h) = FamilyIn(O, W, h)
  <2>1. OverIn(O, R) = OverIn(O, W)
    BY <1>3 DEF OverIn, SameBut
  <2> QED
    BY <2>1 DEF FamilyIn
<1>5. /\ \A x \in KnownIn(O) : ParentIn(R, x) = ParentIn(W, x)
      /\ \A q : Members(R, T, q) = Members(W, T, q)
  <2>1. \A x \in KnownIn(O) : ParentIn(R, x) = ParentIn(W, x)
    BY <1>3 DEF ParentIn, SameBut
  <2> QED
    BY <1>1, <2>1 DEF Members
<1>6. \A x \in KnownIn(O) : R[x].hWndSibling = W[x].hWndSibling /\ R[x].hWndGroup = W[x].hWndGroup
  BY <1>3 DEF SameBut, SameLinks
<1>7. \A x \in P : R[x].hWndChild = W[x].hWndChild /\ R[x].hWndLastChild = W[x].hWndLastChild
  BY <1>3 DEF SameBut, SameLinks
<1>8. ASSUME NEW C, Lists(C, W, P, T) PROVE Lists(C, R, P, T)
  <2> SUFFICES ASSUME NEW q \in P PROVE Chain(C[q], R, R[q].hWndChild) /\ Elements(C[q]) = Members(R, T, q)
    BY <1>8 DEF Lists
  <2>1. Chain(C[q], W, W[q].hWndChild) /\ Elements(C[q]) = Members(W, T, q)
    BY <1>8 DEF Lists
  <2>2. \A x \in Elements(C[q]) : x \in KnownIn(O)
    BY <1>1, <2>1 DEF Members
  <2>3. Chain(C[q], R, W[q].hWndChild)
    BY <1>6, <2>1, <2>2, SameChain
  <2> QED
    BY <1>5, <1>7, <2>1, <2>3
<1>9. Groups(R, P, T)
  <2> SUFFICES ASSUME NEW q \in P
               PROVE  R[q].hWndLastChild \in {Null} \cup Members(R, T, q) /\ Rings(Members(R, T, q), R)
    BY DEF Groups
  <2>1. W[q].hWndLastChild \in {Null} \cup Members(W, T, q) /\ Rings(Members(W, T, q), W)
    BY <1>2 DEF Tree, Groups, P
  <2>2. \A x \in Members(W, T, q) : x \in KnownIn(O)
    BY <1>1 DEF Members
  <2>3. Rings(Members(W, T, q), R)
    BY <1>6, <2>1, <2>2, RingsSame
  <2> QED
    BY <1>5, <1>7, <2>1, <2>3
<1>10. Kinds(O, R)
  <2>1. Kinds(O, W) /\ SameBut(W, R, Root)
    BY <1>2, <1>3 DEF Tree, P
  <2>2. \A x \in Win : O[x] \in Alive => SameBut(W, R, x)
    BY <1>3 DEF IsWin
  <2> QED
    BY <1>3, <1>4, <2>1, <2>2 DEF Kinds, SameBut
<1>11. Tree(O, R, T, F)
  <2>1. \E C : Lists(C, R, P, T)
    BY <1>2, <1>8 DEF Tree, P
  <2>2. \A x \in T : ParentIn(R, x) \in {Root} \cup T \cup F
    BY <1>1, <1>2, <1>5 DEF Tree
  <2> QED
    BY <1>2, <1>4, <1>9, <1>10, <2>1, <2>2 DEF Tree, Alike, P
<1>12. ASSUME NEW i \in DOMAIN S PROVE Good(O, R, T, S[i])
  <2> DEFINE f == S[i]
             y == f.hWnd
  <2>1. Good(O, W, T, f)
    BY <1>2 DEF Fits
  <2> HIDE DEF f
  <2>2. GoodCreate(O, W, T, f) /\ GoodPlace(O, W, T, f) /\ GoodEnd(O, W, T, f)
    BY <2>1 DEF Good
  <2>3. GoodCreate(O, R, T, f)
    BY <1>3, <1>4, <1>5, <2>2 DEF GoodCreate, SameBut, SameLinks
  <2>4. GoodPlace(O, R, T, f)
    BY <1>1, <1>5, <2>2 DEF GoodPlace, IsEntering
  <2>5. GoodEnd(O, R, T, f)
    <3>1. ASSUME f.fn = "FreeWindow"
          PROVE  /\ y \in KnownIn(O) /\ Firm(O, T, R[y].hWndOwner)
                 /\ IF f.at = "children" THEN \E c : Chain(c, R, f.next) /\ Elements(c) = Members(R, T, y)
                    ELSE Members(R, T, y) = {}
      <4>1. y \in KnownIn(O) /\ Firm(O, T, W[y].hWndOwner)
        BY <2>2, <3>1 DEF GoodEnd
      <4>2. R[y].hWndOwner = W[y].hWndOwner
        BY <1>3, <4>1 DEF SameBut
      <4>3. ASSUME f.at = "children" PROVE \E c : Chain(c, R, f.next) /\ Elements(c) = Members(R, T, y)
        <5>1. PICK c : Chain(c, W, f.next) /\ Elements(c) = Members(W, T, y)
          BY <2>2, <3>1, <4>3 DEF GoodEnd
        <5>2. \A x \in Elements(c) : R[x].hWndSibling = W[x].hWndSibling
          BY <1>1, <1>6, <5>1 DEF Members
        <5>3. Chain(c, R, f.next)
          BY <5>1, <5>2, SameChain
        <5> QED
          BY <1>5, <5>1, <5>3
      <4>4. f.at # "children" => Members(R, T, y) = {}
        BY <1>5, <2>2, <3>1 DEF GoodEnd
      <4> QED
        BY <4>1, <4>2, <4>3, <4>4
    <3> QED
      BY <1>4, <2>2, <3>1 DEF GoodEnd
  <2>6. Good(O, R, T, f)
    BY <2>1, <2>3, <2>4, <2>5 DEF Good
  <2> QED
    BY <2>6 DEF f
<1>13. ASSUME NEW i \in DOMAIN S, NEW k \in 1 .. i - 1 PROVE Apart(O, R, S[i], S[k])
  <2>1. Apart(O, W, S[i], S[k]) /\ k \in DOMAIN S
    BY <1>2 DEF Fits
  <2>2. S[k].fn = "Proc" => S[k].hWnd \in HeldIn(S)
    BY <2>1 DEF HeldIn, Holds
  <2>3. S[k].fn = "Proc" /\ S[k].hWnd \in Win => R[S[k].hWnd].kind = W[S[k].hWnd].kind
    BY <2>2 DEF Alike, Window, SameBut
  <2>4. \A h : FamilyIn(O, W, h) \subseteq Win
    BY DEF FamilyIn, Under
  <2> QED
    BY <1>4, <2>1, <2>3, <2>4 DEF Apart
<1>14. Fits(O, R, T, S)
  BY <1>2, <1>12, <1>13 DEF Fits
<1> QED
  BY <1>8, <1>11, <1>14 DEF Sound, Has, T, F, P

----------------------------------------------------------------------------
(* A window comes into the tree *)

LEMMA BelowTop ==
    ASSUME NEW O, NEW W, NEW T, Fits(O, W, T, stack), stack # <<>>
    PROVE  /\ Fits(O, W, T, Front(stack))
           /\ Front(stack) \in Seq(FrameRec)
           /\ \A k \in DOMAIN Front(stack) :
                 /\ k \in DOMAIN stack /\ Front(stack)[k] = stack[k]
                 /\ Apart(O, W, Top, Front(stack)[k])
           /\ EnteringIn(stack) = EnteringIn(Front(stack)) \cup {Top.hWnd : x \in {y \in {Top} : IsEntering(y)}}
           /\ FreedIn(stack) = FreedIn(Front(stack)) \cup {Top.hWnd : x \in {y \in {Top} : y.fn = "FreeWindow"}}
<1>1. stack \in Seq(FrameRec)
  BY DEF Fits
<1>2. /\ Front(stack) \in Seq(FrameRec) /\ Top \in FrameRec /\ stack = Append(Front(stack), Top)
      /\ Top = stack[Len(stack)] /\ Len(stack) \in Nat \ {0} /\ DOMAIN Front(stack) = 1 .. Len(stack) - 1
      /\ DOMAIN stack = 1 .. Len(stack)
      /\ \A i \in DOMAIN Front(stack) : Front(stack)[i] = stack[i]
  BY <1>1, FrontOf DEF Top
<1>3. Fits(O, W, T, Front(stack))
  BY FitsPop
<1>4. /\ EnteringIn(stack) = EnteringIn(Front(stack)) \cup {Top.hWnd : x \in {y \in {Top} : IsEntering(y)}}
      /\ FreedIn(stack) = FreedIn(Front(stack)) \cup {Top.hWnd : x \in {y \in {Top} : y.fn = "FreeWindow"}}
  <2> DEFINE B == Front(stack)
             t == Top
  <2>1. B \in Seq(FrameRec) /\ t \in FrameRec /\ stack = Append(B, t)
    BY <1>2
  <2> HIDE DEF B, t
  <2>2. /\ EnteringIn(stack) = EnteringIn(B) \cup {t.hWnd : x \in {y \in {t} : IsEntering(y)}}
        /\ FreedIn(stack) = FreedIn(B) \cup {t.hWnd : x \in {y \in {t} : y.fn = "FreeWindow"}}
    BY <2>1, AppendedSets
  <2> QED
    BY <2>2 DEF B, t
<1>5. \A k \in DOMAIN Front(stack) : k \in DOMAIN stack /\ Apart(O, W, Top, stack[k])
  <2>1. \A k \in DOMAIN Front(stack) : k \in DOMAIN stack /\ k \in 1 .. Len(stack) - 1
    BY <1>2
  <2>2. Len(stack) \in DOMAIN stack
    BY <1>2
  <2> QED
    BY <1>2, <2>1, <2>2 DEF Fits
<1> QED
  BY <1>2, <1>3, <1>4, <1>5

LEMMA OutsideFront ==
    ASSUME NEW T, Outside(T, stack), stack \in Seq(FrameRec), stack # <<>>
    PROVE  Outside(T, Front(stack))
<1>1. \A i \in DOMAIN Front(stack) : i \in DOMAIN stack /\ Front(stack)[i] = stack[i]
  <2>1. /\ DOMAIN Front(stack) = 1 .. Len(stack) - 1 /\ Len(stack) \in Nat \ {0}
        /\ DOMAIN stack = 1 .. Len(stack)
        /\ \A i \in DOMAIN Front(stack) : Front(stack)[i] = stack[i]
    BY FrontOf
  <2> QED
    BY <2>1
<1> QED
  BY <1>1 DEF Outside

Added(W, R, T, h) ==
    /\ h \in Win \ T
    /\ \E C : /\ Has(C, W, T)
              /\ \E p \in {Root} \cup T :
                    Has(PutAt(Widened(C, {Root} \cup T, h), p, Len(C[p]) + 1, h), R, T \cup {h})

LEMMA Entered ==
    ASSUME Sound(obj, win, stack), stack # <<>>, IsEntering(Top)
    PROVE  LET R == Inserted(w)
               S == On("nccreate", Null)
           IN
           /\ CanInsertLast(w, win[w])
           /\ Sound(obj, R, S) /\ TreeIn(obj, S) = TreeIn(obj, stack) \cup {w}
           /\ Added(win, R, TreeIn(obj, stack), w) /\ Kin(win, R)
<1> DEFINE T == TreeIn(obj, stack)
           F == FreedIn(stack)
           B == Front(stack)
           h == w
           P == {Root} \cup T
           p == ParentIn(win, h)
           R == Inserted(h)
           g == Moved("nccreate", Null)
           S == On("nccreate", Null)
           T2 == T \cup {h}
<1>1. /\ T \subseteq KnownIn(obj) /\ T \subseteq Win /\ Outside(T, stack)
  BY TreeKnown, OutsideTree
<1>2. Tree(obj, win, T, F) /\ Fits(obj, win, T, stack) /\ stack \in Seq(FrameRec)
  BY DEF Sound, Fits
<1>3. Top \in FrameRec /\ Good(obj, win, T, Top) /\ h = Top.hWnd
  BY Stacked
<1>4. IsMoved(g, Top, "nccreate", Null)
  <2>1. "nccreate" \in Stages \cup Messages /\ Null \in HWND
    BY Handles DEF Stages
  <2> QED
    BY <1>3, <2>1, MovedIs DEF Moved
<1>5. /\ Fits(obj, win, T, B) /\ B \in Seq(FrameRec)
      /\ \A k \in DOMAIN B : k \in DOMAIN stack /\ B[k] = stack[k] /\ Apart(obj, win, Top, B[k])
      /\ EnteringIn(stack) = EnteringIn(B) \cup {Top.hWnd : x \in {y \in {Top} : IsEntering(y)}}
      /\ FreedIn(stack) = FreedIn(B) \cup {Top.hWnd : x \in {y \in {Top} : y.fn = "FreeWindow"}}
  BY <1>2, BelowTop
<1>6. Outside(T, B)
  BY <1>1, <1>2, OutsideFront
<1>7. /\ h \in KnownIn(obj) /\ h \in Win /\ h \notin T /\ p \in P
      /\ win[h].hWndSibling = Null /\ win[h].hWndChild = Null /\ win[h].hWndLastChild = Null
      /\ \A x \in Win : OverIn(obj, win)[x] # h
      /\ Top.fn = "CreateWindowEx" /\ ~Top.refused
  <2>1. GoodCreate(obj, win, T, Top) /\ Top.fn = "CreateWindowEx" /\ Top.at = "insert"
    BY <1>3 DEF Good, IsEntering
  <2>2. h \in EnteringIn(stack)
    BY <1>3, <1>5
  <2> QED
    BY <1>3, <2>1, <2>2 DEF GoodCreate, KnownIn, TreeIn
<1>8. S = B \o <<g>>
  BY DEF On
<1>9. TreeIn(obj, S) = T2 /\ FreedIn(S) = F
  <2>1. S = Append(B, g) /\ g \in FrameRec /\ ~IsEntering(g) /\ g.fn # "FreeWindow"
    BY <1>4, <1>5, <1>7, <1>8, Joined DEF IsMoved, IsEntering
  <2>2. EnteringIn(S) = EnteringIn(B) /\ FreedIn(S) = FreedIn(B)
    BY <1>5, <2>1, SamePushed DEF Same
  <2>3. EnteringIn(stack) = EnteringIn(B) \cup {h} /\ FreedIn(stack) = FreedIn(B)
    BY <1>3, <1>5, <1>7
  <2>4. h \notin EnteringIn(B) /\ h \notin FreedIn(B)
    <3>1. \A k \in DOMAIN B : B[k].fn \in {"CreateWindowEx", "FreeWindow"} => B[k].hWnd # h
      BY <1>3, <1>5, <1>7 DEF Apart
    <3> QED
      BY <3>1 DEF EnteringIn, FreedIn, IsEntering
  <2> QED
    BY <1>7, <2>2, <2>3, <2>4 DEF TreeIn
<1> HIDE DEF T, F, B, h, P, R, g, S, T2
<1>10. PICK C : Lists(C, win, P, T)
  BY <1>2 DEF Tree, P
<1>11. Now(C, P, T) /\ Groups(win, P, T)
  BY <1>1, <1>2, <1>10, NowTree DEF P, Tree
<1>12. Fresh(P, T, h)
  <2>1. h \notin P
    BY <1>7, Handles DEF P
  <2>2. Members(win, T, h) = {}
    <3> SUFFICES ASSUME NEW x \in T, ParentIn(win, x) = h PROVE FALSE
      BY DEF Members
    <3>1. x \in Win /\ IsWin(obj, x) /\ x \in HWND
      BY <1>1, Handles DEF KnownIn, IsWin, Alive
    <3>2. win[x].kind = "child" /\ win[x].hWndParent = h
      BY <1>7, Handles DEF ParentIn
    <3>3. OverIn(obj, win)[x] = h
      BY <3>1, <3>2 DEF OverIn
    <3> QED
      BY <1>7, <3>1, <3>3
  <2> QED
    BY <1>7, <2>1, <2>2 DEF Fresh
<1> HIDE DEF p
<1>13. p = ParentIn(win, h) /\ p \in P
  BY <1>7 DEF p
<1> DEFINE D == PutAt(Widened(C, P, h), p, Len(C[p]) + 1, h)
<1>14. /\ CanInsertLast(h, win[h])
       /\ R \in Wins /\ Kin(win, R)
       /\ Lists(D, R, P \cup {h}, T \cup {h})
       /\ Groups(R, P \cup {h}, T \cup {h})
       /\ Touches(win, R, T, p)
  <2>1. IsInserted(C, P, T, p, h, R)
    BY <1>11, <1>12, <1>13, Inserting DEF R
  <2> QED
    BY <2>1 DEF IsInserted
<1> HIDE DEF D
<1>15. P \cup {h} = {Root} \cup T2 /\ T \cup {h} = T2 /\ T \subseteq T2 /\ T2 \subseteq Win /\ h \in T2
  BY <1>1, <1>7 DEF P, T2
<1>16. /\ OverIn(obj, R) = OverIn(obj, win) /\ \A x \in Win : ParentIn(R, x) = ParentIn(win, x)
  BY <1>14, OverKin
<1>17. Tree(obj, R, T2, F)
  <2>1. Kinds(obj, R) /\ NoCycle(OverIn(obj, R)) /\ obj \in Objs
    BY <1>2, <1>14, <1>16, KindsKin DEF Tree
  <2>2. \A x \in T : ParentIn(win, x) \in {Root} \cup T \cup F
    BY <1>2 DEF Tree
  <2>3. \A x \in T2 : ParentIn(R, x) \in {Root} \cup T2 \cup F
    BY <1>7, <1>13, <1>15, <1>16, <2>2 DEF P, T2
  <2>4. Lists(D, R, {Root} \cup T2, T2) /\ Groups(R, {Root} \cup T2, T2)
    BY <1>14, <1>15
  <2> QED
    BY <1>14, <2>1, <2>3, <2>4 DEF Tree
<1>18. Fits(obj, R, T2, B)
  <2>1. ASSUME NEW i \in DOMAIN B, B[i].fn = "FreeWindow"
        PROVE  Members(win, T2, B[i].hWnd) = Members(win, T, B[i].hWnd)
    <3>1. B[i].hWnd \in Win \ T
      BY <1>6, <2>1 DEF Outside
    <3>2. p # B[i].hWnd
      BY <1>13, <3>1, Handles DEF P
    <3> QED
      BY <1>13, <3>2 DEF Members, T2
  <2>2. p \in {Root} \cup T
    BY <1>13 DEF P
  <2> QED
    BY <1>5, <1>6, <1>14, <1>15, <2>1, <2>2, FitsMore
<1>19. Fits(obj, R, T2, S)
  <2>1. /\ g \in FrameRec /\ g.fn = "CreateWindowEx" /\ g.hWnd = h /\ g.at = "nccreate" /\ ~g.refused
        /\ Top.hWnd = h
    BY <1>3, <1>4, <1>7 DEF IsMoved
  <2>2. Good(obj, R, T2, g)
    <3>1. h \in Some(obj)
      BY <1>7 DEF KnownIn, Some
    <3>2. ParentIn(R, h) \in {Root} \cup T2
      BY <1>7, <1>13, <1>15, <1>16 DEF P, T2
    <3> QED
      BY <1>15, <2>1, <3>1, <3>2 DEF Good, GoodCreate, GoodPlace, GoodEnd, IsEntering
  <2>3. ASSUME NEW k \in DOMAIN B PROVE Apart(obj, R, g, B[k])
    <3>1. Apart(obj, R, Top, B[k])
      BY <1>5, <1>14, ApartKin
    <3> QED
      BY <1>7, <2>1, <3>1 DEF Apart
  <2>4. \A f : Sits(g, f)
    BY <2>1 DEF Sits
  <2>5. S = Append(B, g)
    BY <1>5, <1>8, <2>1, Joined
  <2> QED
    BY <1>18, <2>1, <2>2, <2>3, <2>4, <2>5, FitsPush
<1>20. Sound(obj, R, S)
  BY <1>9, <1>17, <1>19 DEF Sound
<1>21. Added(win, R, T, h)
  <2>1. Has(C, win, T) /\ Has(PutAt(Widened(C, {Root} \cup T, h), p, Len(C[p]) + 1, h), R, T \cup {h})
    BY <1>10, <1>14, <1>15 DEF Has, P, D
  <2> QED
    BY <1>7, <1>13, <2>1 DEF Added, P
<1> QED
  BY <1>9, <1>14, <1>20, <1>21 DEF R, S, T, T2, h

----------------------------------------------------------------------------
(* A window leaves the tree *)

LEMMA OwnerIs ==
    ASSUME NEW O, NEW W, Kinds(O, W), O \in Objs, W \in Wins, NEW n \in Win, IsWin(O, n), NEW T,
           NoCycle(OverIn(O, W)), W[n].hWndOwner # Null
    PROVE  /\ W[n].kind = "popup" /\ W[n].hWndOwner \in Some(O) /\ W[n].hWndOwner # n
           /\ n \in FamilyIn(O, W, W[n].hWndOwner)
<1>1. O[n] \in Alive
  BY Handles DEF IsWin
<1>2. W[n].kind = "popup"
  BY <1>1 DEF Kinds
<1>3. OverIn(O, W)[n] = W[n].hWndOwner
  BY <1>2, Handles DEF OverIn
<1>4. W[n].hWndOwner \in Some(O) /\ W[n].hWndOwner \in Win
  <2>1. OverIn(O, W)[n] \in {Null} \cup Some(O)
    BY <1>1 DEF Kinds
  <2> QED
    BY <1>3, <2>1 DEF Some
<1>5. n \in FamilyIn(O, W, W[n].hWndOwner)
  <2>1. OverIn(O, W) \in Links /\ EndsOut(OverIn(O, W))
    BY OverEnds
  <2> QED
    BY <1>3, <1>4, <2>1, UnderSelf, UnderClosed DEF FamilyIn
<1>6. W[n].hWndOwner # n
  BY <1>3, NotSelf
<1> QED
  BY <1>2, <1>4, <1>5, <1>6

\* The lists D, for the tree of T2 only.
HasOf(D, W, T2) == Has([q \in {Root} \cup T2 |-> D[q]], W, T2)

\* FreeWindow is called for n of the tree T, which has been taken out of the lists D.
IsFreeing(R, T, n, T2, D, S1, f, S2) ==
    /\ R \in Wins /\ Kin(win, R)
    /\ T = TreeIn(obj, stack) /\ n \in T /\ Firm(obj, T, win[n].hWndOwner)
    /\ T2 = T \ {n} /\ Lists(D, R, {Root} \cup T, T2) /\ Groups(R, {Root} \cup T, T2)
    /\ Same(stack, S1) /\ Fits(obj, R, T2, S1)
    /\ IsFrame(f, "FreeWindow", "children", n, R[n].hWndChild)
    /\ \A k \in DOMAIN S1 : Apart(obj, R, f, S1[k])
    /\ S2 = S1 \o <<f>>

LEMMA Freeing ==
    ASSUME Sound(obj, win, stack), NEW R, NEW T, NEW n, NEW T2, NEW D, NEW S1, NEW f, NEW S2,
           IsFreeing(R, T, n, T2, D, S1, f, S2)
    PROVE  Sound(obj, R, S2) /\ TreeIn(obj, S2) = T2 /\ HasOf(D, R, T2)
<1> USE DEF IsFreeing
<1> DEFINE F == FreedIn(stack)
           E == [q \in {Root} \cup T2 |-> D[q]]
           o == win[n].hWndOwner
<1>1. T \subseteq KnownIn(obj) /\ T \subseteq Win /\ n \in Win /\ n \in Some(obj) /\ IsWin(obj, n)
  BY TreeKnown
<1>2. Tree(obj, win, T, F)
  BY DEF Sound
<1>3. f \in FrameRec /\ f.fn = "FreeWindow" /\ f.at = "children" /\ f.hWnd = n /\ f.next = R[n].hWndChild
  BY DEF IsFrame
<1>4. /\ EnteringIn(S1) = EnteringIn(stack) /\ FreedIn(S1) = F
  BY DEF Same
<1>5. S1 \in Seq(FrameRec) /\ S2 = Append(S1, f)
  BY <1>3, Joined DEF Fits
<1>6. EnteringIn(S2) = EnteringIn(stack) /\ FreedIn(S2) = F \cup {n}
  <2>1. /\ EnteringIn(S2) = EnteringIn(S1) \cup {f.hWnd : x \in {y \in {f} : IsEntering(y)}}
        /\ FreedIn(S2) = FreedIn(S1) \cup {f.hWnd : x \in {y \in {f} : y.fn = "FreeWindow"}}
    BY <1>3, <1>5, AppendedSets
  <2> QED
    BY <1>3, <1>4, <2>1 DEF IsEntering
<1>7. TreeIn(obj, S2) = T2
  BY <1>6 DEF TreeIn
<1>8. /\ OverIn(obj, R) = OverIn(obj, win)
      /\ \A x \in Win : ParentIn(R, x) = ParentIn(win, x)
      /\ \A M, q : M \subseteq Win => Members(R, M, q) = Members(win, M, q)
  BY OverKin
<1>9. T2 \subseteq T /\ T2 \subseteq Win /\ {Root} \cup T2 \subseteq {Root} \cup T
  BY <1>1
<1>10. Lists(E, R, {Root} \cup T2, T2)
  <2>1. Lists(D, R, {Root} \cup T, T2)
    OBVIOUS
  <2> QED
    BY <1>9, <2>1, ListsFewer
<1>11. Groups(R, {Root} \cup T2, T2)
  BY <1>9 DEF Groups
<1> HIDE DEF E
<1>12. Tree(obj, R, T2, F \cup {n})
  <2>1. Kinds(obj, R) /\ NoCycle(OverIn(obj, R)) /\ obj \in Objs
    BY <1>2, <1>8, KindsKin DEF Tree
  <2>2. \A x \in T : ParentIn(win, x) \in {Root} \cup T \cup F
    BY <1>2 DEF Tree
  <2>3. \A x \in T2 : ParentIn(R, x) \in {Root} \cup T2 \cup (F \cup {n})
    BY <1>8, <1>9, <2>2
  <2> QED
    BY <1>10, <1>11, <2>1, <2>3 DEF Tree
<1>13. Good(obj, R, T2, f)
  <2>1. n \in KnownIn(obj) /\ R[n].hWndOwner = o
    BY <1>1 DEF Kin, Window
  <2>2. Firm(obj, T2, o)
    <3>1. o # n
      <4>1. o = Null => o # n
        BY <1>1, Handles
      <4>2. o # Null => o # n
        BY <1>1, <1>2, OwnerIs DEF Tree
      <4> QED
        BY <4>1, <4>2
    <3> QED
      BY <3>1 DEF Firm
  <2>3. Chain(D[n], R, R[n].hWndChild) /\ Elements(D[n]) = Members(R, T2, n)
    BY DEF Lists
  <2> QED
    BY <1>1, <1>3, <2>1, <2>2, <2>3 DEF Good, GoodCreate, GoodPlace, GoodEnd, IsEntering
<1>14. Fits(obj, R, T2, S2)
  <2>1. \A g : Sits(f, g)
    BY <1>3 DEF Sits
  <2>2. Fits(obj, R, T2, S1)
    OBVIOUS
  <2> QED
    BY <1>3, <1>5, <1>13, <2>1, <2>2, FitsPush
<1>15. Sound(obj, R, S2)
  BY <1>6, <1>7, <1>12, <1>14 DEF Sound
<1> QED
  BY <1>7, <1>10, <1>15 DEF HasOf, Has, E

\* h is taken out of its list, and has none of its own.
Removed(W, R, T, h) ==
    \E C : /\ Has(C, W, T)
           /\ \E p \in {Root} \cup T : \E k \in DOMAIN C[p] :
                 /\ C[p][k] = h
                 /\ HasOf(CutAt(C, p, k), R, T \ {h})

\* A frame for FreeWindow of n stands as well on what one that destroys it stands on.
LEMMA ApartFree ==
    ASSUME NEW O, NEW W, NEW f, NEW g, NEW h, Apart(O, W, f, h),
           f.fn \in {"DestroyWindow", "FreeWindow"}, g.fn = "FreeWindow", g.hWnd = f.hWnd
    PROVE  Apart(O, W, g, h) /\ Clear(O, W, h, f.hWnd)
BY DEF Apart, Clear

LEMMA Unlinks ==
    ASSUME Sound(obj, win, stack), stack # <<>>, Top.fn = "DestroyWindow"
    PROVE  LET R == RemoveFromList(w)
               S2 == Return \o FreeCall(w)
               T == TreeIn(obj, stack)
           IN
           /\ CanRemove(w)
           /\ Sound(obj, R, S2) /\ TreeIn(obj, S2) = T \ {w}
           /\ w \in T /\ Removed(win, R, T, w) /\ Kin(win, R)
<1> DEFINE T == TreeIn(obj, stack)
           B == Front(stack)
           n == w
           P == {Root} \cup T
           p == ParentIn(win, n)
           R == RemoveFromList(n)
           f == Frame("FreeWindow", "children", n, win[n].hWndChild)
<1>1. /\ T \subseteq KnownIn(obj) /\ T \subseteq Win /\ Outside(T, stack)
      /\ \A x \in T : IsWin(obj, x)
  BY TreeKnown, OutsideTree
<1>2. Tree(obj, win, T, FreedIn(stack)) /\ Fits(obj, win, T, stack) /\ stack \in Seq(FrameRec)
  BY DEF Sound, Fits
<1>3. Top \in FrameRec /\ Good(obj, win, T, Top) /\ n = Top.hWnd
  BY Stacked
<1>4. /\ n \in T /\ p \in P /\ Firm(obj, T, win[n].hWndOwner)
  <2>1. n \in T /\ p \in P
    BY <1>3 DEF Good, GoodPlace, IsEntering
  <2>2. \A a \in Win : n \in FamilyIn(obj, win, a) => Firm(obj, T, a)
    BY <1>3 DEF Good, GoodEnd
  <2>3. win[n].hWndOwner # Null => Firm(obj, T, win[n].hWndOwner)
    <3>1. IsWin(obj, n) /\ n \in Win
      BY <1>1, <2>1
    <3> QED
      BY <1>2, <2>2, <3>1, OwnerIs DEF Tree, Some
  <2>4. win[n].hWndOwner = Null => Firm(obj, T, win[n].hWndOwner)
    BY Handles DEF Firm, IsWin
  <2> QED
    BY <2>1, <2>3, <2>4
<1>5. /\ Fits(obj, win, T, B) /\ B \in Seq(FrameRec)
      /\ \A k \in DOMAIN B : Apart(obj, win, Top, B[k])
  BY <1>2, BelowTop
<1>6. Outside(T, B)
  BY <1>1, <1>2, OutsideFront
<1> HIDE DEF T, B, n, P, p, R
<1>7. PICK C : Lists(C, win, P, T)
  BY <1>2 DEF Tree, P
<1>8. Now(C, P, T) /\ Groups(win, P, T)
  BY <1>1, <1>2, <1>7, NowTree DEF P, Tree
<1>9. p = ParentIn(win, n)
  BY DEF p
<1>10. PICK k \in DOMAIN C[p] : C[p][k] = n
  BY <1>4, <1>8, <1>9, PlaceOf
<1> DEFINE D == CutAt(C, p, k)
<1>11. /\ CanRemove(n) /\ R \in Wins /\ Kin(win, R) /\ Groups(R, P, T \ {n})
       /\ Lists(D, R, P, T \ {n}) /\ Touches(win, R, T, p)
  <2>1. IsRemoved(C, P, T, p, k, n, R)
    BY <1>4, <1>8, <1>9, <1>10, Removing DEF R
  <2> QED
    BY <2>1 DEF IsRemoved
<1> HIDE DEF D
<1>12. /\ n \in Win /\ IsWin(obj, n) /\ p # n
  BY <1>1, <1>2, <1>4, <1>9, NotSelf DEF Tree
<1>13. IsFrame(f, "FreeWindow", "children", n, R[n].hWndChild)
  <2>1. R[n].hWndChild = win[n].hWndChild
    BY <1>11, <1>12 DEF Touches, Window
  <2>2. win[n].hWndChild \in HWND
    BY <1>2, <1>12 DEF Tree, Wins, WinRec, Window
  <2>3. "FreeWindow" \in Fns /\ "children" \in Stages \cup Messages /\ n \in HWND
    BY <1>12, Handles DEF Fns, Stages
  <2> QED
    BY <2>1, <2>2, <2>3, FrameIs
<1> HIDE DEF f
<1>14. \A i \in DOMAIN B : Apart(obj, win, f, B[i]) /\ Clear(obj, win, B[i], n)
  <2> TAKE i \in DOMAIN B
  <2>1. Apart(obj, win, Top, B[i])
    BY <1>5
  <2> QED
    BY <1>3, <1>13, <2>1, ApartFree DEF IsFrame
<1>15. Fits(obj, R, T \ {n}, B)
  <2>1. \A i \in DOMAIN B : B[i].fn = "FreeWindow" => ParentIn(win, n) # B[i].hWnd
    BY <1>4, <1>6, <1>9, Handles DEF Outside, P
  <2>2. p \in {Root} \cup T /\ obj \in Objs /\ win \in Wins /\ Kinds(obj, win)
    BY <1>2, <1>4 DEF P, Tree
  <2>3. \A i \in DOMAIN B : Clear(obj, win, B[i], n)
    BY <1>14
  <2> QED
    BY <1>1, <1>4, <1>5, <1>6, <1>11, <2>1, <2>2, <2>3, FitsLess
<1>16. \A i \in DOMAIN B : Apart(obj, R, f, B[i])
  BY <1>11, <1>14, ApartKin
<1>17. Same(stack, B)
  <2>1. Top = Last(stack) /\ ~IsEntering(Top)
    BY Stacked DEF IsEntering
  <2> QED
    BY <1>2, <2>1, SamePopped DEF B
<1> DEFINE S2 == B \o <<f>>
           T2 == T \ {n}
<1> HIDE DEF S2, T2
<1>18. Sound(obj, R, S2) /\ TreeIn(obj, S2) = T \ {n} /\ HasOf(D, R, T \ {n})
  <2>1. /\ T = TreeIn(obj, stack) /\ Lists(D, R, {Root} \cup T, T2) /\ Groups(R, {Root} \cup T, T2)
        /\ T2 = T \ {n} /\ S2 = B \o <<f>>
    BY <1>11 DEF T, P, S2, T2
  <2>2. Fits(obj, R, T2, B)
    BY <1>15 DEF T2
  <2>3. IsFreeing(R, T, n, T2, D, B, f, S2)
    BY <1>4, <1>11, <1>13, <1>16, <1>17, <2>1, <2>2 DEF IsFreeing
  <2>4. Sound(obj, R, S2) /\ TreeIn(obj, S2) = T2 /\ HasOf(D, R, T2)
    BY <2>3, Freeing
  <2> QED
    BY <2>1, <2>4
<1>19. Removed(win, R, T, n)
  <2>1. Has(C, win, T)
    BY <1>7 DEF Has, P
  <2>2. HasOf(CutAt(C, p, k), R, T \ {n})
    BY <1>18 DEF D
  <2> QED
    BY <1>4, <1>10, <2>1, <2>2 DEF Removed, P
<1>20. Return \o FreeCall(n) = S2
  <2>1. IsWindow(n)
    BY <1>12, StateIs
  <2> QED
    BY <2>1 DEF FreeCall, Return, S2, B, f
<1> QED
  BY <1>4, <1>11, <1>18, <1>19, <1>20 DEF R, T, n

\* n, whose parent is freed, is in no list, and has none of its own any longer.
Perished(W, T, n) ==
    /\ n \in T /\ ParentIn(W, n) \notin {Root} \cup T
    /\ \E D : Has(D, W, T) /\ HasOf(D, W, T \ {n})

\* What FreeWindow of a child window stands on, when that of its parent stands on it.
LEMMA ApartChild ==
    ASSUME NEW O, NEW W, NEW f, NEW h, NEW y, NEW n, NEW g, Apart(O, W, f, h),
           f.fn = "FreeWindow", f.hWnd = y, g.fn = "FreeWindow", g.hWnd = n,
           FamilyIn(O, W, n) \subseteq FamilyIn(O, W, y), y \notin FamilyIn(O, W, n)
    PROVE  Apart(O, W, g, h) /\ Clear(O, W, h, n)
BY DEF Apart, Clear

LEMMA FirstChild ==
    ASSUME NEW c, NEW W, NEW first, Chain(c, W, first), first # Null
    PROVE  /\ first \in Elements(c) /\ c # <<>>
           /\ Chain(Cut(c, 1), W, W[first].hWndSibling)
           /\ Elements(Cut(c, 1)) = Elements(c) \ {first}
<1>1. c # <<>> /\ c \in Seq(Win) /\ IsInjective(c) /\ first = c[1]
  BY DEF Chain
<1>2. 1 \in DOMAIN c /\ 1 \in 1 .. Len(c)
  BY <1>1
<1>3. LinksCut(c, 1, W, W)
  BY DEF LinksCut
<1>4. Chain(Cut(c, 1), W, W[first].hWndSibling)
  BY <1>1, <1>2, <1>3, CutChain
<1>5. Elements(Cut(c, 1)) = Elements(c) \ {first}
  BY <1>1, <1>2, CutSeq
<1> QED
  BY <1>1, <1>2, <1>4, <1>5 DEF Elements

LEMMA ChildFreed ==
    ASSUME Sound(obj, win, stack), stack # <<>>, Top.fn = "FreeWindow", Top.at = "children", Top.next # Null
    PROVE  LET n == Top.next
               S2 == Then("children", NextSib(n), FreeCall(n))
               T == TreeIn(obj, stack)
           IN /\ Sound(obj, win, S2) /\ TreeIn(obj, S2) = T \ {n}
              /\ Perished(win, T, n)
<1> DEFINE T == TreeIn(obj, stack)
           B == Front(stack)
           n == Top.next
           y == w
           T2 == T \ {n}
           v == win[n].hWndSibling
           g == Moved("children", v)
           S1 == On("children", v)
           f == Frame("FreeWindow", "children", n, win[n].hWndChild)
           S2 == S1 \o <<f>>
<1>1. /\ T \subseteq KnownIn(obj) /\ T \subseteq Win /\ Outside(T, stack) /\ \A x \in T : IsWin(obj, x)
  BY TreeKnown, OutsideTree
<1>2. /\ Tree(obj, win, T, FreedIn(stack)) /\ Fits(obj, win, T, stack) /\ stack \in Seq(FrameRec)
      /\ obj \in Objs /\ win \in Wins /\ Kinds(obj, win) /\ NoCycle(OverIn(obj, win))
  BY DEF Sound, Fits, Tree
<1>3. Top \in FrameRec /\ Good(obj, win, T, Top) /\ y = Top.hWnd /\ Top = Last(stack)
      /\ Top = stack[Len(stack)] /\ Len(stack) \in DOMAIN stack
  BY Stacked
<1>4. PICK c : Chain(c, win, n) /\ Elements(c) = Members(win, T, y)
  BY <1>3 DEF Good, GoodEnd
<1>5. /\ y \in KnownIn(obj) /\ y \in Win /\ Firm(obj, T, win[y].hWndOwner) /\ y \notin T /\ IsWin(obj, y)
  <2>1. y \in KnownIn(obj) /\ Firm(obj, T, win[y].hWndOwner)
    BY <1>3 DEF Good, GoodEnd
  <2>2. y \notin T
    BY <1>1, <1>3 DEF Outside
  <2> QED
    BY <2>1, <2>2 DEF KnownIn, IsWin, Alive
<1>6. /\ Chain(Cut(c, 1), win, v) /\ Elements(Cut(c, 1)) = Elements(c) \ {n}
      /\ n \in T /\ ParentIn(win, n) = y /\ n \in Win /\ n # y /\ IsWin(obj, n)
  <2>1. n \in Elements(c) /\ Chain(Cut(c, 1), win, v) /\ Elements(Cut(c, 1)) = Elements(c) \ {n}
    BY <1>4, FirstChild
  <2>2. n \in Members(win, T, y)
    BY <1>4, <2>1
  <2> QED
    BY <1>1, <1>5, <2>1, <2>2 DEF Members
<1>7. /\ win[n].kind = "child" /\ OverIn(obj, win)[n] = y
  BY <1>5, <1>6, Handles DEF ParentIn, OverIn
<1>8. /\ FamilyIn(obj, win, n) \subseteq FamilyIn(obj, win, y) /\ y \notin FamilyIn(obj, win, n)
      /\ y \in FamilyIn(obj, win, y)
  <2>1. OverIn(obj, win) \in Links /\ EndsOut(OverIn(obj, win))
    BY <1>2, OverEnds
  <2>2. y \in Under(OverIn(obj, win), y)
    BY <1>5, <2>1, UnderSelf
  <2>3. n \in Under(OverIn(obj, win), y)
    BY <1>5, <1>6, <1>7, <2>1, <2>2, UnderClosed
  <2>4. Under(OverIn(obj, win), n) \subseteq Under(OverIn(obj, win), y)
    BY <1>5, <2>1, <2>3, UnderTransitive
  <2>5. y \notin Under(OverIn(obj, win), n)
    BY <1>2, <1>6, <1>7 DEF NoCycle
  <2> QED
    BY <2>2, <2>4, <2>5 DEF FamilyIn
<1>9. /\ Fits(obj, win, T, B) /\ B \in Seq(FrameRec)
      /\ \A k \in DOMAIN B : Apart(obj, win, Top, B[k])
  BY <1>2, BelowTop
<1>10. Outside(T, B)
  BY <1>1, <1>2, OutsideFront
<1>11. y \notin {Root} \cup T /\ Root \in {Root} \cup T
  BY <1>5, Handles
<1>12. v \in HWND /\ win[n].hWndChild \in HWND /\ "children" \in Stages \cup Messages /\ "FreeWindow" \in Fns
       /\ n \in HWND
  BY <1>2, <1>6, Handles DEF Wins, WinRec, Window, Stages, Fns
<1>13. IsMoved(g, Top, "children", v)
  BY <1>3, <1>12, MovedIs DEF Moved
<1>14. IsFrame(f, "FreeWindow", "children", n, win[n].hWndChild)
  BY <1>12, FrameIs
<1> HIDE DEF T, n, y, v, g, f, S1, S2, T2
<1>15. \A k \in DOMAIN B : Apart(obj, win, f, B[k]) /\ Clear(obj, win, B[k], n)
  <2> TAKE k \in DOMAIN B
  <2>1. Apart(obj, win, Top, B[k])
    BY <1>9
  <2> QED
    BY <1>3, <1>8, <1>14, <2>1, ApartChild DEF IsFrame
<1> HIDE DEF B
<1>16. Kin(win, win) /\ Touches(win, win, T, Root)
  BY DEF Kin, Touches
<1>17. Fits(obj, win, T2, B)
  <2>1. \A i \in DOMAIN B : B[i].fn = "FreeWindow" => ParentIn(win, n) # B[i].hWnd
    BY <1>3, <1>6, <1>8, <1>9 DEF Apart, Busy
  <2>2. \A i \in DOMAIN B : Clear(obj, win, B[i], n)
    BY <1>15
  <2> QED
    BY <1>1, <1>2, <1>6, <1>9, <1>10, <1>11, <1>16, <2>1, <2>2, FitsLess DEF T2
<1>18. Good(obj, win, T2, g)
  <2>1. g.fn = "FreeWindow" /\ g.at = "children" /\ g.hWnd = y /\ g.next = v
    BY <1>3, <1>13 DEF IsMoved
  <2>2. y \in Some(obj)
    BY <1>5 DEF Some, KnownIn
  <2>3. Firm(obj, T2, win[y].hWndOwner)
    <3>1. win[y].hWndOwner # n
      BY <1>2, <1>5, <1>6, <1>8, OverParent
    <3> QED
      BY <1>5, <3>1 DEF Firm, T2
  <2>4. Elements(Cut(c, 1)) = Members(win, T2, y)
    BY <1>4, <1>6 DEF Members, T2
  <2> QED
    BY <1>5, <1>6, <2>1, <2>2, <2>3, <2>4 DEF Good, GoodCreate, GoodPlace, GoodEnd, IsEntering
<1>19. /\ g \in FrameRec /\ g.fn = Top.fn /\ g.hWnd = Top.hWnd /\ g.fn = "FreeWindow"
  BY <1>13 DEF IsMoved
<1>20. S1 = Append(B, g)
  BY <1>9, <1>19, Joined DEF S1, B, On, g
<1>21. Fits(obj, win, T2, S1)
  <2>1. \A h : Sits(g, h)
    BY <1>19 DEF Sits
  <2>2. \A k \in DOMAIN B : Apart(obj, win, g, B[k])
    BY <1>9, <1>19 DEF Apart
  <2> QED
    BY <1>17, <1>18, <1>19, <1>20, <2>1, <2>2, FitsPush
<1>22. Same(stack, S1)
  BY <1>2, <1>3, <1>19, <1>20, SameAdvanced DEF IsEntering, B
<1>23. \A k \in DOMAIN S1 : Apart(obj, win, f, S1[k])
  <2> TAKE k \in DOMAIN S1
  <2>1. /\ DOMAIN B = 1 .. Len(B) /\ DOMAIN S1 = 1 .. Len(B) + 1 /\ Len(B) \in Nat
        /\ \A i \in DOMAIN B : S1[i] = B[i]
        /\ S1[Len(B) + 1] = g
    BY <1>9, <1>19, <1>20, Appended
  <2>2. CASE k \in DOMAIN B
    BY <1>15, <2>1, <2>2
  <2>3. CASE k \notin DOMAIN B
    <3>1. S1[k] = g
      BY <2>1, <2>3
    <3> QED
      BY <1>3, <1>8, <1>14, <1>19, <3>1 DEF Apart, IsFrame
  <2> QED
    BY <2>2, <2>3
<1>24. PICK C : Lists(C, win, {Root} \cup T, T)
  BY <1>2 DEF Tree
<1>25. \A q \in {Root} \cup T : Members(win, T, q) = Members(win, T2, q)
  BY <1>6, <1>11 DEF Members, T2
<1>26. Lists(C, win, {Root} \cup T, T2) /\ Groups(win, {Root} \cup T, T2)
  BY <1>2, <1>24, <1>25 DEF Lists, Groups, Tree
<1>27. IsFreeing(win, T, n, T2, C, S1, f, S2)
  <2>1. Firm(obj, T, win[n].hWndOwner)
    <3>1. obj[n] \in Alive
      BY <1>6, Handles DEF IsWin
    <3>2. win[n].hWndOwner = Null
      BY <1>2, <1>6, <1>7, <3>1 DEF Kinds
    <3> QED
      BY <3>2, Handles DEF Firm, IsWin
  <2>2. S2 = S1 \o <<f>> /\ T2 = T \ {n} /\ T = TreeIn(obj, stack)
    BY DEF S2, T2, T
  <2> QED
    BY <1>2, <1>6, <1>14, <1>16, <1>21, <1>22, <1>23, <1>26, <2>1, <2>2 DEF IsFreeing
<1>28. Sound(obj, win, S2) /\ TreeIn(obj, S2) = T2 /\ HasOf(C, win, T2)
  BY <1>27, Freeing
<1>29. Perished(win, T, n)
  BY <1>6, <1>11, <1>24, <1>28 DEF Perished, T2, Has
<1>30. Then("children", NextSib(n), FreeCall(n)) = S2
  <2>1. IsWindow(n)
    BY <1>6, StateIs
  <2> QED
    BY <2>1, ThenIs DEF NextSib, FreeCall, S2, S1, v, f
<1> QED
  BY <1>28, <1>29, <1>30 DEF T, T2, n

----------------------------------------------------------------------------
(* A handle is freed *)

LEMMA ChildrenGone ==
    ASSUME Sound(obj, win, stack), stack # <<>>, Top.fn = "FreeWindow", Top.at = "children", Top.next = Null
    PROVE  Calm(win, stack, Then("active", Null, <<>>))
<1> DEFINE T == TreeIn(obj, stack)
           g == Moved("active", Null)
<1>1. Top \in FrameRec /\ Good(obj, win, T, Top)
  BY Stacked
<1>2. PICK c : Chain(c, win, Null) /\ Elements(c) = Members(win, T, Top.hWnd)
  BY <1>1 DEF Good, GoodEnd
<1>3. Members(win, T, Top.hWnd) = {}
  <2>1. c = <<>>
    <3>1. c # <<>> => c \in Seq(Win) /\ c[1] = Null
      BY <1>2 DEF Chain
    <3>2. c # <<>> => c[1] \in Win
      BY <3>1
    <3> QED
      BY <3>1, <3>2, Handles
  <2> QED
    BY <1>2, <2>1 DEF Elements
<1>4. "active" \in Stages \cup Messages /\ Null \in HWND
  BY Handles DEF Stages
<1>5. IsMoved(g, Top, "active", Null)
  BY <1>1, <1>4, MovedIs DEF Moved
<1> HIDE DEF T
<1>6. Good(obj, win, T, g)
  <2>1. g.fn = "FreeWindow" /\ g.at = "active" /\ g.hWnd = Top.hWnd
    BY <1>5 DEF IsMoved
  <2> HIDE DEF g
  <2> QED
    BY <1>1, <1>3, <2>1 DEF Good, GoodCreate, GoodPlace, GoodEnd, IsEntering
<1>7. ~IsEntering(Top) /\ ~IsEntering(g)
  BY <1>5 DEF IsEntering, IsMoved
<1>8. Calm(win, stack, On("active", Null)) /\ On("active", Null) \in Seq(FrameRec)
  BY <1>4, <1>6, <1>7, GoesOnGood DEF T
<1>9. Then("active", Null, <<>>) = On("active", Null)
  <2>1. On("active", Null) \o <<>> = On("active", Null)
    BY <1>8
  <2> QED
    BY <2>1, ThenIs
<1> QED
  BY <1>8, <1>9

LEMMA GoodMarked ==
    ASSUME NEW O \in Objs, NEW W, NEW T, NEW y \in KnownIn(O), NEW O2, O2 = [O EXCEPT ![y] = "marked"],
           NEW f, Good(O, W, T, f), Busy(f) => f.hWnd # y
    PROVE  Good(O2, W, T, f)
<1>1. /\ y \in Win /\ O2 \in Objs /\ KnownIn(O2) = KnownIn(O) \ {y} /\ Some(O2) = Some(O)
      /\ \A x : IsWin(O2, x) <=> IsWin(O, x)
  BY DEF Objs, KnownIn, Some, IsWin, Alive
<1>2. OverIn(O2, W) = OverIn(O, W) /\ \A h : FamilyIn(O2, W, h) = FamilyIn(O, W, h)
  BY <1>1 DEF OverIn, FamilyIn
<1>3. f.fn \in {"CreateWindowEx", "FreeWindow"} => f.hWnd # y
  BY DEF Busy
<1>4. GoodCreate(O2, W, T, f)
  BY <1>1, <1>2, <1>3 DEF Good, GoodCreate, IsEntering
<1>5. GoodPlace(O2, W, T, f)
  BY DEF Good, GoodPlace
<1>6. GoodEnd(O2, W, T, f)
  BY <1>1, <1>2, <1>3 DEF Good, GoodEnd, Firm
<1> QED
  BY <1>1, <1>4, <1>5, <1>6 DEF Good

\* A window that is freed is marked; the tree is as it was.
LEMMA FreedHandle ==
    ASSUME Sound(obj, win, stack), stack # <<>>, Top.fn = "FreeWindow", Top.at = "free"
    PROVE  Sound(FREEHWND(w), win, Return) /\ TreeIn(FREEHWND(w), Return) = TreeIn(obj, stack)
<1> DEFINE T == TreeIn(obj, stack)
           B == Front(stack)
           y == w
           O2 == FREEHWND(y)
           F == FreedIn(stack)
<1>1. /\ T \subseteq KnownIn(obj) /\ T \subseteq Win /\ Outside(T, stack) /\ \A x \in T : IsWin(obj, x)
  BY TreeKnown, OutsideTree
<1>2. /\ Tree(obj, win, T, F) /\ Fits(obj, win, T, stack) /\ stack \in Seq(FrameRec)
      /\ obj \in Objs /\ win \in Wins /\ Kinds(obj, win) /\ NoCycle(OverIn(obj, win))
  BY DEF Sound, Fits, Tree
<1>3. Top \in FrameRec /\ Good(obj, win, T, Top) /\ y = Top.hWnd
  BY Stacked
<1>4. /\ y \in KnownIn(obj) /\ y \in Win /\ Members(win, T, y) = {}
  BY <1>3 DEF Good, GoodEnd, KnownIn
<1>5. /\ Fits(obj, win, T, B) /\ B \in Seq(FrameRec)
      /\ \A k \in DOMAIN B : Apart(obj, win, Top, B[k])
      /\ EnteringIn(stack) = EnteringIn(B) \cup {Top.hWnd : x \in {z \in {Top} : IsEntering(z)}}
      /\ FreedIn(stack) = FreedIn(B) \cup {Top.hWnd : x \in {z \in {Top} : z.fn = "FreeWindow"}}
  BY <1>2, BelowTop
<1>6. O2 = [obj EXCEPT ![y] = "marked"]
  BY DEF FREEHWND
<1> HIDE DEF T, B, y, O2, F
<1>7. /\ O2 \in Objs /\ KnownIn(O2) = KnownIn(obj) \ {y} /\ Some(O2) = Some(obj)
      /\ \A x : IsWin(O2, x) <=> IsWin(obj, x)
  BY <1>2, <1>4, <1>6 DEF Objs, KnownIn, Some, IsWin, Alive
<1>8. OverIn(O2, win) = OverIn(obj, win) /\ \A h : FamilyIn(O2, win, h) = FamilyIn(obj, win, h)
  BY <1>7 DEF OverIn, FamilyIn
<1>9. EnteringIn(B) = EnteringIn(stack) /\ FreedIn(B) \cup {y} = F
  BY <1>3, <1>5 DEF IsEntering, F
<1>10. TreeIn(O2, B) = T
  BY <1>7, <1>9 DEF TreeIn, T, F
<1>11. Tree(O2, win, T, FreedIn(B))
  <2>1. Kinds(O2, win)
    <3>1. \A x \in Win : O2[x] \in Alive <=> obj[x] \in Alive
      BY <1>7, Handles DEF IsWin
    <3>2. \A x \in Win : O2[x] = "live" => obj[x] = "live"
      BY <1>7 DEF KnownIn
    <3>3. KnownIn(O2) \subseteq KnownIn(obj)
      BY <1>7
    <3> QED
      BY <1>2, <1>7, <1>8, <3>1, <3>2, <3>3 DEF Kinds
  <2>2. \A x \in T : ParentIn(win, x) # y
    BY <1>4 DEF Members
  <2>3. \A x \in T : ParentIn(win, x) \in {Root} \cup T \cup F
    BY <1>2 DEF Tree
  <2>4. \A x \in T : ParentIn(win, x) \in {Root} \cup T \cup FreedIn(B)
    BY <1>9, <2>2, <2>3
  <2> QED
    BY <1>2, <1>7, <1>8, <2>1, <2>4 DEF Tree
<1>12. Fits(O2, win, T, B)
  <2>1. \A i \in DOMAIN B : Good(O2, win, T, B[i])
    <3> TAKE i \in DOMAIN B
    <3>1. Good(obj, win, T, B[i])
      BY <1>5 DEF Fits
    <3>2. Busy(B[i]) => B[i].hWnd # y
      <4>1. y \in FamilyIn(obj, win, y)
        BY <1>2, <1>4, OverEnds, UnderSelf DEF FamilyIn
      <4> QED
        BY <1>3, <1>5, <4>1 DEF Apart
    <3> QED
      BY <1>2, <1>4, <1>6, <3>1, <3>2, GoodMarked
  <2>2. \A i \in DOMAIN B : \A k \in 1 .. i - 1 : Apart(O2, win, B[i], B[k])
    BY <1>5, <1>8 DEF Fits, Apart
  <2> QED
    BY <1>5, <2>1, <2>2 DEF Fits
<1> QED
  BY <1>10, <1>11, <1>12 DEF Sound, T, O2, y, B, Return

LEMMA HandleFreed ==
    ASSUME Sound(obj, win, stack), stack # <<>>, Top.fn = "FreeWindow", Top.at = "free",
           NEW R, R = IF w \in Held(Return) THEN win ELSE [win EXCEPT ![w] = NoWindow]
    PROVE  LET O3 == Released(FREEHWND(w), Return)
               T == TreeIn(obj, stack)
           IN /\ Sound(O3, R, Return) /\ MarkedHeld(O3, Return) /\ TreeIn(O3, Return) = T
              /\ \A C : Has(C, win, T) => Has(C, R, T)
<1> DEFINE T == TreeIn(obj, stack)
           O2 == FREEHWND(w)
           B == Return
           O3 == Released(O2, B)
<1>1. Sound(O2, win, B) /\ TreeIn(O2, B) = T
  BY FreedHandle
<1>2. Sound(O3, win, B) /\ MarkedHeld(O3, B) /\ TreeIn(O3, B) = T
  BY <1>1, SoundReleased
<1>3. obj \in Objs /\ win \in Wins /\ w \in Win
  <2>1. Top \in FrameRec /\ Good(obj, win, T, Top) /\ w = Top.hWnd
    BY Stacked
  <2> QED
    BY <2>1 DEF Sound, Tree, Good, GoodEnd, KnownIn
<1>4. Alike(O3, win, R, B)
  <2>1. CASE w \in HeldIn(B)
    BY <1>3, <2>1, StateIs DEF Alike, SameBut, SameLinks
  <2>2. CASE w \notin HeldIn(B)
    <3>1. R = [win EXCEPT ![w] = NoWindow]
      BY <2>2, StateIs
    <3>2. NoWindow \in WinRec
      BY Handles DEF NoWindow, WinRec
    <3>3. ~IsWin(O3, w)
      <4>1. O2[w] = "marked"
        BY <1>3 DEF FREEHWND, Objs
      <4>2. O3[w] = "gone"
        BY <1>3, <2>2, <4>1 DEF Released
      <4> QED
        BY <1>3, <4>2, Handles DEF IsWin, Alive
    <3>4. \A x \in Window : x # w => R[x] = win[x]
      BY <1>3, <3>1 DEF Wins
    <3>5. R \in Wins
      BY <1>3, <3>1, <3>2 DEF Wins
    <3> QED
      BY <2>2, <3>3, <3>4, <3>5 DEF Alike, SameBut, SameLinks
  <2> QED
    BY <2>1, <2>2
<1> HIDE DEF T, O2, B, O3
<1>5. Sound(O3, R, B) /\ \A C : Has(C, win, TreeIn(O3, B)) => Has(C, R, TreeIn(O3, B))
  BY <1>2, <1>4, SoundAlike
<1> QED
  BY <1>2, <1>5 DEF T, O2, B, O3

----------------------------------------------------------------------------
(* Calls of the program *)

\* The procedure that makes the call, if there is one, makes no other.
LEMMA CallerIs ==
    ASSUME NEW W, Sound(obj, W, stack), ProgramRuns
    PROVE  Calm(W, stack, Caller) /\ Caller \in Seq(FrameRec)
<1>1. CASE stack = <<>>
  <2>1. Caller = stack
    BY <1>1 DEF Caller
  <2> QED
    BY <2>1 DEF Calm, Sound, Fits
<1>2. CASE stack # <<>>
  <2>1. Top.fn = "Proc" /\ Top \in FrameRec /\ w \in HWND /\ Good(obj, W, TreeIn(obj, stack), Top) /\ w = Top.hWnd
    BY <1>2, Stacked DEF ProgramRuns
  <2>2. Top.at \in Stages \cup Messages
    BY <2>1 DEF FrameRec
  <2> DEFINE g == Moved(Top.at, w)
  <2>3. IsMoved(g, Top, Top.at, w)
    BY <2>1, <2>2, MovedIs DEF Moved
  <2>4. Good(obj, W, TreeIn(obj, stack), g)
    <3>1. g.fn = "Proc" /\ g.hWnd = Top.hWnd
      BY <2>1, <2>3 DEF IsMoved
    <3> HIDE DEF g
    <3> QED
      BY <2>1, <3>1 DEF Good, GoodCreate, GoodPlace, GoodEnd, IsEntering
  <2>5. ~IsEntering(Top) /\ ~IsEntering(g)
    BY <2>1, <2>3 DEF IsEntering, IsMoved
  <2>6. Calm(W, stack, On(Top.at, w)) /\ On(Top.at, w) \in Seq(FrameRec)
    BY <1>2, <2>1, <2>2, <2>4, <2>5, GoesOnGood
  <2>7. Caller = On(Top.at, w)
    <3>1. [Top EXCEPT !.next = w] = [Top EXCEPT !.at = Top.at, !.next = w]
      BY <2>1 DEF FrameRec
    <3> QED
      BY <1>2, <3>1 DEF Caller, On, Moved
  <2> QED
    BY <2>6, <2>7
<1> QED
  BY <1>1, <1>2

\* Nothing but h comes to h when no link goes there.
LEMMA UnderNone ==
    ASSUME NEW link \in Links, EndsOut(link), NEW h \in Win, \A x \in Win : link[x] # h
    PROVE  Under(link, h) = {h}
<1> DEFINE S == {h}
<1>1. S \subseteq Win /\ h \in S /\ \A x \in Win : link[x] \in S => x \in S
  OBVIOUS
<1> HIDE DEF S
<1>2. Under(link, h) \subseteq S
  BY <1>1, UnderLeast
<1> QED
  BY <1>2, UnderSelf DEF S

LEMMA FreedGoing ==
    /\ FreedIn(stack) \subseteq About({"FreeWindow"})
    /\ \A x \in Win : x \in FreedIn(stack) \/ obj[x] = "marked" => x \in Going
    /\ \A x \in Going : Family(x) \subseteq Doomed
BY StateIs DEF Going, Doomed, About

\* Who is over a window that a call may use is there, and stays.
LEMMA NotDoomed ==
    ASSUME Sound(obj, win, stack), NEW h \in Known, h \notin Doomed \cup Entering
    PROVE  /\ h \in TreeIn(obj, stack) /\ ParentIn(win, h) \in {Root} \cup TreeIn(obj, stack)
           /\ Safe(obj, win, TreeIn(obj, stack), h)
<1> DEFINE T == TreeIn(obj, stack)
           F == FreedIn(stack)
           over == OverIn(obj, win)
<1>1. /\ Tree(obj, win, T, F) /\ obj \in Objs /\ win \in Wins /\ Fits(obj, win, T, stack)
      /\ Outside(T, stack)
  BY OutsideTree DEF Sound, Tree
<1>2. /\ over \in Links /\ EndsOut(over)
  BY <1>1, OverEnds
<1>3. h \in Win /\ h \in KnownIn(obj) /\ IsWin(obj, h) /\ h \notin EnteringIn(stack)
  BY StateIs DEF KnownIn, IsWin, Alive
<1>4. \A a \in Win : h \in Under(over, a) => a \notin Going
  BY FreedGoing, StateIs DEF FamilyIn
<1>5. h \in Under(over, h)
  BY <1>2, <1>3, UnderSelf
<1>6. h \in T
  <2>1. h \notin F
    BY <1>3, <1>4, <1>5, FreedGoing
  <2> QED
    BY <1>3, <2>1 DEF TreeIn
<1>7. F \subseteq Win
  BY <1>1 DEF Outside, FreedIn
<1>8. ParentIn(win, h) \in {Root} \cup T
  <2>1. ParentIn(win, h) \in {Root} \cup T \cup F
    BY <1>1, <1>6 DEF Tree
  <2>2. ASSUME ParentIn(win, h) \in F PROVE FALSE
    <3> DEFINE q == ParentIn(win, h)
    <3>1. q \in Win /\ q # Root
      BY <1>7, <2>2, Handles
    <3>2. over[h] = q
      BY <1>3, <3>1, Handles DEF OverIn, ParentIn
    <3>3. h \in Under(over, q)
      BY <1>2, <1>3, <3>1, <3>2, UnderSelf, UnderClosed
    <3> QED
      BY <1>4, <2>2, <3>1, <3>3, FreedGoing
  <2> QED
    BY <2>1, <2>2
<1>9. Safe(obj, win, T, h)
  <2> SUFFICES ASSUME NEW a \in Win, h \in Under(over, a), IsWin(obj, a) PROVE a \in T
    BY DEF Safe, Firm, FamilyIn
  <2>1. a \notin Going
    BY <1>4
  <2>2. a \in KnownIn(obj) /\ a \notin F
    <3>1. obj[a] \in Alive
      BY Handles DEF IsWin
    <3> QED
      BY <2>1, <3>1, FreedGoing DEF KnownIn, Alive
  <2>3. a \notin EnteringIn(stack)
    <3> SUFFICES ASSUME a \in EnteringIn(stack) PROVE FALSE
      OBVIOUS
    <3>1. PICK i \in DOMAIN stack : IsEntering(stack[i]) /\ stack[i].hWnd = a
      BY DEF EnteringIn
    <3>2. \A x \in Win : over[x] # a
      BY <1>1, <3>1 DEF Fits, Good, GoodCreate
    <3>3. Under(over, a) = {a}
      BY <1>2, <3>2, UnderNone
    <3> HIDE DEF over
    <3>4. h = a
      BY <3>3
    <3> QED
      BY <1>3, <3>4
  <2> QED
    BY <2>2, <2>3 DEF TreeIn
<1> QED
  BY <1>6, <1>8, <1>9

----------------------------------------------------------------------------
(* A window is created *)

\* h, which is no window in O and W, is one in O2 and W2, and pp is over it.
IsNew(O, W, O2, W2, T, h, pp) ==
    /\ O \in Objs /\ W \in Wins /\ O2 \in Objs /\ W2 \in Wins
    /\ Kinds(O, W) /\ NoCycle(OverIn(O, W)) /\ T \subseteq KnownIn(O)
    /\ h \in Win /\ O[h] = "none" /\ O2[h] = "live" /\ \A x \in Win : x # h => O2[x] = O[x]
    /\ \A x \in Window : x # h => W2[x] = W[x]
    /\ pp \in {Null} \cup T
    /\ pp = IF W2[h].kind = "child" THEN W2[h].hWndParent ELSE W2[h].hWndOwner
    /\ W2[h].kind = "child" <=> W2[h].hWndParent # Null
    /\ W2[h].hWndOwner # Null => W2[h].kind = "popup" /\ W[pp].kind # "child"
    /\ W2[h].hWndSibling = Null /\ W2[h].hWndChild = Null /\ W2[h].hWndLastChild = Null

LEMMA NewIs ==
    ASSUME NEW O, NEW W, NEW O2, NEW W2, NEW T, NEW h, NEW pp, IsNew(O, W, O2, W2, T, h, pp)
    PROVE  /\ KnownIn(O2) = KnownIn(O) \cup {h} /\ Some(O2) = Some(O) \cup {h} /\ h \notin Some(O)
           /\ \A x : x # h => (IsWin(O2, x) <=> IsWin(O, x))
           /\ IsWin(O2, h) /\ ~IsWin(O, h)
           /\ T \subseteq Win /\ T \subseteq Some(O) /\ h \notin T /\ pp # h
           /\ \A x \in Win : x # h => ParentIn(W2, x) = ParentIn(W, x)
           /\ \A q : Members(W2, T, q) = Members(W, T, q)
<1>1. /\ KnownIn(O2) = KnownIn(O) \cup {h} /\ Some(O2) = Some(O) \cup {h} /\ h \notin Some(O)
  BY DEF IsNew, KnownIn, Some
<1>2. /\ \A x : x # h => (IsWin(O2, x) <=> IsWin(O, x))
      /\ IsWin(O2, h) /\ ~IsWin(O, h)
  BY Handles DEF IsNew, IsWin, Alive
<1>3. /\ T \subseteq Win /\ T \subseteq Some(O) /\ h \notin T /\ pp # h
  BY Handles DEF IsNew, KnownIn, Some
<1>4. \A x \in Win : x # h => ParentIn(W2, x) = ParentIn(W, x)
  BY DEF IsNew, ParentIn, Window
<1>5. \A q : Members(W2, T, q) = Members(W, T, q)
  BY <1>3, <1>4 DEF Members
<1> QED
  BY <1>1, <1>2, <1>3, <1>4, <1>5

LEMMA NewOver ==
    ASSUME NEW O, NEW W, NEW O2, NEW W2, NEW T, NEW h, NEW pp, IsNew(O, W, O2, W2, T, h, pp)
    PROVE  /\ OverIn(O2, W2)[h] = pp /\ \A x \in Win : OverIn(O2, W2)[x] # h
           /\ \A x \in Win : x # h => OverIn(O2, W2)[x] = OverIn(O, W)[x]
           /\ \A x \in Win : OverIn(O, W)[x] \in {Null} \cup Some(O)
           /\ NoCycle(OverIn(O2, W2))
           /\ \A a \in Win : FamilyIn(O2, W2, a) \subseteq FamilyIn(O, W, a) \cup {h}
           /\ FamilyIn(O2, W2, h) = {h} /\ FamilyIn(O, W, h) = {h}
<1> DEFINE old == OverIn(O, W)
           new == OverIn(O2, W2)
<1>1. /\ old \in Links /\ EndsOut(old) /\ new \in Links /\ EndsOut(new)
  BY OverEnds DEF IsNew
<1>2. /\ h \in Win /\ h \notin Some(O) /\ pp # h /\ ~IsWin(O, h) /\ IsWin(O2, h)
      /\ \A x : x # h => (IsWin(O2, x) <=> IsWin(O, x))
  BY NewIs DEF IsNew
<1>3. new[h] = pp
  BY <1>2, Handles DEF IsNew, OverIn
<1>4. \A x \in HWND \ {h} : new[x] = old[x]
  BY <1>2 DEF IsNew, OverIn, Window
<1>5. \A x \in Win : old[x] \in {Null} \cup Some(O)
  <2>1. \A x \in Win : ~IsWin(O, x) => old[x] = Null
    BY Handles DEF OverIn
  <2>2. \A x \in Win : IsWin(O, x) => O[x] \in Alive
    BY Handles DEF IsWin
  <2> QED
    BY <2>1, <2>2 DEF IsNew, Kinds
<1>6. (\A x \in Win : old[x] # h) /\ (\A x \in Win : new[x] # h)
  BY <1>2, <1>3, <1>4, <1>5, Handles
<1> HIDE DEF old, new
<1>7. Under(old, h) = {h} /\ Under(new, h) = {h}
  BY <1>1, <1>2, <1>6, UnderNone
<1>8. /\ \A a \in Win : Under(new, a) \subseteq Under(old, a) \cup Under(old, h)
      /\ NoCycle(old) => NoCycle(new)
  <2>1. new[h] \notin Under(old, h)
    BY <1>2, <1>3, <1>7
  <2> QED
    BY <1>1, <1>2, <1>4, <2>1, UnderChanged
<1>9. NoCycle(old)
  BY DEF IsNew, old
<1>10. \A x \in Win : x # h => new[x] = old[x]
  BY <1>4, Handles
<1> QED
  BY <1>3, <1>5, <1>6, <1>7, <1>8, <1>9, <1>10 DEF old, new, FamilyIn

LEMMA NewKinds ==
    ASSUME NEW O, NEW W, NEW O2, NEW W2, NEW T, NEW h, NEW pp, IsNew(O, W, O2, W2, T, h, pp)
    PROVE  Kinds(O2, W2)
<1> DEFINE old == OverIn(O, W)
           new == OverIn(O2, W2)
<1>1. /\ KnownIn(O2) = KnownIn(O) \cup {h} /\ Some(O2) = Some(O) \cup {h} /\ h \notin Some(O)
      /\ T \subseteq Some(O) /\ h \in Win /\ Root # h
  BY NewIs, Handles DEF IsNew
<1>2. /\ new[h] = pp /\ \A x \in Win : new[x] # h
      /\ \A x \in Win : x # h => new[x] = old[x]
      /\ \A x \in Win : old[x] \in {Null} \cup Some(O)
  BY NewOver
<1>3. /\ \A x \in Win : x # h => W2[x] = W[x] /\ O2[x] = O[x]
      /\ W2[Root] = W[Root]
  BY <1>1 DEF IsNew, Window
<1>4. W2[Root].kind # "child" /\ W2[Root].hWndOwner = Null
  BY <1>3 DEF IsNew, Kinds
<1> HIDE DEF old, new
<1>5. ASSUME NEW x \in Win, O2[x] \in Alive, x # h
      PROVE  /\ new[x] \in {Null} \cup Some(O2)
             /\ W2[x].kind = "child" <=> W2[x].hWndParent # Null
             /\ W2[x].hWndOwner # Null => W2[x].kind = "popup"
             /\ O2[x] = "live" /\ W2[x].hWndOwner \in KnownIn(O2) => W2[W2[x].hWndOwner].kind # "child"
  <2>1. W2[x] = W[x] /\ O2[x] = O[x] /\ new[x] = old[x]
    BY <1>2, <1>3, <1>5
  <2>2. /\ W[x].kind = "child" <=> W[x].hWndParent # Null
        /\ W[x].hWndOwner # Null => W[x].kind = "popup"
        /\ O[x] = "live" /\ W[x].hWndOwner \in KnownIn(O) => W[W[x].hWndOwner].kind # "child"
    BY <1>5, <2>1 DEF IsNew, Kinds
  <2>3. W[x].hWndOwner \in KnownIn(O2) => W[x].hWndOwner \in KnownIn(O) /\ W2[W[x].hWndOwner] = W[W[x].hWndOwner]
    <3>1. KnownIn(O2) \subseteq Win /\ Null \notin Win
      BY Handles DEF KnownIn
    <3>2. W[x].hWndOwner # h
      <4>1. IsWin(O, x) /\ x \in HWND
        BY <1>5, <2>1, Handles DEF IsWin
      <4>2. W[x].hWndOwner # Null => old[x] = W[x].hWndOwner
        BY <2>2, <4>1 DEF old, OverIn
      <4>3. old[x] # h
        BY <1>2, <2>1
      <4> QED
        BY <1>1, <4>2, <4>3, Handles
    <3> QED
      BY <1>1, <1>3, <3>1, <3>2
  <2> QED
    BY <1>1, <1>2, <2>1, <2>2, <2>3
<1>6. /\ new[h] \in {Null} \cup Some(O2)
      /\ W2[h].kind = "child" <=> W2[h].hWndParent # Null
      /\ W2[h].hWndOwner # Null => W2[h].kind = "popup"
      /\ W2[h].hWndOwner \in KnownIn(O2) => W2[W2[h].hWndOwner].kind # "child"
  <2>1. W2[h].hWndOwner \in KnownIn(O2) => W2[h].hWndOwner # Null
    BY Handles DEF KnownIn
  <2>2. ASSUME W2[h].hWndOwner # Null PROVE W2[W2[h].hWndOwner].kind # "child"
    <3>1. W2[h].kind = "popup" /\ pp = W2[h].hWndOwner /\ W[pp].kind # "child"
      BY <2>2 DEF IsNew
    <3>2. pp # h /\ pp \in Win
      BY <2>2, <3>1, NewIs DEF IsNew
    <3> QED
      BY <1>3, <3>1, <3>2
  <2> QED
    BY <1>1, <1>2, <2>1, <2>2 DEF IsNew
<1> QED
  BY <1>4, <1>5, <1>6 DEF Kinds, new

LEMMA GoodNew ==
    ASSUME NEW O, NEW W, NEW O2, NEW W2, NEW T, NEW h, NEW pp, IsNew(O, W, O2, W2, T, h, pp),
           NEW f, Good(O, W, T, f), IsEntering(f) => pp # f.hWnd
    PROVE  Good(O2, W2, T, f)
<1> DEFINE y == f.hWnd
<1>1. /\ KnownIn(O2) = KnownIn(O) \cup {h} /\ Some(O2) = Some(O) \cup {h} /\ h \notin Some(O)
      /\ \A x : x # h => (IsWin(O2, x) <=> IsWin(O, x))
      /\ T \subseteq Win /\ h \notin T /\ h \in Win
      /\ \A x \in Win : x # h => ParentIn(W2, x) = ParentIn(W, x)
      /\ \A q : Members(W2, T, q) = Members(W, T, q)
  BY NewIs DEF IsNew
<1>2. /\ OverIn(O2, W2)[h] = pp
      /\ \A x \in Win : x # h => OverIn(O2, W2)[x] = OverIn(O, W)[x]
      /\ \A x \in Win : OverIn(O, W)[x] \in {Null} \cup Some(O)
      /\ \A a \in Win : FamilyIn(O2, W2, a) \subseteq FamilyIn(O, W, a) \cup {h}
      /\ FamilyIn(O2, W2, h) = {h} /\ FamilyIn(O, W, h) = {h}
  BY NewOver
<1>3. /\ \A x \in Win : x # h => W2[x] = W[x]
      /\ h \notin KnownIn(O) /\ h # Null
  BY <1>1, Handles DEF IsNew, Window, KnownIn
<1>4. /\ f.fn # "SendDestroyMessages" => y \in {Null} \cup Some(O)
      /\ GoodCreate(O, W, T, f) /\ GoodPlace(O, W, T, f) /\ GoodEnd(O, W, T, f)
  BY DEF Good
<1>5. GoodCreate(O2, W2, T, f)
  <2>1. ASSUME IsEntering(f)
        PROVE  /\ y \in KnownIn(O2) /\ ParentIn(W2, y) \in {Root} \cup T
               /\ W2[y].hWndSibling = Null /\ W2[y].hWndChild = Null /\ W2[y].hWndLastChild = Null
               /\ \A x \in Win : OverIn(O2, W2)[x] # y
    <3>1. /\ y \in KnownIn(O) /\ ParentIn(W, y) \in {Root} \cup T
          /\ W[y].hWndSibling = Null /\ W[y].hWndChild = Null /\ W[y].hWndLastChild = Null
          /\ \A x \in Win : OverIn(O, W)[x] # y
      BY <1>4, <2>1 DEF GoodCreate
    <3>2. y # h /\ y \in Win
      BY <1>3, <3>1 DEF KnownIn
    <3> QED
      BY <1>1, <1>2, <1>3, <2>1, <3>1, <3>2
  <2> QED
    BY <1>4, <2>1 DEF GoodCreate
<1>6. GoodPlace(O2, W2, T, f)
  <2>1. y \in T => ParentIn(W2, y) = ParentIn(W, y)
    BY <1>1
  <2>2. f.fn = "SetWindowPos" => ~IsEntering(f)
    BY DEF IsEntering
  <2> QED
    BY <1>1, <1>4, <2>1, <2>2 DEF GoodPlace
<1>7. GoodEnd(O2, W2, T, f)
  <2>1. \A x : x # h /\ Firm(O, T, x) => Firm(O2, T, x)
    BY <1>1 DEF Firm
  <2>3. ASSUME f.fn = "DestroyWindow", NEW a \in Win, y \in FamilyIn(O2, W2, a) PROVE Firm(O2, T, a)
    <3>1. y # h
      BY <1>1, <1>3, <1>4, <2>3
    <3>2. a # h /\ y \in FamilyIn(O, W, a)
      BY <1>2, <2>3, <3>1
    <3> QED
      BY <1>4, <2>1, <2>3, <3>2 DEF GoodEnd
  <2>4. ASSUME f.fn = "FreeWindow"
        PROVE  /\ y \in KnownIn(O2) /\ Firm(O2, T, W2[y].hWndOwner)
               /\ IF f.at = "children" THEN \E c : Chain(c, W2, f.next) /\ Elements(c) = Members(W2, T, y)
                  ELSE Members(W2, T, y) = {}
    <3>1. /\ y \in KnownIn(O) /\ Firm(O, T, W[y].hWndOwner) /\ y # h /\ y \in Win
      BY <1>3, <1>4, <2>4 DEF GoodEnd, KnownIn
    <3>2. W2[y] = W[y] /\ W[y].hWndOwner # h
      <4>1. IsWin(O, y) /\ y \in HWND
        BY <3>1, Handles DEF KnownIn, IsWin, Alive
      <4>2. W[y].hWndOwner # Null => W[y].kind # "child"
        <5>1. O[y] \in Alive
          BY <3>1 DEF KnownIn, Alive
        <5> QED
          BY <3>1, <5>1 DEF IsNew, Kinds
      <4>3. W[y].hWndOwner # Null => OverIn(O, W)[y] = W[y].hWndOwner
        BY <3>1, <4>1, <4>2 DEF OverIn
      <4> QED
        BY <1>1, <1>2, <1>3, <3>1, <4>3
    <3>3. ASSUME f.at = "children" PROVE \E c : Chain(c, W2, f.next) /\ Elements(c) = Members(W2, T, y)
      <4>1. PICK c : Chain(c, W, f.next) /\ Elements(c) = Members(W, T, y)
        BY <1>4, <2>4, <3>3 DEF GoodEnd
      <4>2. \A x \in Elements(c) : W2[x].hWndSibling = W[x].hWndSibling
        BY <1>1, <1>3, <4>1 DEF Members
      <4> QED
        BY <1>1, <4>1, <4>2, SameChain
    <3>4. f.at # "children" => Members(W2, T, y) = {}
      BY <1>1, <1>4, <2>4 DEF GoodEnd
    <3> QED
      BY <1>1, <2>1, <3>1, <3>2, <3>3, <3>4
  <2> QED
    BY <2>3, <2>4 DEF GoodEnd
<1> QED
  BY <1>1, <1>4, <1>5, <1>6, <1>7 DEF Good

LEMMA ApartNew ==
    ASSUME NEW O, NEW W, NEW O2, NEW W2, NEW T, NEW h, NEW pp, IsNew(O, W, O2, W2, T, h, pp),
           NEW f, NEW g, Apart(O, W, f, g), Good(O, W, T, f), Good(O, W, T, g)
    PROVE  Apart(O2, W2, f, g)
<1>1. /\ h \notin Some(O) /\ T \subseteq Some(O) /\ h \in Win /\ T \subseteq Win /\ h # Null /\ h # Root
  BY NewIs, Handles DEF IsNew
<1>2. ASSUME f.fn \in {"DestroyWindow", "FreeWindow"}
      PROVE  FamilyIn(O2, W2, f.hWnd) \subseteq FamilyIn(O, W, f.hWnd) \cup {h}
  BY <1>1, <1>2, NewOver, EndsWindow
<1>3. g.fn # "SendDestroyMessages" => g.hWnd # h
  BY <1>1 DEF Good
<1>4. g.fn = "SetWindowPos" => g.next # h
  <2>1. \A q : Members(W, T, q) \subseteq T
    BY DEF Members
  <2>2. g.fn = "SetWindowPos" => g.next \in {Null, Root} \cup Members(W, T, ParentIn(W, g.hWnd))
    BY DEF Good, GoodPlace
  <2> QED
    BY <1>1, <2>1, <2>2
<1>5. \A x \in Win : x # h => W2[x] = W[x]
  BY DEF IsNew, Window
<1>6. \A a : FamilyIn(O, W, a) \subseteq Win
  BY DEF FamilyIn, Under
<1>7. Busy(g) => g.fn # "SendDestroyMessages"
  BY DEF Busy
<1> QED
  BY <1>2, <1>3, <1>4, <1>5, <1>6, <1>7 DEF Apart

\* A new window is over nobody, and nobody relies on it.
LEMMA NewWindow ==
    ASSUME NEW S, Sound(obj, win, S), NEW h, NEW pp, NEW O2, NEW W2,
           IsNew(obj, win, O2, W2, TreeIn(obj, S), h, pp)
    PROVE  LET S2 == S \o <<Frame("CreateWindowEx", "insert", h, Null)>>
               T == TreeIn(obj, S)
           IN /\ Sound(O2, W2, S2) /\ TreeIn(O2, S2) = T
              /\ \A C : Has(C, win, T) => Has(C, W2, T)
<1> DEFINE T == TreeIn(obj, S)
           F == FreedIn(S)
           f == Frame("CreateWindowEx", "insert", h, Null)
           S2 == S \o <<f>>
<1>1. /\ T \subseteq KnownIn(obj) /\ T \subseteq Win /\ Outside(T, S)
  BY TreeKnown, OutsideTree
<1>2. /\ Tree(obj, win, T, F) /\ Fits(obj, win, T, S) /\ S \in Seq(FrameRec)
  BY DEF Sound, Fits
<1>3. IsNew(obj, win, O2, W2, T, h, pp)
  OBVIOUS
<1>4. IsFrame(f, "CreateWindowEx", "insert", h, Null)
  <2>1. "CreateWindowEx" \in Fns /\ "insert" \in Stages \cup Messages /\ h \in HWND /\ Null \in HWND
    BY Handles DEF IsNew, Fns, Stages
  <2> QED
    BY <2>1, FrameIs
<1> HIDE DEF T, F, f, S2
<1>5. /\ f \in FrameRec /\ f.fn = "CreateWindowEx" /\ f.at = "insert" /\ f.hWnd = h /\ ~f.refused
      /\ IsEntering(f)
  BY <1>4 DEF IsFrame, IsEntering
<1>6. S2 = Append(S, f)
  BY <1>2, <1>5, Joined DEF S2
<1>7. /\ KnownIn(O2) = KnownIn(obj) \cup {h} /\ Some(O2) = Some(obj) \cup {h} /\ h \notin Some(obj)
      /\ h \notin T /\ h \in Win /\ h # Root /\ h # Null /\ pp # h
      /\ \A x \in Win : x # h => ParentIn(W2, x) = ParentIn(win, x)
      /\ \A q : Members(W2, T, q) = Members(win, T, q)
      /\ \A x \in Window : x # h => W2[x] = win[x]
      /\ O2 \in Objs /\ W2 \in Wins
  <2>1. /\ KnownIn(O2) = KnownIn(obj) \cup {h} /\ Some(O2) = Some(obj) \cup {h} /\ h \notin Some(obj)
        /\ h \notin T /\ pp # h
        /\ \A x \in Win : x # h => ParentIn(W2, x) = ParentIn(win, x)
        /\ \A q : Members(W2, T, q) = Members(win, T, q)
    BY <1>3, NewIs
  <2>2. /\ h \in Win /\ O2 \in Objs /\ W2 \in Wins
        /\ \A x \in Window : x # h => W2[x] = win[x]
    BY <1>3 DEF IsNew
  <2> QED
    BY <2>1, <2>2, Handles
<1>8. EnteringIn(S2) = EnteringIn(S) \cup {h} /\ FreedIn(S2) = F
  <2>1. /\ EnteringIn(S2) = EnteringIn(S) \cup {f.hWnd : x \in {y \in {f} : IsEntering(y)}}
        /\ FreedIn(S2) = FreedIn(S) \cup {f.hWnd : x \in {y \in {f} : y.fn = "FreeWindow"}}
    BY <1>2, <1>5, <1>6, AppendedSets
  <2> QED
    BY <1>5, <2>1 DEF F
<1>9. TreeIn(O2, S2) = T
  <2>1. h \notin KnownIn(obj)
    BY <1>7 DEF KnownIn, Some
  <2> QED
    BY <1>7, <1>8, <2>1 DEF TreeIn, T, F
<1>10. ASSUME NEW C, Has(C, win, T) PROVE Has(C, W2, T)
  <2>1. \A q \in {Root} \cup T : W2[q] = win[q]
    BY <1>1, <1>7 DEF Window
  <2>2. ASSUME NEW q \in {Root} \cup T
        PROVE  Chain(C[q], W2, W2[q].hWndChild) /\ Elements(C[q]) = Members(W2, T, q)
    <3>1. Chain(C[q], win, win[q].hWndChild) /\ Elements(C[q]) = Members(win, T, q)
      BY <1>10 DEF Has, Lists
    <3>2. \A x \in Elements(C[q]) : W2[x].hWndSibling = win[x].hWndSibling
      BY <2>1, <3>1 DEF Members
    <3> QED
      BY <1>7, <2>1, <3>1, <3>2, SameChain
  <2> QED
    BY <1>10, <2>2 DEF Has, Lists
<1>11. Tree(O2, W2, T, F)
  <2>1. Kinds(O2, W2) /\ NoCycle(OverIn(O2, W2))
    BY <1>3, NewKinds, NewOver
  <2>2. \E C : Lists(C, W2, {Root} \cup T, T)
    BY <1>2, <1>10 DEF Tree, Has
  <2>3. Groups(W2, {Root} \cup T, T)
    <3>1. Groups(win, {Root} \cup T, T)
      BY <1>2 DEF Tree
    <3>2. \A q \in {Root} \cup T : W2[q] = win[q]
      BY <1>1, <1>7 DEF Window
    <3>3. ASSUME NEW q \in {Root} \cup T PROVE Rings(Members(win, T, q), W2)
      <4>1. \A x \in Members(win, T, q) : W2[x].hWndGroup = win[x].hWndGroup
        BY <3>2 DEF Members
      <4> QED
        BY <3>1, <4>1, RingsSame DEF Groups
    <3> QED
      BY <1>7, <3>1, <3>2, <3>3 DEF Groups
  <2>4. \A x \in T : ParentIn(W2, x) \in {Root} \cup T \cup F
    BY <1>1, <1>2, <1>7 DEF Tree
  <2> QED
    BY <1>7, <2>1, <2>2, <2>3, <2>4 DEF Tree
<1>12. Fits(O2, W2, T, S)
  <2>1. \A i \in DOMAIN S : Good(obj, win, T, S[i])
    BY <1>2 DEF Fits
  <2>2. \A i \in DOMAIN S : Good(O2, W2, T, S[i])
    <3> TAKE i \in DOMAIN S
    <3>1. IsEntering(S[i]) => pp # S[i].hWnd
      <4>1. pp \in {Null} \cup T
        BY <1>3 DEF IsNew
      <4> QED
        BY <1>1, <4>1, Handles DEF Outside
    <3> QED
      BY <1>3, <2>1, <3>1, GoodNew
  <2>3. \A i \in DOMAIN S : \A k \in 1 .. i - 1 : Apart(O2, W2, S[i], S[k])
    <3> TAKE i \in DOMAIN S
    <3> TAKE k \in 1 .. i - 1
    <3>1. k \in DOMAIN S
      <4>1. DOMAIN S = 1 .. Len(S) /\ Len(S) \in Nat
        BY <1>2
      <4> QED
        BY <4>1
    <3>2. Apart(obj, win, S[i], S[k])
      BY <1>2 DEF Fits
    <3> QED
      BY <1>3, <2>1, <3>1, <3>2, ApartNew
  <2> QED
    BY <1>2, <2>2, <2>3 DEF Fits
<1>13. Fits(O2, W2, T, S2)
  <2>1. Good(O2, W2, T, f)
    <3>1. ParentIn(W2, h) \in {Root} \cup T
      BY <1>3 DEF IsNew, ParentIn
    <3>2. \A x \in Win : OverIn(O2, W2)[x] # h
      BY <1>3, NewOver
    <3> QED
      BY <1>3, <1>5, <1>7, <3>1, <3>2 DEF Good, GoodCreate, GoodPlace, GoodEnd, IsNew
  <2>2. \A k \in DOMAIN S : Apart(O2, W2, f, S[k])
    <3> TAKE k \in DOMAIN S
    <3>1. S[k].fn # "SendDestroyMessages" => S[k].hWnd # h
      BY <1>2, <1>7 DEF Fits, Good
    <3> QED
      BY <1>5, <3>1 DEF Apart
  <2>3. \A g : Sits(f, g)
    BY <1>5 DEF Sits
  <2> QED
    BY <1>5, <1>6, <1>12, <2>1, <2>2, <2>3, FitsPush
<1>14. Sound(O2, W2, S2)
  BY <1>8, <1>9, <1>11, <1>13 DEF Sound
<1> QED
  BY <1>9, <1>10, <1>14 DEF S2, f, T

----------------------------------------------------------------------------
(* Steps of the program *)

\* h has another parent, and comes first there.
Relocated(W, R, T, h) ==
    \E C : /\ Has(C, W, T)
           /\ \E p \in {Root} \cup T, q \in {Root} \cup T : \E k \in DOMAIN C[p] :
                 C[p][k] = h /\ p # q /\ Has(PutAt(CutAt(C, p, k), q, 1, h), R, T)

\* What a step does to the lists.
Quiet(W, T, R, T2) == T2 = T /\ \A C : Has(C, W, T) => Has(C, R, T)
Change(W, T, R, T2) ==
    \/ Quiet(W, T, R, T2)
    \/ \E h \in Win :
          \/ T2 = T /\ Placed(W, R, T, h)
          \/ T2 = T /\ Relocated(W, R, T, h)
          \/ T2 = T \cup {h} /\ Added(W, R, T, h)
          \/ T2 = T \ {h} /\ Removed(W, R, T, h)
          \/ T2 = T \ {h} /\ R = W /\ Perished(W, T, h)

\* The calls under way become s, and what is no longer held is gone.
LEMMA ContinueIs ==
    ASSUME NEW o, NEW s, Continue(o, s)
    PROVE  stack' = s /\ obj' = Released(o, s)
BY StateIs DEF Continue, Released

Kept ==
    /\ Sound(obj', win', stack') /\ MarkedHeld(obj', stack')
    /\ Change(win, TreeIn(obj, stack), win', TreeIn(obj', stack'))

\* A step that changes the lists as Change says keeps the invariant.
LEMMA StepKept ==
    ASSUME NEW o, NEW s, Continue(o, s), Sound(o, win', s),
           Change(win, TreeIn(obj, stack), win', TreeIn(o, s))
    PROVE  Kept
<1>1. stack' = s /\ obj' = Released(o, s)
  BY ContinueIs
<1>2. /\ Sound(Released(o, s), win', s) /\ MarkedHeld(Released(o, s), s)
      /\ TreeIn(Released(o, s), s) = TreeIn(o, s)
  BY SoundReleased
<1> QED
  BY <1>1, <1>2 DEF Kept

LEMMA CalmKept ==
    ASSUME NEW s, Continue(obj, s), win' = win, Calm(win, stack, s)
    PROVE  Kept
<1>1. Change(win, TreeIn(obj, stack), win', TreeIn(obj, s))
  BY DEF Calm, Change, Quiet
<1>2. Sound(obj, win', s)
  BY DEF Calm
<1> QED
  BY <1>1, <1>2, StepKept

\* The calls under the one that is made.
LEMMA CallerFrames ==
    ASSUME stack \in Seq(FrameRec), ProgramRuns
    PROVE  \A k \in DOMAIN Caller : \E j \in DOMAIN stack :
               /\ stack[j].fn = Caller[k].fn /\ stack[j].hWnd = Caller[k].hWnd
               /\ Caller[k].fn = "SetWindowPos" => stack[j].next = Caller[k].next
<1>1. CASE stack = <<>>
  BY <1>1 DEF Caller
<1>2. CASE stack # <<>>
  <2> DEFINE B == Front(stack)
             g == [Top EXCEPT !.next = w]
             n == Len(stack)
  <2>1. /\ B \in Seq(FrameRec) /\ Top \in FrameRec /\ Top = stack[n] /\ Len(B) = n - 1 /\ n \in Nat \ {0}
        /\ \A i \in DOMAIN B : B[i] = stack[i]
    BY <1>2, FrontOf DEF Top
  <2>2. g \in FrameRec /\ g.fn = Top.fn /\ g.hWnd = Top.hWnd /\ g.fn = "Proc"
    <3>1. w \in HWND /\ Top.fn = "Proc"
      BY <1>2, <2>1 DEF w, FrameRec, ProgramRuns
    <3> QED
      BY <2>1, <3>1 DEF FrameRec
  <2>3. Caller = B \o <<g>>
    BY <1>2 DEF Caller
  <2> HIDE DEF B, g
  <2>4. Caller = Append(B, g)
    BY <2>1, <2>2, <2>3, Joined
  <2>5. /\ DOMAIN B = 1 .. Len(B) /\ DOMAIN Caller = 1 .. Len(B) + 1 /\ Len(B) \in Nat
        /\ \A i \in DOMAIN B : Caller[i] = B[i]
        /\ Caller[Len(B) + 1] = g
    BY <2>1, <2>2, <2>4, Appended
  <2> HIDE DEF n
  <2>6. DOMAIN stack = 1 .. n
    BY DEF n
  <2> TAKE k \in DOMAIN Caller
  <2>7. CASE k \in DOMAIN B
    <3>1. k \in DOMAIN stack /\ stack[k] = Caller[k]
      BY <2>1, <2>5, <2>6, <2>7
    <3> QED
      BY <3>1
  <2>8. CASE k \notin DOMAIN B
    <3>1. Caller[k] = g /\ n \in DOMAIN stack /\ stack[n] = Top
      BY <2>1, <2>5, <2>6, <2>8
    <3> QED
      BY <2>2, <3>1
  <2> QED
    BY <2>7, <2>8
<1> QED
  BY <1>1, <1>2

\* DestroyWindow is called.
LEMMA DestroyPush ==
    ASSUME NEW S, Sound(obj, win, S), NEW h \in TreeIn(obj, S),
           ParentIn(win, h) \in {Root} \cup TreeIn(obj, S), Safe(obj, win, TreeIn(obj, S), h),
           \A k \in DOMAIN S : \A f : f.fn = "DestroyWindow" /\ f.hWnd = h => Apart(obj, win, f, S[k])
    PROVE  Calm(win, S, S \o DestroyCall(h))
<1> DEFINE T == TreeIn(obj, S)
           at == IF win[h].kind = "child" THEN "notify" ELSE "hide"
           f == Frame("DestroyWindow", at, h, h)
<1>1. h \in Win /\ IsWin(obj, h) /\ h \in Some(obj) /\ IsWindow(h)
  BY TreeKnown, StateIs
<1>2. IsFrame(f, "DestroyWindow", at, h, h)
  <2>1. "DestroyWindow" \in Fns /\ at \in Stages \cup Messages /\ h \in HWND
    BY <1>1, Handles DEF Fns, Stages
  <2> QED
    BY <2>1, FrameIs
<1>3. DestroyCall(h) = <<f>>
  BY <1>1 DEF DestroyCall
<1> HIDE DEF f, at, T
<1>4. f \in FrameRec /\ f.fn = "DestroyWindow" /\ f.hWnd = h
  BY <1>2 DEF IsFrame
<1>5. Good(obj, win, T, f)
  BY <1>1, <1>4 DEF Good, GoodCreate, GoodPlace, GoodEnd, IsEntering, Safe, T
<1>6. \A g : Sits(f, g)
  BY <1>4 DEF Sits
<1>7. ~IsEntering(f) /\ f.fn # "FreeWindow"
  BY <1>4 DEF IsEntering
<1>8. Calm(win, S, S \o <<f>>)
  BY <1>4, <1>5, <1>6, <1>7, CalmPush DEF T
<1> QED
  BY <1>3, <1>8

LEMMA AboutIs ==
    ASSUME NEW k \in DOMAIN stack
    PROVE  /\ stack[k].fn \in Library => stack[k].hWnd \in About(Library)
           /\ stack[k].fn = "Proc" => stack[k].hWnd \in About({"Proc"})
           /\ stack[k].fn = "SetWindowPos" => stack[k].next \in Places
           /\ stack[k].fn \in Ending => stack[k].hWnd \in About(Ending)
BY DEF About, Places

LEMMA BusyLibrary ==
    ASSUME NEW f \in FrameRec
    PROVE  Busy(f) => f.fn \in Library
BY DEF FrameRec, Fns, Busy, Library

LEMMA MayDestroyIs ==
    ASSUME Polite, Sound(obj, win, stack), NEW h \in Known, MayDestroy(h)
    PROVE  /\ h \notin Doomed /\ h \notin Entering /\ h \in FamilyIn(obj, win, h)
           /\ FamilyIn(obj, win, h) \cap (About(Library) \cup Places) = {}
           /\ \A x \in FamilyIn(obj, win, h) \cap About({"Proc"}) : x = h \/ win[x].kind = "child"
<1>1. /\ h \notin Doomed
      /\ Family(h) \cap (About(Library) \cup Places) = {}
      /\ \A x \in Family(h) \cap About({"Proc"}) : x = h \/ win[x].kind = "child"
  BY DEF MayDestroy
<1>2. Family(h) = FamilyIn(obj, win, h)
  BY StateIs
<1>3. h \in FamilyIn(obj, win, h)
  <2>1. h \in Win
    BY DEF Known
  <2>2. OverIn(obj, win) \in Links
    BY OverEnds DEF Sound, Tree
  <2> QED
    BY <2>1, <2>2, UnderSelf DEF FamilyIn
<1>4. Entering \subseteq About(Library)
  BY DEF Entering, About, Library
<1> QED
  BY <1>1, <1>2, <1>3, <1>4

\* What the program calls: DestroyWindow of a window that may go,
LEMMA DestroyKept ==
    ASSUME Polite, Sound(obj, win, stack), NEW h \in Win, DestroyWindow(h)
    PROVE  Kept
<1>1. h \in Known /\ MayDestroy(h) /\ ProgramRuns /\ Steps(Caller \o DestroyCall(h))
  BY DEF DestroyWindow, Calling
<1>2. /\ h \notin Doomed /\ h \notin Entering
      /\ FamilyIn(obj, win, h) \cap (About(Library) \cup Places) = {}
      /\ \A x \in FamilyIn(obj, win, h) \cap About({"Proc"}) : x = h \/ win[x].kind = "child"
  BY <1>1, MayDestroyIs
<1>3. /\ h \in TreeIn(obj, stack) /\ ParentIn(win, h) \in {Root} \cup TreeIn(obj, stack)
      /\ Safe(obj, win, TreeIn(obj, stack), h)
  BY <1>1, <1>2, NotDoomed
<1>4. Calm(win, stack, Caller) /\ Caller \in Seq(FrameRec)
  BY <1>1, CallerIs
<1>5. ASSUME NEW k \in DOMAIN Caller, NEW f, f.fn = "DestroyWindow", f.hWnd = h
      PROVE  Apart(obj, win, f, Caller[k])
  <2>1. stack \in Seq(FrameRec)
    BY DEF Sound, Fits
  <2>2. PICK j \in DOMAIN stack :
            /\ stack[j].fn = Caller[k].fn /\ stack[j].hWnd = Caller[k].hWnd
            /\ Caller[k].fn = "SetWindowPos" => stack[j].next = Caller[k].next
    BY <1>1, <2>1, CallerFrames
  <2>3. stack[j] \in FrameRec
    BY <2>1
  <2>4. Busy(Caller[k]) => Busy(stack[j])
    BY <2>2 DEF Busy
  <2> QED
    BY <1>2, <1>5, <2>2, <2>3, <2>4, AboutIs, BusyLibrary DEF Apart
<1>6. Calm(win, Caller, Caller \o DestroyCall(h))
  <2>1. Sound(obj, win, Caller) /\ TreeIn(obj, Caller) = TreeIn(obj, stack)
    BY <1>4 DEF Calm
  <2> QED
    BY <1>3, <1>5, <2>1, DestroyPush
<1>7. Calm(win, stack, Caller \o DestroyCall(h))
  BY <1>4, <1>6, CalmTwice
<1> QED
  BY <1>1, <1>7, CalmKept DEF Steps

LEMMA MayUseIs ==
    ASSUME Polite, Sound(obj, win, stack), NEW h \in Known, MayUse(h)
    PROVE  /\ h \in TreeIn(obj, stack) /\ ParentIn(win, h) \in {Root} \cup TreeIn(obj, stack)
           /\ Safe(obj, win, TreeIn(obj, stack), h)
           /\ h \notin Doomed \cup Entering /\ h \in Some(obj)
<1>1. h \notin Doomed \cup Entering
  BY DEF MayUse
<1>2. h \in Some(obj)
  BY DEF Known, Some
<1> QED
  BY <1>1, <1>2, NotDoomed

\* SetFocus to one that may be used,
LEMMA FocusKept ==
    ASSUME Polite, Sound(obj, win, stack), NEW h \in {Null} \cup Win, SetFocus(h)
    PROVE  Kept
<1>1. (h = Null \/ (h \in Known /\ MayUse(h))) /\ ProgramRuns /\ Steps(Caller \o FocusCall(h))
  BY DEF SetFocus, Calling
<1>2. Calm(win, stack, Caller)
  BY <1>1, CallerIs
<1>3. h \in {Null} \cup Some(obj) /\ (h # Null => Safe(obj, win, TreeIn(obj, stack), h))
  BY <1>1, MayUseIs
<1>4. Calm(win, Caller, Caller \o FocusCall(h))
  <2>1. Sound(obj, win, Caller) /\ TreeIn(obj, Caller) = TreeIn(obj, stack)
    BY <1>2 DEF Calm
  <2> QED
    BY <1>3, <2>1, Focusing
<1>5. Calm(win, stack, Caller \o FocusCall(h))
  BY <1>2, <1>4, CalmTwice
<1> QED
  BY <1>1, <1>5, CalmKept DEF Steps

LEMMA PlacePush ==
    ASSUME NEW S, Sound(obj, win, S), NEW h \in TreeIn(obj, S),
           ParentIn(win, h) \in {Root} \cup TreeIn(obj, S),
           NEW after \in {Null, Root} \cup Members(win, TreeIn(obj, S), ParentIn(win, h))
    PROVE  Calm(win, S, S \o <<Frame("SetWindowPos", "order", h, after)>>)
<1> DEFINE T == TreeIn(obj, S)
           f == Frame("SetWindowPos", "order", h, after)
<1>1. h \in Win /\ h \in Some(obj) /\ T \subseteq Win
  BY TreeKnown
<1>2. IsFrame(f, "SetWindowPos", "order", h, after)
  <2>1. "SetWindowPos" \in Fns /\ "order" \in Stages \cup Messages /\ h \in HWND /\ after \in HWND
    BY <1>1, Handles DEF Fns, Stages, Members
  <2> QED
    BY <2>1, FrameIs
<1> HIDE DEF f, T
<1>3. f \in FrameRec /\ f.fn = "SetWindowPos" /\ f.hWnd = h /\ f.next = after
  BY <1>2 DEF IsFrame
<1>4. Good(obj, win, T, f)
  BY <1>1, <1>3 DEF Good, GoodCreate, GoodPlace, GoodEnd, IsEntering, T
<1>5. \A g : Apart(obj, win, f, g) /\ Sits(f, g)
  BY <1>3 DEF Apart, Sits
<1>6. ~IsEntering(f)
  BY <1>3 DEF IsEntering
<1> QED
  BY <1>3, <1>4, <1>5, <1>6, CalmPush DEF T, f

\* SetWindowPos among siblings,
LEMMA PlaceKept ==
    ASSUME Polite, Sound(obj, win, stack), NEW h \in Win, NEW after \in HWND, SetWindowPos(h, after)
    PROVE  Kept
<1> DEFINE T == TreeIn(obj, stack)
           f == Frame("SetWindowPos", "order", h, after)
           m == "WM_WINDOWPOSCHANGING"
<1>1. /\ h \in Known /\ MayUse(h) /\ ProgramRuns
      /\ after \in {Null, Root} \cup Known
      /\ after \in Known => ListParent(after) = ListParent(h) /\ MayUse(after)
      /\ Steps(Caller \o <<f>> \o Send(h, m))
  BY DEF SetWindowPos, Calling, HWND_TOP, HWND_BOTTOM
<1>2. h \in T /\ ParentIn(win, h) \in {Root} \cup T
  BY <1>1, MayUseIs
<1>3. after \in {Null, Root} \cup Members(win, T, ParentIn(win, h))
  <2>1. after \in Known => after \in T
    BY <1>1, MayUseIs
  <2>2. after \in Known => ParentIn(win, after) = ParentIn(win, h)
    BY <1>1, StateIs
  <2> QED
    BY <1>1, <2>1, <2>2 DEF Members
<1>4. Calm(win, stack, Caller) /\ Caller \in Seq(FrameRec)
  BY <1>1, CallerIs
<1>5. Calm(win, Caller, Caller \o <<f>>)
  <2>1. Sound(obj, win, Caller) /\ TreeIn(obj, Caller) = T
    BY <1>4 DEF Calm
  <2> QED
    BY <1>2, <1>3, <2>1, PlacePush
<1>6. m \in Messages /\ \A S : Ready(S, m)
  BY DEF Messages, Ready
<1> DEFINE S2 == Caller \o <<f>>
<1> HIDE DEF m, f, S2
<1>7. Calm(win, S2, S2 \o Send(h, m))
  BY <1>5, <1>6, Sending DEF Calm, S2
<1>8. Calm(win, stack, S2 \o Send(h, m))
  BY <1>4, <1>5, <1>7, CalmTwice DEF S2
<1> QED
  BY <1>1, <1>8, CalmKept DEF Steps, S2

\* and CreateWindowEx.
LEMMA CreateKept ==
    ASSUME Polite, Sound(obj, win, stack), NEW kind \in {"overlapped", "popup", "child"},
           NEW pp \in {Null} \cup Win, NEW group \in BOOLEAN, CreateWindowEx(kind, pp, group)
    PROVE  Kept
<1> DEFINE T == TreeIn(obj, stack)
           rec == [NoWindow EXCEPT
                !.kind = kind, !.group = group,
                !.hWndParent = IF kind = "child" THEN pp ELSE Null,
                !.hWndOwner = IF kind = "child" THEN Null ELSE pp]
           m == "WM_GETMINMAXINFO"
<1>1. /\ ProgramRuns /\ (pp = Null \/ (pp \in Known /\ MayUse(pp)))
      /\ kind = "overlapped" <=> pp = Null
      /\ kind = "popup" => win[pp].kind # "child"
  BY DEF CreateWindowEx, Calling
<1>2. PICK h \in Win :
         /\ obj[h] = "none"
         /\ win' = [win EXCEPT ![h] = rec]
         /\ Continue([obj EXCEPT ![h] = "live"],
                     Caller \o <<Frame("CreateWindowEx", "insert", h, Null)>>
                            \o IF m \in Handled THEN <<Frame("Proc", m, h, Null)>> ELSE <<>>)
  BY DEF CreateWindowEx
<1> DEFINE O2 == [obj EXCEPT ![h] = "live"]
           W2 == [win EXCEPT ![h] = rec]
           f == Frame("CreateWindowEx", "insert", h, Null)
           S2 == Caller \o <<f>>
           g == Frame("Proc", m, h, Null)
<1>3. /\ rec \in WinRec /\ rec.kind = kind
      /\ rec.hWndParent = IF kind = "child" THEN pp ELSE Null
      /\ rec.hWndOwner = IF kind = "child" THEN Null ELSE pp
      /\ rec.hWndSibling = Null /\ rec.hWndChild = Null /\ rec.hWndLastChild = Null
  <2>1. pp \in HWND
    BY Handles
  <2> QED
    BY <2>1, Handles DEF NoWindow, WinRec
<1>4. m \in Messages /\ m # "WM_CREATE"
  BY DEF Messages
<1> HIDE DEF rec, m
<1>5. Calm(win, stack, Caller) /\ Caller \in Seq(FrameRec)
  BY <1>1, CallerIs
<1>6. Sound(obj, win, Caller) /\ TreeIn(obj, Caller) = T
  BY <1>5 DEF Calm
<1>7. /\ obj \in Objs /\ win \in Wins /\ Kinds(obj, win) /\ NoCycle(OverIn(obj, win))
      /\ T \subseteq KnownIn(obj) /\ T \subseteq Win
  BY TreeKnown DEF Sound, Tree
<1>8. pp \in {Null} \cup T
  BY <1>1, MayUseIs
<1>9. /\ O2 \in Objs /\ O2[h] = "live" /\ \A x \in Win : x # h => O2[x] = obj[x]
      /\ W2 \in Wins /\ W2[h] = rec /\ \A x \in Window : x # h => W2[x] = win[x]
  BY <1>3, <1>7, Handles DEF Objs, Wins, Window
<1> HIDE DEF O2, W2, T
<1>10. IsNew(obj, win, O2, W2, T, h, pp)
  BY <1>1, <1>2, <1>3, <1>7, <1>8, <1>9, Handles DEF IsNew
<1>11. /\ Sound(O2, W2, S2) /\ TreeIn(O2, S2) = T
       /\ \A C : Has(C, win, T) => Has(C, W2, T)
  BY <1>6, <1>10, NewWindow
<1>12. f \in FrameRec /\ h \in Some(O2)
  <2>1. f \in FrameRec
    <3>1. "CreateWindowEx" \in Fns /\ "insert" \in Stages \cup Messages /\ h \in HWND /\ Null \in HWND
      BY Handles DEF Fns, Stages
    <3> QED
      BY <3>1, FrameIs DEF IsFrame
  <2> QED
    BY <1>9, <2>1 DEF Some
<1>13. S2 \in Seq(FrameRec)
  BY <1>11 DEF Sound, Fits
<1>14. g \in FrameRec
  <2>1. "Proc" \in Fns /\ m \in Stages \cup Messages /\ h \in HWND /\ Null \in HWND
    BY <1>4, Handles DEF Fns
  <2> QED
    BY <2>1, FrameIs DEF IsFrame
<1> HIDE DEF S2
<1>15. Sound(O2, W2, Append(S2, g)) /\ TreeIn(O2, Append(S2, g)) = T
  BY <1>4, <1>11, <1>12, SoundSent
<1>16. S2 \o <<g>> = Append(S2, g) /\ S2 \o <<>> = S2
  BY <1>13, <1>14, Joined
<1> DEFINE S3 == S2 \o IF m \in Handled THEN <<g>> ELSE <<>>
<1>17. Sound(O2, W2, S3) /\ TreeIn(O2, S3) = T
  BY <1>11, <1>15, <1>16
<1>18. Continue(O2, S3) /\ win' = W2
  BY <1>2 DEF O2, W2, S2
<1> HIDE DEF S3
<1>19. Change(win, T, W2, TreeIn(O2, S3))
  BY <1>11, <1>17 DEF Change, Quiet
<1> QED
  BY <1>17, <1>18, <1>19, StepKept DEF T

----------------------------------------------------------------------------
(* SetParent *)

UpLink ==
    [x \in HWND |-> IF /\ x # Null /\ IsWindow(x) /\ win[x].kind = "child"
                       /\ IsWindow(win[x].hWndParent)
                    THEN win[x].hWndParent ELSE Null]

LEMMA GoingWin ==
    ASSUME Sound(obj, win, stack)
    PROVE  Going \subseteq Win
<1> DEFINE D == {stack[i].hWnd : i \in {j \in DOMAIN stack :
                    stack[j].fn = "DestroyWindow" /\ stack[j].at = "owned"}}
<1>1. About({"FreeWindow"}) \subseteq Win
  BY OutsideTree, StateIs DEF Outside, FreedIn
<1>2. D \subseteq Win
  <2> SUFFICES ASSUME NEW i \in DOMAIN stack, stack[i].fn = "DestroyWindow" PROVE stack[i].hWnd \in Win
    OBVIOUS
  <2>1. Good(obj, win, TreeIn(obj, stack), stack[i])
    BY DEF Sound, Fits
  <2> QED
    BY <2>1, TreeKnown, EndsWindow
<1>3. Going = {h \in Win : obj[h] = "marked"} \cup About({"FreeWindow"}) \cup D
  BY DEF Going
<1> HIDE DEF D
<1> QED
  BY <1>1, <1>2, <1>3

\* What is under h is a child or a child's child of it, or is doomed.
LEMMA NotUnder ==
    ASSUME Sound(obj, win, stack), NEW h \in Known, \A x \in Known : win[x].hWndOwner # h,
           NEW p \in Known, p \notin Doomed, p # h, ~IsChild(h, p)
    PROVE  p \notin FamilyIn(obj, win, h)
<1> DEFINE over == OverIn(obj, win)
           up == UpLink
           S == Under(up, h) \cup (Doomed \cap Win)
<1>1. /\ obj \in Objs /\ win \in Wins /\ Kinds(obj, win)
  BY DEF Sound, Tree
<1>2. /\ over \in Links /\ EndsOut(over)
  BY <1>1, OverEnds
<1>3. /\ up \in Links /\ EndsOut(up)
  <2>1. \A x \in HWND : x # Null => win[x].hWndParent \in HWND
    BY <1>1, Handles DEF Wins, WinRec, Window, HWND
  <2>2. up \in Links
    BY <2>1, Handles DEF UpLink, Links
  <2>3. up[Null] = Null /\ up[Root] = Null
    BY <1>1, Handles DEF UpLink, Kinds
  <2> QED
    BY <2>2, <2>3 DEF EndsOut
<1>4. h \in Win /\ IsWin(obj, h) /\ p \in Win /\ h \in HWND /\ p \in HWND
  BY StateIs, Handles DEF KnownIn, IsWin, Alive
<1>5. \A x \in Win : up[x] # Null => IsWin(obj, x) /\ win[x].kind = "child"
  BY StateIs, Handles DEF UpLink
<1>6. \A x \in Win : IsWin(obj, x) /\ win[x].kind = "child" /\ IsWin(obj, win[x].hWndParent)
                       => up[x] = win[x].hWndParent
  BY StateIs, Handles DEF UpLink
<1>7. \A x \in Win : over[x] # Null => IsWin(obj, x) /\
         over[x] = IF win[x].kind = "child" THEN win[x].hWndParent ELSE win[x].hWndOwner
  BY Handles DEF OverIn
<1> HIDE DEF over, up
<1>8. \A g \in Going : g \in Win /\ Under(over, g) \subseteq Doomed
  BY GoingWin, FreedGoing, StateIs DEF FamilyIn, over
<1>9. \A q \in Doomed : \E g \in Going : q \in Under(over, g)
  BY StateIs DEF Doomed, FamilyIn, over
<1>10. ASSUME NEW x \in Win, over[x] \in S PROVE x \in S
  <2> DEFINE q == over[x]
  <2>1. q \in Win /\ q # Null /\ IsWin(obj, x) /\ obj[x] \in Alive
    <3>1. q \in Win
      BY <1>10 DEF Under
    <3>2. q # Null
      BY <3>1, Handles
    <3>3. IsWin(obj, x)
      BY <1>7, <3>2
    <3> QED
      BY <3>1, <3>2, <3>3, Handles DEF IsWin
  <2>2. CASE q \in Doomed
    <3>1. PICK g \in Going : q \in Under(over, g)
      BY <1>9, <2>2
    <3>2. x \in Under(over, g)
      BY <1>2, <1>8, <3>1, UnderClosed
    <3> QED
      BY <1>8, <3>1, <3>2
  <2>3. CASE q \in Under(up, h) /\ q \notin Doomed
    <3>1. q # h => up[q] # Null
      <4>1. q # h => up[q] \in Under(up, h)
        BY <1>3, <1>4, <2>3, UnderNext
      <4> QED
        BY <4>1, Handles DEF Under
    <3>2. IsWin(obj, q) /\ (q # h => win[q].kind = "child")
      BY <1>4, <1>5, <2>1, <3>1
    <3>3. CASE win[x].kind = "child"
      <4>1. up[x] = q
        BY <1>6, <1>7, <2>1, <3>2, <3>3
      <4>2. x \in Under(up, h)
        BY <1>3, <1>4, <2>3, <4>1, UnderClosed
      <4> QED
        BY <4>2
    <3>4. CASE win[x].kind # "child"
      <4>1. win[x].hWndOwner = q
        BY <1>7, <2>1, <3>4
      <4>2. CASE obj[x] = "marked"
        <5>1. x \in Going /\ x \in Under(over, x)
          BY <1>2, <4>2, FreedGoing, UnderSelf
        <5> QED
          BY <1>8, <5>1
      <4>3. CASE obj[x] = "live"
        <5>1. x \in Known
          BY <4>3 DEF Known
        <5>2. q # h
          BY <4>1, <5>1
        <5>3. obj[q] # "live"
          <6>1. q \in KnownIn(obj) => win[q].kind # "child"
            BY <1>1, <2>1, <4>1, <4>3 DEF Kinds
          <6> QED
            BY <2>1, <3>2, <5>2, <6>1 DEF KnownIn
        <5>4. obj[q] = "marked"
          BY <2>1, <3>2, <5>3, Handles DEF IsWin, Alive
        <5>5. q \in Going /\ x \in Under(over, q)
          BY <1>2, <2>1, <5>4, FreedGoing, UnderSelf, UnderClosed
        <5> QED
          BY <1>8, <5>5
      <4> QED
        BY <2>1, <4>2, <4>3 DEF Alive
    <3> QED
      BY <3>3, <3>4
  <2> QED
    BY <1>10, <2>2, <2>3
<1>11. Under(over, h) \subseteq S
  <2>1. S \subseteq Win /\ h \in S
    BY <1>3, <1>4, UnderSelf DEF Under
  <2> HIDE DEF S
  <2> QED
    BY <1>2, <1>4, <1>10, <2>1, UnderLeast
<1>12. p \notin Under(up, h)
  <2> SUFFICES ASSUME p \in Under(up, h) PROVE FALSE
    OBVIOUS
  <2>1. PICK n \in 0 .. MaxWindows : Along(up, p)[n] = h
    BY DEF Under
  <2>2. Along(up, p)[0] = p
    BY <1>3, <1>4, AlongWalks
  <2>3. n \in 1 .. MaxWindows
    BY <2>1, <2>2, BoundAssumption
  <2>4. Up(p) = Along(up, p)
    BY DEF Up, UpLink, up
  <2> QED
    BY <2>1, <2>3, <2>4 DEF IsChild
<1> QED
  BY <1>11, <1>12 DEF FamilyIn, over

\* h gets the parent p, or none, in the links R.
IsMove(R, T, h, p0, p) ==
    /\ obj \in Objs /\ win \in Wins /\ Kinds(obj, win) /\ NoCycle(OverIn(obj, win))
    /\ R \in Wins /\ KinBut(win, R, h, p, NewKind(p))
    /\ T \subseteq KnownIn(obj) /\ h \in T /\ p \in {Null} \cup T /\ p # h
    /\ win[h].hWndOwner = Null /\ \A x \in KnownIn(obj) : win[x].hWndOwner # h
    /\ p0 = ParentIn(win, h) /\ p0 \in {Root} \cup T
    /\ p \notin FamilyIn(obj, win, h)
    /\ \A x \in Win : x \notin Members(win, T, p0) => R[x].hWndSibling = win[x].hWndSibling
    /\ \A x \in Window : x \notin {p0, NewList(p)} => /\ R[x].hWndChild = win[x].hWndChild
                                                     /\ R[x].hWndLastChild = win[x].hWndLastChild

\* Who is over whom when a window gets another parent.
LEMMA MoveOver ==
    ASSUME NEW R, NEW T, NEW h, NEW p0, NEW p, IsMove(R, T, h, p0, p)
    PROVE  /\ OverIn(obj, R)[h] = p /\ \A x \in HWND \ {h} : OverIn(obj, R)[x] = OverIn(obj, win)[x]
           /\ NoCycle(OverIn(obj, R))
           /\ \A a \in Win : FamilyIn(obj, R, a) \subseteq FamilyIn(obj, win, a) \cup FamilyIn(obj, win, h)
           /\ \A a \in Win : p = Null /\ a # h => h \notin FamilyIn(obj, R, a)
           /\ ParentIn(R, h) = NewList(p) /\ \A x \in Win : x # h => ParentIn(R, x) = ParentIn(win, x)
           /\ NewList(p) \in {Root} \cup T /\ h \in Win /\ T \subseteq Win
<1> DEFINE old == OverIn(obj, win)
           new == OverIn(obj, R)
<1>1. /\ old \in Links /\ EndsOut(old) /\ new \in Links /\ EndsOut(new)
  BY OverEnds DEF IsMove
<1>2. /\ h \in Win /\ T \subseteq Win /\ IsWin(obj, h)
  BY DEF IsMove, KnownIn, IsWin, Alive
<1>3. /\ \A x \in Window : x # h => R[x].kind = win[x].kind /\ R[x].hWndParent = win[x].hWndParent
      /\ \A x \in Window : R[x].hWndOwner = win[x].hWndOwner
      /\ R[h].kind = NewKind(p) /\ R[h].hWndParent = p
      /\ R[h].hWndOwner = Null
  BY <1>2 DEF IsMove, KinBut, Window
<1>4. new[h] = p
  <2>1. NewKind(p) = "child" <=> p # Null
    BY DEF NewKind
  <2> QED
    BY <1>2, <1>3, <2>1, Handles DEF OverIn
<1>5. \A x \in HWND \ {h} : new[x] = old[x]
  BY <1>3 DEF OverIn, Window
<1>6. /\ ParentIn(R, h) = NewList(p) /\ \A x \in Win : x # h => ParentIn(R, x) = ParentIn(win, x)
      /\ NewList(p) \in {Root} \cup T
  BY <1>3 DEF ParentIn, NewKind, NewList, IsMove, Window
<1> HIDE DEF old, new
<1>7. /\ \A a \in Win : Under(new, a) \subseteq Under(old, a) \cup Under(old, h)
      /\ NoCycle(old) => NoCycle(new)
  <2>1. new[h] \notin Under(old, h)
    BY <1>4 DEF IsMove, FamilyIn, old
  <2> QED
    BY <1>1, <1>2, <1>5, <2>1, UnderChanged
<1>8. NoCycle(old)
  BY DEF IsMove, old
<1>9. ASSUME NEW a \in Win, p = Null, a # h PROVE h \notin Under(new, a)
  <2> SUFFICES ASSUME h \in Under(new, a) PROVE FALSE
    OBVIOUS
  <2>1. new[h] \in Under(new, a)
    BY <1>1, <1>9, UnderNext
  <2> QED
    BY <1>4, <1>9, <2>1, Handles DEF Under
<1> QED
  BY <1>2, <1>4, <1>5, <1>6, <1>7, <1>8, <1>9 DEF old, new, FamilyIn

LEMMA MoveKinds ==
    ASSUME NEW R, NEW T, NEW h, NEW p0, NEW p, IsMove(R, T, h, p0, p)
    PROVE  Kinds(obj, R)
<1>1. /\ h \in Win /\ T \subseteq Win /\ h # Root
      /\ OverIn(obj, R)[h] = p /\ \A x \in HWND \ {h} : OverIn(obj, R)[x] = OverIn(obj, win)[x]
      /\ obj[h] = "live" /\ h \in KnownIn(obj)
  <2>1. /\ h \in Win /\ T \subseteq Win
        /\ OverIn(obj, R)[h] = p /\ \A x \in HWND \ {h} : OverIn(obj, R)[x] = OverIn(obj, win)[x]
    BY MoveOver
  <2>2. h \in KnownIn(obj)
    BY DEF IsMove
  <2> QED
    BY <2>1, <2>2, Handles DEF KnownIn
<1>2. /\ \A x \in Window : x # h => R[x].kind = win[x].kind /\ R[x].hWndParent = win[x].hWndParent
      /\ \A x \in Window : R[x].hWndOwner = win[x].hWndOwner
      /\ R[h].kind = NewKind(p) /\ R[h].hWndParent = p
      /\ R[h].hWndOwner = Null
  BY <1>1 DEF IsMove, KinBut, Window
<1>3. R[Root].kind # "child" /\ R[Root].hWndOwner = Null
  BY <1>1, <1>2 DEF IsMove, Kinds, Window
<1>4. ASSUME NEW x \in Win, obj[x] \in Alive, x # h
      PROVE  /\ OverIn(obj, R)[x] \in {Null} \cup Some(obj)
             /\ R[x].kind = "child" <=> R[x].hWndParent # Null
             /\ R[x].hWndOwner # Null => R[x].kind = "popup"
             /\ obj[x] = "live" /\ R[x].hWndOwner \in KnownIn(obj) => R[R[x].hWndOwner].kind # "child"
  <2>1. /\ OverIn(obj, win)[x] \in {Null} \cup Some(obj)
        /\ win[x].kind = "child" <=> win[x].hWndParent # Null
        /\ win[x].hWndOwner # Null => win[x].kind = "popup"
        /\ obj[x] = "live" /\ win[x].hWndOwner \in KnownIn(obj) => win[win[x].hWndOwner].kind # "child"
    BY <1>4 DEF IsMove, Kinds
  <2>2. obj[x] = "live" => win[x].hWndOwner # h
    BY DEF IsMove, KnownIn
  <2>3. win[x].hWndOwner \in KnownIn(obj) => win[x].hWndOwner \in Window
    BY DEF KnownIn, Window
  <2>4. x \in Window /\ x \in HWND
    BY Handles DEF Window
  <2> QED
    BY <1>1, <1>2, <1>4, <2>1, <2>2, <2>3, <2>4
<1>5. /\ OverIn(obj, R)[h] \in {Null} \cup Some(obj)
      /\ R[h].kind = "child" <=> R[h].hWndParent # Null
      /\ R[h].hWndOwner = Null /\ R[h].hWndOwner \notin KnownIn(obj)
  <2>1. p \in {Null} \cup Some(obj)
    BY <1>1 DEF IsMove, KnownIn, Some
  <2>2. Null \notin KnownIn(obj)
    BY Handles DEF KnownIn
  <2> QED
    BY <1>1, <1>2, <2>1, <2>2 DEF NewKind
<1> QED
  BY <1>3, <1>4, <1>5 DEF Kinds

LEMMA GoodMove ==
    ASSUME NEW R, NEW T, NEW h, NEW p0, NEW p, IsMove(R, T, h, p0, p), NEW f, Good(obj, win, T, f),
           Clear(obj, win, f, h), IsEntering(f) \/ f.fn = "FreeWindow" => f.hWnd \in Win \ T
    PROVE  Good(obj, R, T, f)
<1> DEFINE y == f.hWnd
           q == NewList(p)
<1>1. /\ OverIn(obj, R)[h] = p /\ \A x \in HWND \ {h} : OverIn(obj, R)[x] = OverIn(obj, win)[x]
      /\ \A a \in Win : FamilyIn(obj, R, a) \subseteq FamilyIn(obj, win, a) \cup FamilyIn(obj, win, h)
      /\ ParentIn(R, h) = q /\ \A x \in Win : x # h => ParentIn(R, x) = ParentIn(win, x)
      /\ q \in {Root} \cup T /\ h \in Win /\ T \subseteq Win
  BY MoveOver
<1>2. /\ p0 \in {Root} \cup T /\ p \in {Null} \cup T /\ p0 = ParentIn(win, h)
      /\ \A x \in Win : x \notin Members(win, T, p0) => R[x].hWndSibling = win[x].hWndSibling
      /\ \A x \in Window : x \notin {p0, q} => /\ R[x].hWndChild = win[x].hWndChild
                                               /\ R[x].hWndLastChild = win[x].hWndLastChild
      /\ \A x \in Window : R[x].hWndOwner = win[x].hWndOwner
  BY DEF IsMove, KinBut
<1>3. /\ h \in FamilyIn(obj, win, h)
  BY <1>1, OverEnds, UnderSelf DEF FamilyIn, IsMove
<1>4. /\ f.fn \in {"CreateWindowEx", "SetActiveWindow", "SetWindowPos", "DestroyWindow", "FreeWindow", "SetFocus"}
            => y \notin FamilyIn(obj, win, h) /\ y # h
      /\ f.fn = "SetWindowPos" => f.next # h
  BY <1>3 DEF Clear, Busy
<1>5. /\ GoodCreate(obj, win, T, f) /\ GoodPlace(obj, win, T, f) /\ GoodEnd(obj, win, T, f)
  BY DEF Good
<1> HIDE DEF q
<1>6. GoodCreate(obj, R, T, f)
  <2>1. ASSUME IsEntering(f)
        PROVE  /\ y \in KnownIn(obj) /\ ParentIn(R, y) \in {Root} \cup T
               /\ R[y].hWndSibling = Null /\ R[y].hWndChild = Null /\ R[y].hWndLastChild = Null
               /\ \A x \in Win : OverIn(obj, R)[x] # y
    <3>1. /\ y \in KnownIn(obj) /\ ParentIn(win, y) \in {Root} \cup T
          /\ win[y].hWndSibling = Null /\ win[y].hWndChild = Null /\ win[y].hWndLastChild = Null
          /\ \A x \in Win : OverIn(obj, win)[x] # y
      BY <1>5, <2>1 DEF GoodCreate
    <3>2. y \in Win /\ y \notin T /\ y # h /\ y # Root /\ y # Null
      BY <1>4, <2>1, Handles DEF IsEntering
    <3>3. y \notin Members(win, T, p0) /\ y \notin {p0, q} /\ y \in Window
      BY <1>1, <1>2, <3>2 DEF Members, Window
    <3>4. \A x \in Win : OverIn(obj, R)[x] # y
      BY <1>1, <1>2, <3>1, <3>2, Handles
    <3> QED
      BY <1>1, <1>2, <3>1, <3>2, <3>3, <3>4
  <2> QED
    BY <1>5, <2>1 DEF GoodCreate
<1>7. GoodPlace(obj, R, T, f)
  <2>1. ASSUME f.fn \in {"CreateWindowEx", "SetActiveWindow", "SetWindowPos", "DestroyWindow"}, ~IsEntering(f)
        PROVE  y \in T /\ ParentIn(R, y) = ParentIn(win, y) /\ ParentIn(win, y) \in {Root} \cup T
    BY <1>1, <1>4, <1>5, <2>1 DEF GoodPlace
  <2>2. f.fn = "SetWindowPos" => ~IsEntering(f)
    BY DEF IsEntering
  <2>3. \A z : Members(win, T, z) \ {h} \subseteq Members(R, T, z)
    BY <1>1 DEF Members
  <2>4. f.fn = "SetWindowPos" => f.next \in {Null, Root} \cup Members(win, T, ParentIn(win, y))
    BY <1>5 DEF GoodPlace
  <2> QED
    BY <1>4, <2>1, <2>2, <2>3, <2>4 DEF GoodPlace
<1>8. GoodEnd(obj, R, T, f)
  <2>2. ASSUME f.fn = "DestroyWindow", NEW a \in Win, y \in FamilyIn(obj, R, a) PROVE Firm(obj, T, a)
    <3>1. y \in FamilyIn(obj, win, a)
      BY <1>1, <1>4, <2>2
    <3> QED
      BY <1>5, <2>2, <3>1 DEF GoodEnd
  <2>3. ASSUME f.fn = "FreeWindow"
        PROVE  /\ y \in KnownIn(obj) /\ Firm(obj, T, R[y].hWndOwner)
               /\ IF f.at = "children" THEN \E c : Chain(c, R, f.next) /\ Elements(c) = Members(R, T, y)
                  ELSE Members(R, T, y) = {}
    <3>1. /\ y \in KnownIn(obj) /\ Firm(obj, T, win[y].hWndOwner) /\ y \in Win /\ y \notin T
      BY <1>5, <2>3 DEF GoodEnd
    <3>2. y # p0 /\ y # q /\ y \in Window
      BY <1>1, <1>2, <3>1, Handles DEF Window
    <3>3. Members(R, T, y) = Members(win, T, y)
      BY <1>1, <1>2, <3>2 DEF Members
    <3>4. ASSUME f.at = "children" PROVE \E c : Chain(c, R, f.next) /\ Elements(c) = Members(R, T, y)
      <4>1. PICK c : Chain(c, win, f.next) /\ Elements(c) = Members(win, T, y)
        BY <1>5, <2>3, <3>4 DEF GoodEnd
      <4>2. \A x \in Elements(c) : x \in Win /\ x \notin Members(win, T, p0)
        BY <1>1, <3>2, <4>1 DEF Members
      <4>3. \A x \in Elements(c) : R[x].hWndSibling = win[x].hWndSibling
        BY <1>2, <4>2
      <4>4. Chain(c, R, f.next)
        BY <4>1, <4>3, SameChain
      <4> QED
        BY <3>3, <4>1, <4>4
    <3>5. f.at # "children" => Members(R, T, y) = {}
      BY <1>5, <2>3, <3>3 DEF GoodEnd
    <3> QED
      BY <1>2, <3>1, <3>2, <3>4, <3>5
  <2> QED
    BY <2>2, <2>3 DEF GoodEnd
<1> QED
  BY <1>6, <1>7, <1>8 DEF Good

LEMMA ApartMove ==
    ASSUME NEW R, NEW T, NEW h, NEW p0, NEW p, IsMove(R, T, h, p0, p), NEW f, NEW g,
           Apart(obj, win, f, g), f.fn \in {"DestroyWindow", "FreeWindow"} => f.hWnd \in Win /\ f.hWnd # h,
           Clear(obj, win, g, h),
           g.fn = "Proc" /\ g.hWnd \in FamilyIn(obj, win, h) => g.hWnd = h \/ win[g.hWnd].kind = "child"
    PROVE  Apart(obj, R, f, g)
<1>1. /\ \A a \in Win : FamilyIn(obj, R, a) \subseteq FamilyIn(obj, win, a) \cup FamilyIn(obj, win, h)
      /\ \A a \in Win : p = Null /\ a # h => h \notin FamilyIn(obj, R, a)
      /\ h \in Win
  BY MoveOver
<1>2. /\ \A x \in Win : x # h => R[x].kind = win[x].kind
      /\ p # Null => R[h].kind = "child"
  BY DEF IsMove, KinBut, Window, NewKind
<1>3. \A a : FamilyIn(obj, win, a) \subseteq Win
  BY DEF FamilyIn, Under
<1> DEFINE z == f.hWnd
<1>4. ASSUME f.fn \in {"DestroyWindow", "FreeWindow"}, g.fn = "Proc", g.hWnd \in FamilyIn(obj, R, z)
      PROVE  g.hWnd = z \/ R[g.hWnd].kind = "child"
  <2>1. g.hWnd \in FamilyIn(obj, win, z) \/ g.hWnd \in FamilyIn(obj, win, h)
    BY <1>1, <1>4
  <2>2. CASE g.hWnd = h
    BY <1>1, <1>2, <1>4, <2>2
  <2>3. CASE g.hWnd # h
    <3>1. g.hWnd = z \/ win[g.hWnd].kind = "child"
      BY <1>4, <2>1, <2>3 DEF Apart
    <3> QED
      BY <1>2, <1>3, <2>1, <2>3, <3>1
  <2> QED
    BY <2>2, <2>3
<1>5. ASSUME f.fn \in {"DestroyWindow", "FreeWindow"}
      PROVE  /\ Busy(g) => g.hWnd \notin FamilyIn(obj, R, z)
             /\ g.fn = "SetWindowPos" => g.next \notin FamilyIn(obj, R, z)
  BY <1>1, <1>5 DEF Apart, Clear
<1> QED
  BY <1>4, <1>5 DEF Apart

LEMMA ClearLibrary ==
    ASSUME Sound(obj, win, stack), NEW h,
           FamilyIn(obj, win, h) \cap (About(Library) \cup Places) = {}
    PROVE  \A i \in DOMAIN stack : Clear(obj, win, stack[i], h)
<1> TAKE i \in DOMAIN stack
<1>1. stack[i] \in FrameRec
  BY DEF Sound, Fits
<1> QED
  BY <1>1, AboutIs, BusyLibrary DEF Clear

LEMMA ParentSound ==
    ASSUME Polite, Sound(obj, win, stack), NEW h \in Known, MayDestroy(h),
           NEW p \in {Null} \cup Win, p = Null \/ (p \in Known /\ MayUse(p) /\ p # h /\ ~IsChild(h, p)),
           p # win[h].hWndParent, MayMove(h)
    PROVE  LET R == Reparented(h, p) IN
           /\ CanReparent(h, p) /\ Sound(obj, R, stack) /\ KinBut(win, R, h, p, NewKind(p))
           /\ Relocated(win, R, TreeIn(obj, stack), h)
<1> DEFINE T == TreeIn(obj, stack)
           F == FreedIn(stack)
           P == {Root} \cup T
           p0 == ParentIn(win, h)
           q == NewList(p)
           R == Reparented(h, p)
<1>1. /\ T \subseteq KnownIn(obj) /\ T \subseteq Win /\ Outside(T, stack) /\ \A x \in T : IsWin(obj, x)
  BY TreeKnown, OutsideTree
<1>2. /\ Tree(obj, win, T, F) /\ Fits(obj, win, T, stack) /\ stack \in Seq(FrameRec)
      /\ obj \in Objs /\ win \in Wins /\ Kinds(obj, win) /\ NoCycle(OverIn(obj, win))
  BY DEF Sound, Fits, Tree
<1>3. /\ h \notin Doomed /\ h \notin Entering /\ h \in FamilyIn(obj, win, h)
      /\ FamilyIn(obj, win, h) \cap (About(Library) \cup Places) = {}
      /\ \A x \in FamilyIn(obj, win, h) \cap About({"Proc"}) : x = h \/ win[x].kind = "child"
  BY MayDestroyIs
<1>4. h \in T /\ p0 \in P /\ h \in Win
  BY <1>1, <1>3, NotDoomed
<1>5. p # Null => p \in T /\ p \notin Doomed
  BY MayUseIs
<1>6. /\ win[h].hWndOwner = Null /\ \A x \in KnownIn(obj) : win[x].hWndOwner # h
  BY StateIs DEF MayMove
<1>7. p \notin FamilyIn(obj, win, h)
  <2>1. CASE p = Null
    BY <2>1, Handles DEF FamilyIn, Under
  <2>2. CASE p # Null
    BY <1>5, <1>6, <2>2, NotUnder, StateIs
  <2> QED
    BY <2>1, <2>2
<1>8. p \in HWND /\ q \in P /\ q # h /\ p # h /\ q # p0 /\ p \in {Null} \cup T
  <2>1. p \in HWND /\ q \in P /\ q # h /\ p # h /\ p \in {Null} \cup T
    BY <1>4, <1>5, Handles DEF NewList
  <2>2. q # p0
    <3>1. obj[h] \in Alive /\ h \in HWND /\ IsWin(obj, h)
      BY <1>1, <1>4, Handles DEF KnownIn, Alive, IsWin
    <3>2. win[h].kind = "child" <=> win[h].hWndParent # Null
      BY <1>2, <1>4, <3>1 DEF Kinds
    <3>3. win[h].kind = "child" => win[h].hWndParent # Root
      <4>1. OverIn(obj, win)[h] \in {Null} \cup Some(obj)
        BY <1>2, <1>4, <3>1 DEF Kinds
      <4> QED
        BY <1>4, <3>1, <4>1, Handles DEF OverIn, Some
    <3> QED
      BY <1>5, <3>2, <3>3, Handles DEF NewList, ParentIn
  <2> QED
    BY <2>1, <2>2
<1>9. \A i \in DOMAIN stack : Clear(obj, win, stack[i], h)
  BY <1>3, ClearLibrary
<1> HIDE DEF T, F, P, p0, q, R
<1>10. PICK C : Lists(C, win, P, T)
  BY <1>2 DEF Tree, P
<1>11. Now(C, P, T) /\ Groups(win, P, T)
  BY <1>1, <1>2, <1>10, NowTree DEF P, Tree
<1>12. p0 = ParentIn(win, h) /\ q = NewList(p)
  BY DEF p0, q
<1>13. PICK k \in DOMAIN C[p0] : C[p0][k] = h
  BY <1>4, <1>11, <1>12, PlaceOf
<1>14. IsReparented(C, P, T, p0, k, p, h, R)
  BY <1>4, <1>8, <1>11, <1>12, <1>13, Reparenting DEF R
<1> DEFINE D == PutAt(CutAt(C, p0, k), NewList(p), 1, h)
<1>15. /\ CanReparent(h, p)
       /\ R \in Wins /\ KinBut(win, R, h, p, NewKind(p))
       /\ Lists(D, R, P, T) /\ Groups(R, P, T)
       /\ \A x \in Win : x \notin Members(win, T, p0) => R[x].hWndSibling = win[x].hWndSibling
       /\ \A x \in Window : x \notin {p0, NewList(p)} => /\ R[x].hWndChild = win[x].hWndChild
                                                        /\ R[x].hWndLastChild = win[x].hWndLastChild
  BY <1>14 DEF IsReparented
<1> HIDE DEF D
<1>16. IsMove(R, T, h, p0, p)
  BY <1>1, <1>2, <1>4, <1>6, <1>7, <1>8, <1>12, <1>15 DEF IsMove, P
<1>17. /\ NoCycle(OverIn(obj, R)) /\ Kinds(obj, R)
       /\ ParentIn(R, h) = q /\ \A x \in Win : x # h => ParentIn(R, x) = ParentIn(win, x)
  BY <1>12, <1>16, MoveOver, MoveKinds
<1>18. Tree(obj, R, T, F)
  <2>1. \A x \in T : ParentIn(win, x) \in {Root} \cup T \cup F
    BY <1>2 DEF Tree
  <2>2. \A x \in T : ParentIn(R, x) \in {Root} \cup T \cup F
    BY <1>1, <1>8, <1>17, <2>1 DEF P
  <2> QED
    BY <1>2, <1>15, <1>17, <2>2 DEF Tree, P
<1>19. Fits(obj, R, T, stack)
  <2>1. \A i \in DOMAIN stack : Good(obj, R, T, stack[i])
    <3> TAKE i \in DOMAIN stack
    <3>1. Good(obj, win, T, stack[i])
      BY <1>2 DEF Fits
    <3>2. IsEntering(stack[i]) \/ stack[i].fn = "FreeWindow" => stack[i].hWnd \in Win \ T
      BY <1>1 DEF Outside
    <3> QED
      BY <1>9, <1>16, <3>1, <3>2, GoodMove
  <2>2. \A i \in DOMAIN stack : \A k2 \in 1 .. i - 1 : Apart(obj, R, stack[i], stack[k2])
    <3> TAKE i \in DOMAIN stack
    <3> TAKE k2 \in 1 .. i - 1
    <3>1. k2 \in DOMAIN stack
      <4>1. DOMAIN stack = 1 .. Len(stack) /\ Len(stack) \in Nat
        BY <1>2
      <4> QED
        BY <4>1
    <3>2. Apart(obj, win, stack[i], stack[k2])
      BY <1>2 DEF Fits
    <3>3. stack[i].fn \in {"DestroyWindow", "FreeWindow"} => stack[i].hWnd \in Win /\ stack[i].hWnd # h
      <4>1. Good(obj, win, T, stack[i])
        BY <1>2 DEF Fits
      <4>2. stack[i].fn \in {"DestroyWindow", "FreeWindow"} => Busy(stack[i])
        BY DEF Busy
      <4> QED
        BY <1>1, <1>3, <1>9, <4>1, <4>2, EndsWindow DEF Clear
    <3>4. stack[k2].fn = "Proc" /\ stack[k2].hWnd \in FamilyIn(obj, win, h)
            => stack[k2].hWnd = h \/ win[stack[k2].hWnd].kind = "child"
      BY <1>3, <3>1, AboutIs
    <3> QED
      BY <1>9, <1>16, <3>1, <3>2, <3>3, <3>4, ApartMove
  <2> QED
    BY <1>2, <2>1, <2>2 DEF Fits
<1>20. Sound(obj, R, stack)
  BY <1>18, <1>19 DEF Sound, T, F
<1>21. Relocated(win, R, T, h)
  <2>1. Has(C, win, T) /\ Has(PutAt(CutAt(C, p0, k), q, 1, h), R, T)
    BY <1>10, <1>15 DEF Has, P, D, q
  <2> QED
    BY <1>4, <1>8, <1>13, <2>1 DEF Relocated, P
<1> QED
  BY <1>15, <1>20, <1>21 DEF R, T

\* The program may call SetParent.
LEMMA ParentKept ==
    ASSUME Polite, Sound(obj, win, stack), NEW h \in Win, NEW p \in {Null} \cup Win, SetParent(h, p)
    PROVE  Kept /\ crashed' = crashed
<1> DEFINE R == Reparented(h, p)
           T == TreeIn(obj, stack)
<1>1. /\ ProgramRuns /\ h \in Known /\ MayDestroy(h)
      /\ p = Null \/ (p \in Known /\ MayUse(p) /\ p # h /\ ~IsChild(h, p))
      /\ p # win[h].hWndParent /\ MayMove(h)
  BY DEF SetParent, Calling
<1>2. /\ CanReparent(h, p) /\ Sound(obj, R, stack) /\ Relocated(win, R, T, h)
  BY <1>1, ParentSound
<1>3. /\ win' = R /\ Continue(obj, Caller) /\ crashed' = crashed
  BY <1>2 DEF SetParent
<1> HIDE DEF R
<1>4. Calm(R, stack, Caller)
  BY <1>1, <1>2, CallerIs
<1>5. Sound(obj, R, Caller) /\ TreeIn(obj, Caller) = T
  BY <1>4 DEF Calm
<1>6. Change(win, T, R, TreeIn(obj, Caller))
  BY <1>2, <1>5 DEF Change
<1>7. Kept
  BY <1>3, <1>5, <1>6, StepKept
<1> QED
  BY <1>3, <1>7

----------------------------------------------------------------------------
(* Steps of a call that change no window *)

\* The frame on top may go on at `at'.
GoingOn(at) ==
    /\ stack # <<>> /\ at \in Stages
    /\ Top.fn \notin {"SetWindowPos", "Proc"}
    /\ Top.fn = "FreeWindow" => Top.at # "children" /\ at # "children"
    /\ Top.fn = "SetFocus" => at # "focus"
    /\ Top.fn = "CreateWindowEx" => Top.at # "insert" /\ at \notin {"insert", "nccreate"}

\* It does, and sends a message.
LEMMA ThenSending ==
    ASSUME NEW W, Sound(obj, W, stack), NEW at, GoingOn(at), NEW next \in HWND, NEW h, NEW m \in Messages
    PROVE  Calm(W, stack, Then(at, next, Send(h, m)))
<1> DEFINE S == On(at, next)
<1>1. /\ Calm(W, stack, S) /\ S # <<>> /\ S[Len(S)] = Moved(at, next)
  BY GoesOn DEF GoingOn
<1>2. Moved(at, next).at = at /\ Moved(at, next).fn = Top.fn
  <2>1. Top \in FrameRec
    BY Stacked DEF GoingOn
  <2>2. IsMoved(Moved(at, next), Top, at, next)
    BY <2>1, MovedIs DEF GoingOn, Moved
  <2> QED
    BY <2>2 DEF IsMoved
<1>3. Ready(S, m)
  BY <1>1, <1>2 DEF Ready, GoingOn
<1>4. Then(at, next, Send(h, m)) = S \o Send(h, m)
  BY ThenIs
<1> HIDE DEF S
<1>5. Calm(W, S, S \o Send(h, m))
  BY <1>1, <1>3, Sending DEF Calm
<1> QED
  BY <1>1, <1>4, <1>5, CalmTwice

LEMMA ThenNothing ==
    ASSUME NEW W, Sound(obj, W, stack), NEW at, GoingOn(at), NEW next \in HWND
    PROVE  Calm(W, stack, Then(at, next, <<>>)) /\ Then(at, next, <<>>) = On(at, next)
<1>1. Calm(W, stack, On(at, next)) /\ On(at, next) \in Seq(FrameRec)
  BY GoesOn DEF GoingOn
<1>2. Then(at, next, <<>>) = On(at, next) \o <<>>
  BY ThenIs
<1>3. On(at, next) \o <<>> = On(at, next)
  BY <1>1
<1> QED
  BY <1>1, <1>2, <1>3

\* The frame on top goes on, above what a step S puts there.
LEMMA ThenCalm ==
    ASSUME Sound(obj, win, stack), NEW at, GoingOn(at), NEW next \in HWND, NEW c,
           Sound(obj, win, On(at, next)) /\ TreeIn(obj, On(at, next)) = TreeIn(obj, stack)
               => Calm(win, On(at, next), On(at, next) \o c)
    PROVE  Calm(win, stack, Then(at, next, c))
<1> DEFINE S == On(at, next)
<1>1. Calm(win, stack, S)
  BY ThenNothing
<1>2. Then(at, next, c) = S \o c
  BY ThenIs
<1> HIDE DEF S
<1>3. Calm(win, S, S \o c)
  BY <1>1 DEF Calm, S
<1> QED
  BY <1>1, <1>2, <1>3, CalmTwice

\* The frame on top returns, and a message is sent.
Returning == stack # <<>> /\ ~IsEntering(Top) /\ Top.fn # "FreeWindow"

LEMMA Returned ==
    ASSUME NEW W, Sound(obj, W, stack), Returning
    PROVE  Calm(W, stack, Return)
<1>1. Top = Last(stack)
  BY DEF Top
<1> QED
  BY <1>1, SoundPop DEF Returning, Calm, Return

LEMMA ReturnSending ==
    ASSUME NEW W, Sound(obj, W, stack), Returning, NEW h, NEW m \in Messages, m # "WM_CREATE"
    PROVE  Calm(W, stack, Return \o Send(h, m))
<1>1. Calm(W, stack, Return)
  BY Returned
<1>2. Ready(Return, m)
  BY DEF Ready
<1>3. Calm(W, Return, Return \o Send(h, m))
  BY <1>1, <1>2, Sending DEF Calm
<1> QED
  BY <1>1, <1>3, CalmTwice

LEMMA StepsKept ==
    ASSUME NEW s, Steps(s), Calm(win, stack, s)
    PROVE  Kept
BY CalmKept DEF Steps

\* What is at work on a window.
LEMMA AtPlace ==
    ASSUME NEW W, Sound(obj, W, stack), stack # <<>>,
           Top.fn \in {"CreateWindowEx", "SetActiveWindow", "SetWindowPos", "DestroyWindow"}, ~IsEntering(Top)
    PROVE  /\ w \in TreeIn(obj, stack) /\ ParentIn(W, w) \in {Root} \cup TreeIn(obj, stack)
           /\ Top.fn = "SetWindowPos" => Top.next \in {Null, Root} \cup Members(W, TreeIn(obj, stack), ParentIn(W, w))
<1>1. Good(obj, W, TreeIn(obj, stack), Top) /\ w = Top.hWnd
  BY Stacked
<1> QED
  BY <1>1 DEF Good, GoodPlace

----------------------------------------------------------------------------
(* Activation *)

LEMMA ActivateChildKept ==
    ASSUME Sound(obj, win, stack), ActivateChild
    PROVE  Kept
<1>1. Returning /\ Steps(Return \o Send(w, "WM_CHILDACTIVATE"))
  BY DEF ActivateChild, At, Returning, IsEntering
<1>2. Calm(win, stack, Return \o Send(w, "WM_CHILDACTIVATE"))
  BY <1>1, ReturnSending DEF Messages
<1> QED
  BY <1>1, <1>2, StepsKept

LEMMA ActivateRaiseKept ==
    ASSUME Sound(obj, win, stack), ActivateRaise
    PROVE  Kept
<1>1. GoingOn("swap") /\ GoingOn("order")
  BY DEF ActivateRaise, At, GoingOn, Stages
<1>2. Calm(win, stack, Then("swap", Null, <<>>))
  BY <1>1, ThenNothing, Handles
<1>3. Calm(win, stack, Then("order", Null, Send(w, "WM_WINDOWPOSCHANGING")))
  BY <1>1, ThenSending, Handles DEF Messages
<1> QED
  BY <1>2, <1>3, StepsKept DEF ActivateRaise

LEMMA ActivateSwapKept ==
    ASSUME Sound(obj, win, stack), ActivateSwap
    PROVE  Kept
<1>1. GoingOn("nc")
  BY DEF ActivateSwap, At, GoingOn, Stages
<1> DEFINE s == Then("nc", Null, Send(hCurrentActiveWindow, "WM_ACTIVATE"))
<1>2. Calm(win, stack, s)
  BY <1>1, ThenSending, Handles DEF Messages
<1> QED
  BY <1>2, CalmKept DEF ActivateSwap

\* DefWindowProc gives the focus to the window that is activated: no child window.
LEMMA ActivateCalm ==
    ASSUME NEW S, Sound(obj, win, S), Ready(S, "WM_ACTIVATE"),
           IsTop(obj, win, hCurrentActiveWindow)
    PROVE  Calm(win, S, S \o SendActivate(hCurrentActiveWindow))
<1> DEFINE h == hCurrentActiveWindow
           f == Frame("SetFocus", "focus", h, Null)
<1>1. CASE h \in Win /\ IsWindow(h) /\ "WM_ACTIVATE" \notin Handled
  <2>1. IsWin(obj, h) /\ h \in Some(obj) /\ win[h].kind # "child"
    BY <1>1, StateIs DEF IsTop, Some
  <2>2. GetTopLevelAncestor(h) = h
    BY <1>1, <2>1, AncestorIs DEF Sound, Tree
  <2>3. ActiveCall(h) = <<>>
    BY DEF ActiveCall
  <2>4. FocusCall(h) = <<f>> \o <<>>
    BY <1>1, <2>2, <2>3, Handles DEF FocusCall
  <2>5. <<f>> \o <<>> = <<f>>
    <3> HIDE DEF f
    <3>1. <<f>> \in Seq({f})
      OBVIOUS
    <3> QED
      BY <3>1
  <2>6. SendActivate(h) = <<f>>
    BY <1>1, <2>4, <2>5 DEF SendActivate
  <2> QED
    BY <2>1, <2>6, FocusPush
<1>2. CASE ~(h \in Win /\ IsWindow(h) /\ "WM_ACTIVATE" \notin Handled)
  <2>1. SendActivate(h) = Send(h, "WM_ACTIVATE")
    BY <1>2 DEF SendActivate
  <2> QED
    BY <2>1, Sending DEF Messages
<1> QED
  BY <1>1, <1>2

LEMMA ActivateTellKept ==
    ASSUME Sound(obj, win, stack), IsTop(obj, win, hCurrentActiveWindow), ActivateTell
    PROVE  Kept
<1> USE DEF Messages
<1>1. CASE At("SetActiveWindow", "nc")
           /\ Steps(Then("activate", Null, Send(hCurrentActiveWindow, "WM_NCACTIVATE")))
  <2>1. GoingOn("activate")
    BY <1>1 DEF At, GoingOn, Stages
  <2>2. Calm(win, stack, Then("activate", Null, Send(hCurrentActiveWindow, "WM_NCACTIVATE")))
    BY <2>1, ThenSending, Handles
  <2> QED
    BY <1>1, <2>2, StepsKept
<1>2. CASE At("SetActiveWindow", "activate")
           /\ Steps(Then("focus", Null, SendActivate(hCurrentActiveWindow)))
  <2>1. GoingOn("focus")
    BY <1>2 DEF At, GoingOn, Stages
  <2> DEFINE S == On("focus", Null)
  <2>2. Ready(S, "WM_ACTIVATE")
    BY DEF Ready
  <2>3. Sound(obj, win, S) => Calm(win, S, S \o SendActivate(hCurrentActiveWindow))
    BY <2>2, ActivateCalm
  <2>4. Calm(win, stack, Then("focus", Null, SendActivate(hCurrentActiveWindow)))
    BY <2>1, <2>3, ThenCalm, Handles
  <2> QED
    BY <1>2, <2>4, StepsKept
<1>3. CASE At("SetActiveWindow", "focus") /\ Steps(Return \o Send(hCurrentActiveWindow, "WM_SETFOCUS"))
  <2>1. Returning
    BY <1>3 DEF At, Returning, IsEntering
  <2>2. Calm(win, stack, Return \o Send(hCurrentActiveWindow, "WM_SETFOCUS"))
    BY <2>1, ReturnSending
  <2> QED
    BY <1>3, <2>2, StepsKept
<1> QED
  BY <1>1, <1>2, <1>3 DEF ActivateTell

\* A window in the tree gets another place in its list.
LEMMA OrderKept ==
    ASSUME Sound(obj, win, stack), NEW h \in Win, NEW R, NEW s,
           Sound(obj, R, stack), Placed(win, R, TreeIn(obj, stack), h),
           Calm(R, stack, s), Continue(obj, s), win' = R
    PROVE  Kept
<1>1. Sound(obj, win', s) /\ TreeIn(obj, s) = TreeIn(obj, stack)
  BY DEF Calm
<1>2. Change(win, TreeIn(obj, stack), win', TreeIn(obj, s))
  BY <1>1 DEF Change
<1> QED
  BY <1>1, <1>2, StepKept

LEMMA ActivateOrderKept ==
    ASSUME Sound(obj, win, stack), ActivateOrder
    PROVE  Kept /\ crashed' = crashed
<1> DEFINE R == ChangeZOrder(w, HWND_TOP)
           s == Then("swap", Null, Send(w, "WM_WINDOWPOSCHANGED"))
<1>1. At("SetActiveWindow", "order") /\ GoingOn("swap")
  BY DEF ActivateOrder, At, GoingOn, Stages
<1>2. w \in TreeIn(obj, stack) /\ ParentIn(win, w) \in {Root} \cup TreeIn(obj, stack)
  BY <1>1, AtPlace DEF At, IsEntering
<1>3. CanFindPrev(w) /\ Sound(obj, R, stack) /\ Placed(win, R, TreeIn(obj, stack), w)
  BY <1>2, Reordered DEF HWND_TOP
<1>4. win' = R /\ Continue(obj, s) /\ crashed' = crashed
  BY <1>3 DEF ActivateOrder
<1>5. w \in Win
  BY <1>2, TreeKnown
<1> HIDE DEF R
<1>6. Calm(R, stack, s)
  BY <1>1, <1>3, ThenSending, Handles DEF Messages
<1> QED
  BY <1>3, <1>4, <1>5, <1>6, OrderKept

LEMMA SetWindowPosOrderKept ==
    ASSUME Sound(obj, win, stack), SetWindowPosOrder
    PROVE  Kept /\ crashed' = crashed
<1> DEFINE R == ChangeZOrder(w, Top.next)
           s == Return \o Send(w, "WM_WINDOWPOSCHANGED")
<1>1. At("SetWindowPos", "order") /\ Returning
  BY DEF SetWindowPosOrder, At, Returning, IsEntering
<1>2. /\ w \in TreeIn(obj, stack) /\ ParentIn(win, w) \in {Root} \cup TreeIn(obj, stack)
      /\ Top.next \in {Null, Root} \cup Members(win, TreeIn(obj, stack), ParentIn(win, w))
  BY <1>1, AtPlace DEF At, IsEntering
<1>3. CanFindPrev(w) /\ Sound(obj, R, stack) /\ Placed(win, R, TreeIn(obj, stack), w)
  BY <1>2, Reordered
<1>4. win' = R /\ Continue(obj, s) /\ crashed' = crashed
  BY <1>3 DEF SetWindowPosOrder
<1>5. w \in Win
  BY <1>2, TreeKnown
<1> HIDE DEF R
<1>6. Calm(R, stack, s)
  BY <1>1, <1>3, ReturnSending DEF Messages
<1> QED
  BY <1>3, <1>4, <1>5, <1>6, OrderKept

----------------------------------------------------------------------------
(* The focus *)

LEMMA FocusTakeKept ==
    ASSUME Sound(obj, win, stack), hCurrentFocusWindow \in HWND, FocusTake
    PROVE  Kept
<1>1. GoingOn("focused") /\ Returning
  BY DEF FocusTake, At, GoingOn, Stages, Returning, IsEntering
<1>2. GetFocus \in HWND
  BY Handles DEF GetFocus
<1>3. CASE w = Null \/ IsWindow(w)
  <2>1. Calm(win, stack, Then("focused", GetFocus, <<>>))
    BY <1>1, <1>2, ThenNothing
  <2>2. Calm(win, stack, Then("focused", GetFocus, Send(GetFocus, "WM_KILLFOCUS")))
    BY <1>1, <1>2, ThenSending DEF Messages
  <2> DEFINE s == Then("focused", GetFocus, IF GetFocus = w THEN <<>>
                                            ELSE Send(GetFocus, "WM_KILLFOCUS"))
  <2>3. Calm(win, stack, s)
    BY <2>1, <2>2
  <2>4. Continue(obj, s) /\ win' = win
    BY <1>3 DEF FocusTake
  <2> QED
    BY <2>3, <2>4, CalmKept
<1>4. CASE ~(w = Null \/ IsWindow(w))
  <2>1. Steps(Return)
    BY <1>4 DEF FocusTake
  <2> QED
    BY <1>1, <2>1, Returned, StepsKept
<1> QED
  BY <1>3, <1>4

LEMMA FocusTellKept ==
    ASSUME Sound(obj, win, stack), FocusTell
    PROVE  Kept
<1>1. Returning
  BY DEF FocusTell, At, Returning, IsEntering
<1>2. Calm(win, stack, Return)
  BY <1>1, Returned
<1>3. Calm(win, stack, Return \o Send(w, "WM_SETFOCUS"))
  BY <1>1, ReturnSending DEF Messages
<1>4. Return \o <<>> = Return
  BY <1>1, Stacked DEF Return, Returning
<1> DEFINE s == Return \o IF Top.next = w THEN <<>> ELSE Send(w, "WM_SETFOCUS")
<1>5. Calm(win, stack, s)
  BY <1>2, <1>3, <1>4
<1>6. Continue(obj, s) /\ win' = win
  BY DEF FocusTell
<1> QED
  BY <1>5, <1>6, CalmKept

----------------------------------------------------------------------------
(* A window is shown or hidden *)

Seen(W, h, v) == [W EXCEPT ![h].visible = v]

LEMMA SeenAlike ==
    ASSUME NEW O, NEW W, NEW S, Sound(O, W, S), NEW h \in Window, NEW v \in BOOLEAN
    PROVE  /\ Alike(O, W, Seen(W, h, v), S) /\ Sound(O, Seen(W, h, v), S)
           /\ \A C : Has(C, W, TreeIn(O, S)) => Has(C, Seen(W, h, v), TreeIn(O, S))
<1> DEFINE R == Seen(W, h, v)
<1>1. W \in Wins
  BY DEF Sound, Tree
<1>2. \A x \in Window : R[x] = IF x = h THEN [W[x] EXCEPT !.visible = v] ELSE W[x]
  BY <1>1 DEF Wins, Seen
<1>3. \A x \in Window : W[x] \in WinRec
  BY <1>1 DEF Wins
<1>4. R \in Wins
  <2>1. [W[h] EXCEPT !.visible = v] \in WinRec
    BY <1>3 DEF WinRec
  <2> QED
    BY <1>1, <2>1 DEF Wins, Seen
<1>5. \A x \in Window : SameBut(W, R, x)
  <2> SUFFICES ASSUME NEW x \in Window PROVE SameBut(W, R, x)
    OBVIOUS
  <2> HIDE DEF R
  <2>1. CASE x # h
    BY <1>2, <2>1 DEF SameBut, SameLinks
  <2>2. CASE x = h
    <3>1. W[x] \in WinRec /\ R[x] = [W[x] EXCEPT !.visible = v]
      BY <1>2, <1>3, <2>2
    <3> QED
      BY <3>1 DEF SameBut, SameLinks, WinRec
  <2> QED
    BY <2>1, <2>2
<1>6. Alike(O, W, R, S)
  BY <1>4, <1>5 DEF Alike
<1> QED
  BY <1>6, SoundAlike

LEMMA SeenKept ==
    ASSUME Sound(obj, win, stack), NEW h \in Window, NEW v \in BOOLEAN, NEW s,
           Calm(Seen(win, h, v), stack, s), Continue(obj, s), win' = Seen(win, h, v)
    PROVE  Kept
<1>1. Sound(obj, win', s) /\ TreeIn(obj, s) = TreeIn(obj, stack)
  BY DEF Calm
<1>2. Quiet(win, TreeIn(obj, stack), win', TreeIn(obj, s))
  BY <1>1, SeenAlike DEF Quiet
<1> QED
  BY <1>1, <1>2, StepKept DEF Change

LEMMA HandleIs ==
    ASSUME win \in Wins
    PROVE  /\ \A x : GetParent(x) \in HWND
           /\ \A x : NextSib(x) \in HWND
           /\ \A x \in Window : {win[x].hWndChild, win[x].hWndSibling, win[x].hWndOwner} \subseteq HWND
<1>1. \A x \in Window : win[x] \in WinRec
  BY DEF Wins
<1>2. \A x : IsWindow(x) => x \in Window
  BY DEF IsWindow, Window
<1>3. \A x \in Window : /\ win[x].hWndParent \in HWND /\ win[x].hWndOwner \in HWND
                        /\ win[x].hWndSibling \in HWND /\ win[x].hWndChild \in HWND
  BY <1>1 DEF WinRec
<1> QED
  BY <1>2, <1>3, Handles DEF GetParent, NextSib

----------------------------------------------------------------------------
(* CreateWindowEx *)

\* The steps of CreateWindowEx.
LEMMA CreateInsertKept ==
    ASSUME Sound(obj, win, stack), CreateInsert
    PROVE  Kept /\ crashed' = crashed
<1> DEFINE R == Inserted(w)
           S == On("nccreate", Null)
           s == Then("nccreate", Null, Send(w, "WM_NCCREATE"))
           T == TreeIn(obj, stack)
<1>1. stack # <<>> /\ IsEntering(Top)
  BY DEF CreateInsert, At, IsEntering
<1>2. /\ CanInsertLast(w, win[w]) /\ Sound(obj, R, S) /\ TreeIn(obj, S) = T \cup {w}
      /\ Added(win, R, T, w)
  BY <1>1, Entered
<1>3. win' = R /\ Continue(obj, s) /\ crashed' = crashed
  BY <1>2 DEF CreateInsert, Inserted
<1>4. s = S \o Send(w, "WM_NCCREATE")
  BY ThenIs
<1> HIDE DEF R, S, s
<1>5. Calm(R, S, S \o Send(w, "WM_NCCREATE"))
  <2>1. Ready(S, "WM_NCCREATE")
    BY DEF Ready
  <2> QED
    BY <1>2, <2>1, Sending DEF Messages
<1>6. Sound(obj, win', s) /\ TreeIn(obj, s) = T \cup {w}
  BY <1>2, <1>3, <1>4, <1>5 DEF Calm
<1>7. Change(win, T, win', TreeIn(obj, s))
  BY <1>2, <1>3, <1>6 DEF Change, Added
<1> QED
  BY <1>3, <1>6, <1>7, StepKept

LEMMA CreateTellKept ==
    ASSUME Sound(obj, win, stack), CreateTell
    PROVE  Kept
<1>1. At("CreateWindowEx", "nccreate") /\ GoingOn("create")
  BY DEF CreateTell, At, GoingOn, Stages
<1>2. ~Top.refused
  <2>1. Good(obj, win, TreeIn(obj, stack), Top)
    BY <1>1, Stacked DEF At
  <2> QED
    BY <1>1, <2>1 DEF At, Good, GoodCreate
<1> DEFINE s == Then("create", Null, Send(w, "WM_CREATE"))
<1>3. Calm(win, stack, s)
  BY <1>1, ThenSending, Handles DEF Messages
<1>4. Continue(obj, s) /\ win' = win
  BY <1>2 DEF CreateTell
<1> QED
  BY <1>3, <1>4, CalmKept

LEMMA NotifyCalm ==
    ASSUME Sound(obj, win, stack), GoingOn("notify"), NEW h
    PROVE  Calm(win, stack, NotifyParent(h))
<1> DEFINE up == GetParent(h)
           next == IF IsWindow(up) /\ win[up].kind = "child" THEN up ELSE Null
<1>1. next \in HWND
  BY HandleIs, Handles DEF Sound, Tree
<1>2. NotifyParent(h) = Then("notify", next, Send(up, "WM_PARENTNOTIFY"))
  BY DEF NotifyParent
<1> HIDE DEF up, next
<1> QED
  BY <1>1, <1>2, ThenSending DEF Messages

LEMMA CreateNotifyKept ==
    ASSUME Sound(obj, win, stack), CreateNotify
    PROVE  Kept
<1>1. GoingOn("notify") /\ GoingOn("show") /\ Returning
  BY DEF CreateNotify, At, GoingOn, Returning, IsEntering, Stages
<1>2. \A h : Calm(win, stack, NotifyParent(h))
  BY <1>1, NotifyCalm
<1>3. Calm(win, stack, Then("show", Null, Send(w, "WM_SHOWWINDOW")))
  BY <1>1, ThenSending, Handles DEF Messages
<1>4. Calm(win, stack, Return)
  BY <1>1, Returned
<1>5. \E s : Steps(s) /\ Calm(win, stack, s)
  <2>1. CASE Steps(CASE Top.refused -> Return
                     [] ~Top.refused /\ win[w].kind = "child" -> NotifyParent(w)
                     [] OTHER -> Then("show", Null, Send(w, "WM_SHOWWINDOW")))
    <3>1. CASE Top.refused
      BY <1>4, <2>1, <3>1
    <3>2. CASE ~Top.refused /\ win[w].kind = "child"
      BY <1>2, <2>1, <3>2
    <3>3. CASE ~Top.refused /\ win[w].kind # "child"
      BY <1>3, <2>1, <3>3
    <3> QED
      BY <3>1, <3>2, <3>3
  <2>2. CASE Steps(IF Top.next # Null THEN NotifyParent(Top.next)
                   ELSE Then("show", Null, Send(w, "WM_SHOWWINDOW")))
    BY <1>2, <1>3, <2>2
  <2> QED
    BY <2>1, <2>2 DEF CreateNotify
<1> QED
  BY <1>5, StepsKept

LEMMA CreateShowKept ==
    ASSUME Sound(obj, win, stack), CreateShow
    PROVE  Kept
<1> DEFINE R == Seen(win, w, TRUE)
           S == On("size", Null)
           s == Then("size", Null, <<Frame("SetActiveWindow", "raise", w, Null)>>)
<1>1. stack # <<>> /\ Top.fn = "CreateWindowEx" /\ ~IsEntering(Top) /\ GoingOn("size")
  BY DEF CreateShow, At, GoingOn, IsEntering, Stages
<1>2. w \in TreeIn(obj, stack) /\ w \in Window
  BY <1>1, AtPlace, TreeKnown DEF Window
<1>3. Sound(obj, R, stack)
  BY <1>2, SeenAlike
<1>4. win' = R /\ Continue(obj, s)
  BY DEF CreateShow, Seen
<1> HIDE DEF R
<1>5. w \in TreeIn(obj, stack) /\ ParentIn(R, w) \in {Root} \cup TreeIn(obj, stack)
  BY <1>1, <1>3, AtPlace
<1>6. Calm(R, stack, S)
  BY <1>1, <1>3, ThenNothing, Handles
<1>7. s = S \o <<Frame("SetActiveWindow", "raise", w, Null)>>
  BY ThenIs
<1> HIDE DEF S, s
<1>8. Calm(R, S, s)
  BY <1>5, <1>6, <1>7, ActivePush DEF Calm
<1>9. Calm(R, stack, s)
  BY <1>6, <1>8, CalmTwice
<1> QED
  BY <1>2, <1>4, <1>9, SeenKept DEF R

LEMMA CreateSizeKept ==
    ASSUME Sound(obj, win, stack), CreateSize
    PROVE  Kept
<1>1. GoingOn("return")
  BY DEF CreateSize, At, GoingOn, Stages
<1>2. Calm(win, stack, Then("return", Null, Send(w, "WM_SIZE")))
  BY <1>1, ThenSending, Handles DEF Messages
<1> QED
  BY <1>2, StepsKept DEF CreateSize

LEMMA CreateReturnKept ==
    ASSUME Sound(obj, win, stack), CreateReturn
    PROVE  Kept
<1>1. Returning
  BY DEF CreateReturn, At, Returning, IsEntering
<1> QED
  BY <1>1, Returned, StepsKept DEF CreateReturn

----------------------------------------------------------------------------
(* DestroyWindow, up to the window itself *)

\* The steps of DestroyWindow.
LEMMA DestroyNotifyKept ==
    ASSUME Sound(obj, win, stack), DestroyNotify
    PROVE  Kept
<1>1. GoingOn("notify") /\ GoingOn("hide")
  BY DEF DestroyNotify, At, GoingOn, Stages
<1> DEFINE up == GetParent(Top.next)
           at == IF IsWindow(up) /\ win[up].kind = "child" THEN "notify" ELSE "hide"
<1>2. GoingOn(at)
  BY <1>1
<1>3. Steps(Then(at, up, Send(up, "WM_PARENTNOTIFY")))
  BY DEF DestroyNotify
<1>4. up \in HWND
  BY HandleIs DEF Sound, Tree
<1> HIDE DEF at, up
<1>5. Calm(win, stack, Then(at, up, Send(up, "WM_PARENTNOTIFY")))
  BY <1>2, <1>4, ThenSending DEF Messages
<1> QED
  BY <1>3, <1>5, StepsKept

LEMMA DestroyHideKept ==
    ASSUME Sound(obj, win, stack), DestroyHide
    PROVE  Kept
<1>1. GoingOn("hidden")
  BY DEF DestroyHide, At, GoingOn, Stages
<1>2. Calm(win, stack, Then("hidden", Null, Send(w, "WM_SHOWWINDOW")))
  BY <1>1, ThenSending, Handles DEF Messages
<1>3. Calm(win, stack, Then("hidden", Null, <<>>))
  BY <1>1, ThenNothing, Handles
<1>4. Steps(Then("hidden", Null, IF win[w].visible THEN Send(w, "WM_SHOWWINDOW") ELSE <<>>))
  BY DEF DestroyHide
<1> QED
  BY <1>2, <1>3, <1>4, StepsKept

LEMMA DestroyHiddenKept ==
    ASSUME Sound(obj, win, stack), DestroyHidden
    PROVE  Kept
<1> DEFINE R == Seen(win, w, FALSE)
           after == IF win[w].visible THEN Send(w, "WM_WINDOWPOSCHANGED") ELSE <<>>
           s == IF win[w].kind = "child" THEN Then("focus", Null, after) ELSE Then("first", Null, after)
<1>1. stack # <<>> /\ Top.fn = "DestroyWindow" /\ ~IsEntering(Top) /\ GoingOn("focus") /\ GoingOn("first")
  BY DEF DestroyHidden, At, GoingOn, IsEntering, Stages
<1>2. w \in Window
  BY <1>1, AtPlace, TreeKnown DEF Window
<1>3. Sound(obj, R, stack)
  BY <1>2, SeenAlike
<1>4. win' = R /\ Continue(obj, s)
  BY DEF DestroyHidden, Seen
<1> HIDE DEF R
<1>5. ASSUME NEW at \in {"focus", "first"} PROVE Calm(R, stack, Then(at, Null, after))
  <2>1. Calm(R, stack, Then(at, Null, Send(w, "WM_WINDOWPOSCHANGED")))
    BY <1>1, <1>3, ThenSending, Handles DEF Messages
  <2>2. Calm(R, stack, Then(at, Null, <<>>))
    BY <1>1, <1>3, ThenNothing, Handles
  <2> QED
    BY <2>1, <2>2
<1>6. Calm(R, stack, s)
  BY <1>5
<1> HIDE DEF s
<1> QED
  BY <1>2, <1>4, <1>6, SeenKept DEF R

\* The parent or owner of a window that is destroyed can get the focus.
LEMMA ParentStays ==
    ASSUME Sound(obj, win, stack), stack # <<>>, Top.fn = "DestroyWindow", NEW h, h = GetParent(w)
    PROVE  /\ h \in {Null} \cup Some(obj)
           /\ h # Null => Safe(obj, win, TreeIn(obj, stack), h)
<1> DEFINE T == TreeIn(obj, stack)
           L == OverIn(obj, win)
<1>1. w \in T /\ w \in Win /\ IsWin(obj, w)
  BY AtPlace, TreeKnown DEF IsEntering
<1>2. Safe(obj, win, T, w)
  <2>1. Good(obj, win, T, Top) /\ w = Top.hWnd
    BY Stacked
  <2> QED
    BY <2>1 DEF Good, GoodEnd, Safe
<1>3. obj \in Objs /\ win \in Wins /\ Kinds(obj, win)
  BY DEF Sound, Tree
<1>4. h \in {Null, L[w]} /\ L[w] \in {Null} \cup Some(obj)
  <2>1. IsWindow(w) /\ w \in HWND /\ w # Root
    BY <1>1, StateIs, Handles
  <2>2. obj[w] \in Alive
    BY <1>1, <2>1 DEF IsWin
  <2>3. L[w] = IF win[w].kind = "child" THEN win[w].hWndParent ELSE win[w].hWndOwner
    BY <1>1, <2>1 DEF OverIn
  <2>4. L[w] \in {Null} \cup Some(obj)
    BY <1>1, <1>3, <2>2 DEF Kinds
  <2>5. h = CASE win[w].kind = "child" -> win[w].hWndParent
              [] win[w].kind = "popup" -> win[w].hWndOwner
              [] OTHER -> Null
    BY <2>1 DEF GetParent
  <2>6. CASE win[w].kind = "child"
    BY <2>3, <2>4, <2>5, <2>6
  <2>7. CASE win[w].kind = "popup"
    BY <2>3, <2>4, <2>5, <2>7
  <2>8. CASE win[w].kind \notin {"child", "popup"}
    BY <2>4, <2>5, <2>8
  <2> QED
    BY <2>6, <2>7, <2>8
<1>5. CASE h = Null
  BY <1>5
<1>6. CASE h # Null
  <2> DEFINE F(a) == Under(L, a)
  <2>1. h = L[w] /\ h \in Some(obj) /\ h \in Win
    BY <1>4, <1>6 DEF Some
  <2>2. L \in Links /\ EndsOut(L)
    BY <1>3, OverEnds
  <2>3. \A a \in Win : h \in F(a) => w \in F(a)
    BY <1>1, <2>1, <2>2, UnderClosed
  <2>4. w \in F(h)
    <3>1. h \in F(h)
      BY <2>1, <2>2, UnderSelf
    <3> QED
      BY <2>1, <2>3, <3>1
  <2>5. \A a \in Win : w \in F(a) => Firm(obj, T, a)
    BY <1>2 DEF Safe, FamilyIn
  <2> QED
    BY <2>1, <2>3, <2>4, <2>5 DEF Safe, FamilyIn
<1> QED
  BY <1>5, <1>6

LEMMA DestroyFocusKept ==
    ASSUME Sound(obj, win, stack), DestroyFocus
    PROVE  Kept
<1>1. stack # <<>> /\ Top.fn = "DestroyWindow" /\ GoingOn("tell")
  BY DEF DestroyFocus, At, GoingOn, Stages
<1>2. Calm(win, stack, Then("tell", Null, <<>>))
  BY <1>1, ThenNothing, Handles
<1> DEFINE S == On("tell", Null)
           h == GetParent(w)
<1>3. /\ h \in {Null} \cup Some(obj)
      /\ h # Null => Safe(obj, win, TreeIn(obj, stack), h)
  BY <1>1, ParentStays
<1> HIDE DEF h
<1>4. Sound(obj, win, S) /\ TreeIn(obj, S) = TreeIn(obj, stack) => Calm(win, S, S \o FocusCall(h))
  BY <1>3, Focusing
<1>5. Calm(win, stack, Then("tell", Null, FocusCall(h)))
  BY <1>1, <1>4, ThenCalm, Handles
<1>6. Steps(Then("tell", Null, IF GetFocus # Null /\ (GetFocus = w \/ IsChild(w, GetFocus))
                               THEN FocusCall(h) ELSE <<>>))
  BY DEF DestroyFocus, h
<1> QED
  BY <1>2, <1>5, <1>6, StepsKept

LEMMA DestroyTellKept ==
    ASSUME Sound(obj, win, stack), DestroyTell
    PROVE  Kept
<1>1. stack # <<>> /\ GoingOn("unlink")
  BY DEF DestroyTell, At, GoingOn, Stages
<1> DEFINE S == On("unlink", Null)
<1>2. w \in HWND
  BY <1>1, Stacked
<1>3. Sound(obj, win, S) /\ TreeIn(obj, S) = TreeIn(obj, stack) => Calm(win, S, S \o TellCall(w))
  BY <1>2, Telling
<1>4. Calm(win, stack, Then("unlink", Null, TellCall(w)))
  BY <1>1, <1>3, ThenCalm, Handles
<1> QED
  BY <1>4, StepsKept DEF DestroyTell

LEMMA TellNextKept ==
    ASSUME Sound(obj, win, stack), stack # <<>>, Top.fn = "SendDestroyMessages", NEW h \in HWND, TellNext(h)
    PROVE  Kept
<1>1. GoingOn("rest") /\ Returning
  BY DEF GoingOn, Returning, IsEntering, Stages
<1>2. CASE h = Null
  <2>1. Steps(Return)
    BY <1>2 DEF TellNext
  <2> QED
    BY <1>1, <2>1, Returned, StepsKept
<1>3. CASE h # Null
  <2> DEFINE S == On("rest", h)
  <2>1. Steps(Then("rest", h, TellCall(h)))
    BY <1>3 DEF TellNext
  <2>2. Sound(obj, win, S) /\ TreeIn(obj, S) = TreeIn(obj, stack) => Calm(win, S, S \o TellCall(h))
    BY Telling
  <2>3. Calm(win, stack, Then("rest", h, TellCall(h)))
    BY <1>1, <2>2, ThenCalm
  <2> QED
    BY <2>1, <2>3, StepsKept
<1> QED
  BY <1>2, <1>3

LEMMA TellChildrenKept ==
    ASSUME Sound(obj, win, stack), TellChildren
    PROVE  Kept
<1>1. stack # <<>> /\ Top.fn = "SendDestroyMessages"
  BY DEF TellChildren, At
<1>2. \A x : IsWindow(x) => win[x].hWndChild \in HWND /\ win[x].hWndSibling \in HWND
  <2>1. win \in Wins
    BY DEF Sound, Tree
  <2>2. \A x : IsWindow(x) => x \in Window
    BY DEF IsWindow, Window
  <2> QED
    BY <2>1, <2>2, HandleIs
<1>3. \E h \in HWND : TellNext(h)
  <2>1. CASE TellNext(IF IsWindow(w) THEN win[w].hWndChild ELSE Null)
    BY <1>2, <2>1, Handles
  <2>2. CASE TellNext(IF IsWindow(Top.next) THEN win[Top.next].hWndSibling ELSE Null)
    BY <1>2, <2>2, Handles
  <2> QED
    BY <2>1, <2>2 DEF TellChildren
<1> QED
  BY <1>1, <1>3, TellNextKept

LEMMA DestroyUnlinkKept ==
    ASSUME Sound(obj, win, stack), DestroyUnlink
    PROVE  Kept /\ crashed' = crashed
<1> DEFINE R == RemoveFromList(w)
           s == Return \o FreeCall(w)
           T == TreeIn(obj, stack)
<1>1. stack # <<>> /\ Top.fn = "DestroyWindow"
  BY DEF DestroyUnlink, At
<1>2. CanRemove(w) /\ Sound(obj, R, s) /\ TreeIn(obj, s) = T \ {w} /\ w \in T /\ Removed(win, R, T, w)
  BY <1>1, Unlinks
<1>3. win' = R /\ Continue(obj, s) /\ crashed' = crashed
  BY <1>2 DEF DestroyUnlink
<1>4. w \in Win
  BY <1>2, TreeKnown
<1> HIDE DEF R, s, T
<1>5. Change(win, T, win', TreeIn(obj, s))
  BY <1>2, <1>3, <1>4 DEF Change
<1> QED
  BY <1>2, <1>3, <1>5, StepKept DEF T

----------------------------------------------------------------------------
(* FreeWindow *)

\* Another overlapped window is one in the tree.
LEMMA AnotherIs ==
    ASSUME Sound(obj, win, stack), NEW h
    PROVE  FindAnotherOverlapped(h) \in {Null} \cup TreeIn(obj, stack)
<1> DEFINE T == TreeIn(obj, stack)
           s == Children(Root)
           found == {i \in DOMAIN s : win[s[i]].kind # "popup"}
           others == {i \in found : s[i] # h}
<1>1. PICK C : Lists(C, win, {Root} \cup T, T)
  BY DEF Sound, Tree
<1>2. Now(C, {Root} \cup T, T)
  BY <1>1, NowTree, TreeKnown DEF Sound
<1>3. s \in Seq(Win) /\ Elements(s) = Members(win, T, Root)
  BY <1>2, ChildrenAre
<1>4. DOMAIN s \subseteq Nat /\ \A i \in DOMAIN s : s[i] \in T
  BY <1>3 DEF Elements, Members
<1>5. FindAnotherOverlapped(h) = IF others # {} THEN s[Min(others)]
                                 ELSE IF found # {} THEN s[Min(found)] ELSE Null
  BY DEF FindAnotherOverlapped
<1>6. found \subseteq DOMAIN s /\ others \subseteq DOMAIN s /\ found \subseteq Nat /\ others \subseteq Nat
  BY <1>4
<1> HIDE DEF found, others, s
<1>7. others # {} => Min(others) \in others
  BY <1>6, MinNat
<1>8. found # {} => Min(found) \in found
  BY <1>6, MinNat
<1> QED
  BY <1>4, <1>5, <1>6, <1>7, <1>8

\* The steps of FreeWindow.
LEMMA FreeChildrenKept ==
    ASSUME Sound(obj, win, stack), FreeChildren
    PROVE  Kept
<1> DEFINE T == TreeIn(obj, stack)
<1>1. stack # <<>> /\ Top.fn = "FreeWindow" /\ Top.at = "children"
  BY DEF FreeChildren, At
<1>2. CASE Top.next = Null
  <2>1. Steps(Then("active", Null, <<>>))
    BY <1>2 DEF FreeChildren
  <2> QED
    BY <1>1, <1>2, <2>1, ChildrenGone, StepsKept
<1>3. CASE Top.next # Null
  <2> DEFINE n == Top.next
             s == Then("children", NextSib(n), FreeCall(n))
  <2>1. Steps(s)
    BY <1>3 DEF FreeChildren
  <2>2. Continue(obj, s) /\ win' = win
    BY <2>1 DEF Steps
  <2>3. Sound(obj, win, s) /\ TreeIn(obj, s) = T \ {n} /\ Perished(win, T, n)
    BY <1>1, <1>3, ChildFreed
  <2>4. n \in Win
    BY <2>3, TreeKnown DEF Perished
  <2> HIDE DEF n, s, T
  <2>5. Change(win, T, win', TreeIn(obj, s))
    BY <2>2, <2>3, <2>4 DEF Change
  <2> QED
    BY <2>2, <2>3, <2>5, StepKept DEF T
<1> QED
  BY <1>2, <1>3

LEMMA FreeActiveIsKept ==
    ASSUME Sound(obj, win, stack), FreeActive
    PROVE  Kept
<1> DEFINE T == TreeIn(obj, stack)
           owner == win[w].hWndOwner
           heir == IF owner # Null THEN owner ELSE FindAnotherOverlapped(w)
           S == On("focus", Null)
           s == Then("focus", Null, IF w = hCurrentActiveWindow /\ heir # Null THEN ActiveCall(heir) ELSE <<>>)
<1>1. stack # <<>> /\ Top.fn = "FreeWindow" /\ GoingOn("focus")
  BY DEF FreeActive, At, GoingOn, Stages
<1>2. Firm(obj, T, owner)
  BY <1>1, Stacked DEF Good, GoodEnd
<1>3. FindAnotherOverlapped(w) \in {Null} \cup T
  BY AnotherIs
<1>4. heir # Null => Firm(obj, T, heir)
  BY <1>2, <1>3 DEF Firm
<1>5. Continue(obj, s) /\ win' = win
  BY DEF FreeActive
<1> HIDE DEF heir
<1>6. Calm(win, stack, Then("focus", Null, <<>>))
  BY <1>1, ThenNothing, Handles
<1>7. ASSUME heir # Null PROVE Calm(win, stack, Then("focus", Null, ActiveCall(heir)))
  <2>1. Firm(obj, T, heir)
    BY <1>4, <1>7
  <2>2. Sound(obj, win, S) /\ TreeIn(obj, S) = TreeIn(obj, stack) => Calm(win, S, S \o ActiveCall(heir))
    BY <2>1, Activating
  <2> QED
    BY <1>1, <2>2, ThenCalm, Handles
<1>8. Calm(win, stack, s)
  BY <1>6, <1>7
<1> QED
  BY <1>5, <1>8, CalmKept

LEMMA FreeFocusKept ==
    ASSUME Sound(obj, win, stack), FreeFocus
    PROVE  Kept
<1>1. stack # <<>> /\ GoingOn("ncdestroy")
  BY DEF FreeFocus, At, GoingOn, Stages
<1> DEFINE S == On("ncdestroy", Null)
<1>3. Sound(obj, win, S) => Calm(win, S, S \o FocusCall(Null))
  BY Focusing
<1>4. Calm(win, stack, Then("ncdestroy", Null, FocusCall(Null)))
  BY <1>1, <1>3, ThenCalm, Handles
<1>5. Calm(win, stack, Then("ncdestroy", Null, <<>>))
  BY <1>1, ThenNothing, Handles
<1>6. Steps(Then("ncdestroy", Null, IF GetFocus = w THEN FocusCall(Null) ELSE <<>>))
  BY DEF FreeFocus
<1> QED
  BY <1>4, <1>5, <1>6, StepsKept

LEMMA FreeTellKept ==
    ASSUME Sound(obj, win, stack), FreeTell
    PROVE  Kept
<1>1. GoingOn("free")
  BY DEF FreeTell, At, GoingOn, Stages
<1>2. Calm(win, stack, Then("free", Null, Send(w, "WM_NCDESTROY")))
  BY <1>1, ThenSending, Handles DEF Messages
<1> QED
  BY <1>2, StepsKept DEF FreeTell

LEMMA FreeHandleKept ==
    ASSUME Sound(obj, win, stack), FreeHandle
    PROVE  Kept
<1> DEFINE R == IF w \in Held(Return) THEN win ELSE [win EXCEPT ![w] = NoWindow]
           T == TreeIn(obj, stack)
           O3 == Released(FREEHWND(w), Return)
<1>1. stack # <<>> /\ Top.fn = "FreeWindow" /\ Top.at = "free"
  BY DEF FreeHandle, At
<1>2. Continue(FREEHWND(w), Return) /\ win' = R
  BY DEF FreeHandle
<1>3. stack' = Return /\ obj' = O3
  BY <1>2, ContinueIs
<1>4. /\ Sound(O3, R, Return) /\ MarkedHeld(O3, Return) /\ TreeIn(O3, Return) = T
      /\ \A C : Has(C, win, T) => Has(C, R, T)
  BY <1>1, HandleFreed
<1> HIDE DEF R, O3, T
<1>5. Quiet(win, T, R, TreeIn(O3, Return))
  BY <1>4 DEF Quiet
<1> QED
  BY <1>2, <1>3, <1>4, <1>5 DEF Kept, Change, T

----------------------------------------------------------------------------
(* The windows owned *)

\* DestroyWindow stands for an owned window on what it stands on for the owner.
LEMMA ApartOwned ==
    ASSUME NEW O, NEW W, NEW e, NEW g, Apart(O, W, e, g), e.fn = "DestroyWindow",
           NEW f, f.fn = "DestroyWindow",
           FamilyIn(O, W, f.hWnd) \subseteq FamilyIn(O, W, e.hWnd), e.hWnd \notin FamilyIn(O, W, f.hWnd)
    PROVE  Apart(O, W, f, g)
BY DEF Apart

\* A window that the one on top owns is in the tree, and nothing is at work on it.
IsOwned(h) ==
    /\ h \in TreeIn(obj, stack) /\ ParentIn(win, h) = Root
    /\ Safe(obj, win, TreeIn(obj, stack), h)
    /\ FamilyIn(obj, win, h) \subseteq FamilyIn(obj, win, w) /\ w \notin FamilyIn(obj, win, h)

LEMMA OwnedIs ==
    ASSUME Sound(obj, win, stack), MarkedHeld(obj, stack), stack # <<>>, Top.fn = "DestroyWindow",
           NEW h, IsWindow(h), win[h].hWndOwner = w
    PROVE  IsOwned(h)
<1> DEFINE T == TreeIn(obj, stack)
           L == OverIn(obj, win)
<1>1. /\ Good(obj, win, T, Top) /\ w = Top.hWnd /\ stack[Len(stack)] = Top
      /\ Len(stack) \in DOMAIN stack /\ stack \in Seq(FrameRec)
  BY Stacked
<1>2. w \in T /\ w \in Win
  BY AtPlace, TreeKnown DEF IsEntering
<1>3. obj \in Objs /\ win \in Wins /\ Kinds(obj, win) /\ NoCycle(L)
  BY DEF Sound, Tree
<1>4. h \in Win /\ IsWin(obj, h) /\ obj[h] \in Alive
  <2>1. h # Root
    BY <1>2, <1>3, Handles DEF Kinds
  <2>2. IsWin(obj, h)
    BY StateIs
  <2> QED
    BY <2>1, <2>2 DEF IsWin
<1>5. win[h].kind = "popup" /\ L[h] = w
  <2>1. win[h].hWndOwner # Null
    BY <1>2, Handles
  <2>2. win[h].kind = "popup"
    BY <1>3, <1>4, <2>1 DEF Kinds
  <2> QED
    BY <1>4, <2>2, Handles DEF OverIn
<1>6. L \in Links /\ EndsOut(L)
  BY <1>3, OverEnds
<1>7. h \in Under(L, w) /\ w \notin Under(L, h) /\ h # w
  <2>1. w \in Under(L, w) /\ h \in Under(L, h)
    BY <1>2, <1>4, <1>6, UnderSelf
  <2>2. h \in Under(L, w)
    BY <1>2, <1>4, <1>5, <1>6, <2>1, UnderClosed
  <2>3. w \notin Under(L, h)
    BY <1>3, <1>4, <1>5 DEF NoCycle
  <2> QED
    BY <2>1, <2>2, <2>3
<1>8. ASSUME NEW k \in DOMAIN stack, k # Len(stack), stack[k].hWnd = h
      PROVE  ~Busy(stack[k]) /\ stack[k].fn # "Proc"
  <2>1. Apart(obj, win, Top, stack[k])
    <3>1. \A i \in DOMAIN stack : \A j \in 1 .. i - 1 : Apart(obj, win, stack[i], stack[j])
      BY DEF Sound, Fits
    <3>2. k \in 1 .. Len(stack) - 1
      BY <1>1, <1>8
    <3> QED
      BY <1>1, <3>1, <3>2
  <2>2. h \in FamilyIn(obj, win, Top.hWnd)
    BY <1>1, <1>7 DEF FamilyIn
  <2> QED
    BY <1>1, <1>5, <1>7, <1>8, <2>1, <2>2 DEF Apart
<1>9. h \in T
  <2>1. h \notin FreedIn(stack)
    BY <1>1, <1>8 DEF FreedIn, Busy
  <2>2. h \notin EnteringIn(stack)
    BY <1>1, <1>8 DEF EnteringIn, IsEntering, Busy
  <2>3. obj[h] # "marked"
    <3> SUFFICES ASSUME obj[h] = "marked" PROVE FALSE
      OBVIOUS
    <3>1. h \in HeldIn(stack)
      BY <1>4 DEF MarkedHeld
    <3>2. PICK k \in DOMAIN stack : Holds(stack[k]) /\ stack[k].hWnd = h
      BY <3>1 DEF HeldIn
    <3>3. k # Len(stack)
      BY <1>1, <1>7, <3>2
    <3> QED
      BY <1>8, <3>2, <3>3 DEF Holds, Busy
  <2> QED
    BY <1>4, <2>1, <2>2, <2>3 DEF TreeIn, KnownIn, Alive
<1>10. ParentIn(win, h) = Root
  BY <1>5 DEF ParentIn
<1>11. Safe(obj, win, T, h)
  <2> SUFFICES ASSUME NEW a \in Win, h \in Under(L, a) PROVE Firm(obj, T, a)
    BY DEF Safe, FamilyIn
  <2>1. CASE a = h
    BY <1>9, <2>1 DEF Firm
  <2>2. CASE a # h
    <3>1. w \in Under(L, a)
      BY <1>5, <1>6, <2>2, UnderNext
    <3> QED
      BY <1>1, <3>1 DEF Good, GoodEnd, FamilyIn
  <2> QED
    BY <2>1, <2>2
<1>12. Under(L, h) \subseteq Under(L, w)
  BY <1>2, <1>6, <1>7, UnderTransitive
<1> QED
  BY <1>7, <1>9, <1>10, <1>11, <1>12 DEF IsOwned, FamilyIn

LEMMA MovedTop ==
    ASSUME NEW W, Sound(obj, W, stack), stack # <<>>, NEW at \in Stages \cup Messages, NEW next \in HWND
    PROVE  IsMoved(Moved(at, next), Top, at, next)
<1>1. Top \in FrameRec
  BY Stacked
<1> QED
  BY <1>1, MovedIs DEF Moved

\* DestroyWindow goes on, and is called for a window that is owned.
LEMMA OwnedPush ==
    ASSUME Sound(obj, win, stack), stack # <<>>, Top.fn = "DestroyWindow", NEW h, IsOwned(h),
           NEW next \in HWND
    PROVE  Calm(win, stack, Then("owned", next, DestroyCall(h)))
<1> DEFINE S == On("owned", next)
<1>1. GoingOn("owned")
  BY DEF GoingOn, Stages
<1>2. stack \in Seq(FrameRec) /\ w = Top.hWnd /\ stack[Len(stack)] = Top /\ Len(stack) \in DOMAIN stack
      /\ Front(stack) \in Seq(FrameRec) /\ Top \in FrameRec
  BY Stacked
<1>3. IsMoved(Moved("owned", next), Top, "owned", next)
  <2>1. "owned" \in Stages \cup Messages
    BY DEF Stages
  <2> QED
    BY <2>1, MovedTop
<1>4. S = Append(Front(stack), Moved("owned", next))
  <2>1. Moved("owned", next) \in FrameRec
    BY <1>3 DEF IsMoved
  <2> QED
    BY <1>2, <2>1, Joined DEF On
<1>5. ASSUME NEW k \in DOMAIN S, NEW f, f.fn = "DestroyWindow", f.hWnd = h
      PROVE  Apart(obj, win, f, S[k])
  <2>1. /\ FamilyIn(obj, win, f.hWnd) \subseteq FamilyIn(obj, win, Top.hWnd)
        /\ Top.hWnd \notin FamilyIn(obj, win, f.hWnd)
    BY <1>2, <1>5 DEF IsOwned
  <2>2. CASE k \in DOMAIN Front(stack)
    <3>1. S[k] = Front(stack)[k]
      BY <1>2, <1>3, <1>4, <2>2, Appended DEF IsMoved
    <3>2. Apart(obj, win, Top, Front(stack)[k])
      BY <2>2, BelowTop DEF Sound
    <3> QED
      BY <1>5, <2>1, <3>1, <3>2, ApartOwned
  <2>3. CASE k \notin DOMAIN Front(stack)
    <3>1. S[k] = Moved("owned", next)
      BY <1>2, <1>3, <1>4, <1>5, <2>3, Appended DEF IsMoved
    <3>2. S[k].fn = "DestroyWindow" /\ S[k].hWnd = Top.hWnd
      BY <1>3, <3>1 DEF IsMoved
    <3> QED
      BY <1>5, <2>1, <3>2 DEF Apart
  <2> QED
    BY <2>2, <2>3
<1>6. Sound(obj, win, S) /\ TreeIn(obj, S) = TreeIn(obj, stack) => Calm(win, S, S \o DestroyCall(h))
  <2> SUFFICES ASSUME Sound(obj, win, S), TreeIn(obj, S) = TreeIn(obj, stack)
               PROVE  Calm(win, S, S \o DestroyCall(h))
    OBVIOUS
  <2>1. /\ h \in TreeIn(obj, S) /\ ParentIn(win, h) \in {Root} \cup TreeIn(obj, S)
        /\ Safe(obj, win, TreeIn(obj, S), h)
    BY DEF IsOwned
  <2> HIDE DEF S
  <2> QED
    BY <1>5, <2>1, DestroyPush
<1> QED
  BY <1>1, <1>6, ThenCalm

\* The walk over the owned windows: the next one noted is in the tree, or has gone.
LEMMA VisitKept ==
    ASSUME Sound(obj, win, stack), MarkedHeld(obj, stack), stack # <<>>, Top.fn = "DestroyWindow",
           NEW h \in HWND, h = Null \/ IsWindow(h), Visit(h)
    PROVE  Kept /\ crashed' = crashed
<1>1. GoingOn("owned") /\ GoingOn("focus")
  BY DEF GoingOn, Stages
<1>2. CASE h = Null
  <2>1. Steps(Then("focus", Null, <<>>))
    BY <1>2 DEF Visit
  <2>2. Calm(win, stack, Then("focus", Null, <<>>))
    BY <1>1, ThenNothing, Handles
  <2> QED
    BY <2>1, <2>2, StepsKept DEF Steps
<1>3. CASE h # Null
  <2> DEFINE next == win[h].hWndSibling
             s == Then("owned", next, IF win[h].hWndOwner = w THEN DestroyCall(h) ELSE <<>>)
  <2>1. Steps(s)
    BY <1>3 DEF Visit
  <2>2. next \in HWND
    <3>1. h \in Window /\ win \in Wins
      BY <1>3 DEF IsWindow, Window, Sound, Tree
    <3> QED
      BY <3>1, HandleIs
  <2> HIDE DEF next
  <2>3. CASE win[h].hWndOwner = w
    <3>1. IsOwned(h)
      BY <1>3, <2>3, OwnedIs
    <3>2. Calm(win, stack, Then("owned", next, DestroyCall(h)))
      BY <2>2, <3>1, OwnedPush
    <3> QED
      BY <2>1, <2>3, <3>2, StepsKept DEF Steps
  <2>4. CASE win[h].hWndOwner # w
    <3>1. Calm(win, stack, Then("owned", next, <<>>))
      BY <1>1, <2>2, ThenNothing
    <3> QED
      BY <2>1, <2>4, <3>1, StepsKept DEF Steps
  <2> QED
    BY <2>3, <2>4
<1> QED
  BY <1>2, <1>3

LEMMA FirstIs ==
    ASSUME Sound(obj, win, stack)
    PROVE  LET h == win[Root].hWndChild IN h \in HWND /\ (h = Null \/ IsWindow(h))
<1> DEFINE T == TreeIn(obj, stack)
           h == win[Root].hWndChild
<1>1. PICK C : Lists(C, win, {Root} \cup T, T)
  BY DEF Sound, Tree
<1>2. Chain(C[Root], win, h) /\ Elements(C[Root]) = Members(win, T, Root)
  BY <1>1 DEF Lists
<1>3. h = Null \/ h \in Elements(C[Root])
  <2>1. C[Root] \in Seq(Win) /\ h = IF C[Root] = <<>> THEN Null ELSE C[Root][1]
    BY <1>2 DEF Chain
  <2> QED
    BY <2>1 DEF Elements
<1>4. h = Null \/ h \in T
  BY <1>2, <1>3 DEF Members
<1> QED
  BY <1>4, TreeKnown, Handles, StateIs

LEMMA DestroyOwnedKept ==
    ASSUME Sound(obj, win, stack), MarkedHeld(obj, stack), DestroyOwned
    PROVE  Kept /\ crashed' = crashed
<1>1. stack # <<>> /\ Top.fn = "DestroyWindow"
  BY DEF DestroyOwned, At
<1>2. LET h == win[Root].hWndChild IN h \in HWND /\ (h = Null \/ IsWindow(h))
  BY FirstIs
<1>3. Top.next \in HWND
  BY <1>1, Stacked
<1>4. \E h \in HWND : (h = Null \/ IsWindow(h)) /\ Visit(h)
  <2>1. CASE Visit(win[Root].hWndChild)
    BY <1>2, <2>1
  <2>2. CASE Visit(IF Top.next # Null /\ ~IsWindow(Top.next) THEN win[Root].hWndChild ELSE Top.next)
    <3>1. CASE Top.next # Null /\ ~IsWindow(Top.next)
      BY <1>2, <2>2, <3>1
    <3>2. CASE ~(Top.next # Null /\ ~IsWindow(Top.next))
      BY <1>3, <2>2, <3>2
    <3> QED
      BY <3>1, <3>2
  <2> QED
    BY <2>1, <2>2 DEF DestroyOwned
<1> QED
  BY <1>1, <1>4, VisitKept

----------------------------------------------------------------------------
(* A window procedure returns *)

\* What WM_CREATE refuses is past WM_NCCREATE.
Refused(S) == [S EXCEPT ![Len(S)].refused = TRUE]

LEMMA RefusedIs ==
    ASSUME NEW S \in Seq(FrameRec)
    PROVE  /\ S = <<>> => Refused(S) = S
           /\ S # <<>> => Refused(S) = Append(Front(S), [Last(S) EXCEPT !.refused = TRUE])
<1>1. CASE S = <<>>
  BY <1>1 DEF Refused
<1>2. CASE S # <<>>
  <2> DEFINE g == [Last(S) EXCEPT !.refused = TRUE]
  <2>1. Len(S) \in Nat \ {0} /\ Last(S) = S[Len(S)] /\ Front(S) \in Seq(FrameRec) /\ Last(S) \in FrameRec
        /\ Len(Front(S)) = Len(S) - 1 /\ \A i \in DOMAIN Front(S) : Front(S)[i] = S[i]
        /\ DOMAIN Front(S) = 1 .. Len(S) - 1
    BY <1>2, FrontOf
  <2>2. g \in FrameRec
    BY <2>1 DEF FrameRec
  <2> DEFINE n == Len(S)
  <2>3. Refused(S) = [i \in DOMAIN S |-> IF i = n THEN [S[n] EXCEPT !.refused = TRUE] ELSE S[i]]
    BY DEF Refused
  <2> HIDE DEF g
  <2>4. \A i \in 1 .. Len(S) : Append(Front(S), g)[i] = IF i = Len(S) THEN g ELSE S[i]
    BY <2>1, <2>2
  <2>5. Append(Front(S), g) \in Seq(FrameRec) /\ Len(Append(Front(S), g)) = Len(S)
    BY <2>1, <2>2
  <2> DEFINE A == Append(Front(S), g)
  <2>6. A = [i \in DOMAIN S |-> IF i = n THEN g ELSE S[i]]
    <3>1. A \in Seq(FrameRec) /\ DOMAIN A = DOMAIN S /\ \A i \in DOMAIN S : A[i] = IF i = n THEN g ELSE S[i]
      BY <2>4, <2>5
    <3> HIDE DEF A, n
    <3>2. A = [i \in DOMAIN A |-> A[i]]
      BY <3>1
    <3> QED
      BY <3>1, <3>2
  <2> QED
    BY <1>2, <2>1, <2>3, <2>6 DEF g
<1> QED
  BY <1>1, <1>2

LEMMA GoodRefused ==
    ASSUME NEW O, NEW W, NEW T, NEW f \in FrameRec, Good(O, W, T, f),
           ~(f.fn = "CreateWindowEx" /\ f.at \in {"insert", "nccreate"})
    PROVE  LET g == [f EXCEPT !.refused = TRUE] IN
           g \in FrameRec /\ g.fn = f.fn /\ g.at = f.at /\ g.hWnd = f.hWnd /\ Good(O, W, T, g)
<1> DEFINE g == [f EXCEPT !.refused = TRUE]
<1>1. g \in FrameRec /\ g.fn = f.fn /\ g.at = f.at /\ g.hWnd = f.hWnd /\ g.next = f.next
  BY DEF FrameRec
<1> HIDE DEF g
<1>2. GoodCreate(O, W, T, g)
  BY <1>1 DEF GoodCreate, Good, IsEntering
<1>3. GoodPlace(O, W, T, g)
  BY <1>1 DEF GoodPlace, Good, IsEntering
<1>4. GoodEnd(O, W, T, g)
  BY <1>1 DEF GoodEnd, Good
<1>5. Good(O, W, T, g)
  BY <1>1, <1>2, <1>3, <1>4 DEF Good
<1> QED
  BY <1>1, <1>5 DEF g

\* A window procedure returns.
LEMMA ProcReturnKept ==
    ASSUME "WM_NCCREATE" \notin Refusable, Sound(obj, win, stack), ProcReturn
    PROVE  Kept
<1>1. stack # <<>> /\ Top.fn = "Proc" /\ Returning /\ win' = win
  BY DEF ProcReturn, Returning, IsEntering
<1>2. Calm(win, stack, Return) /\ Return \in Seq(FrameRec)
  BY <1>1, Returned, Stacked DEF Return
<1>3. \/ Continue(obj, Return)
      \/ Top.at = "WM_CREATE" /\ Continue(obj, Refused(Return))
  BY HabitAssumption DEF ProcReturn, Refused
<1>4. CASE Continue(obj, Return)
  BY <1>1, <1>2, <1>4, CalmKept
<1>5. CASE Top.at = "WM_CREATE" /\ Continue(obj, Refused(Return))
  <2>1. CASE Return = <<>>
    BY <1>1, <1>2, <1>5, <2>1, RefusedIs, CalmKept
  <2>2. CASE Return # <<>>
    <3> DEFINE f == Last(Return)
               g == [f EXCEPT !.refused = TRUE]
    <3>1. f \in FrameRec /\ f = Return[Len(Return)]
      BY <1>2, <2>2, FrontOf
    <3>2. Sound(obj, win, Return)
      BY <1>2 DEF Calm
    <3>3. Good(obj, win, TreeIn(obj, Return), f)
      BY <1>2, <2>2, <3>1, <3>2 DEF Sound, Fits
    <3>4. ~(f.fn = "CreateWindowEx" /\ f.at \in {"insert", "nccreate"})
      <4>1. /\ stack \in Seq(FrameRec) /\ Len(stack) \in DOMAIN stack /\ stack[Len(stack)] = Top
        BY <1>1, Stacked
      <4>2. Len(Front(stack)) = Len(stack) - 1 /\ \A i \in DOMAIN Front(stack) : Front(stack)[i] = stack[i]
        BY <1>1, <4>1, FrontOf
      <4>3. Len(stack) > 1 /\ Return[Len(Return)] = stack[Len(stack) - 1]
        BY <1>2, <2>2, <4>1, <4>2 DEF Return
      <4>4. Sits(Top, stack[Len(stack) - 1])
        BY <4>1, <4>3 DEF Sound, Fits
      <4> QED
        BY <1>1, <1>5, <3>1, <4>3, <4>4 DEF Sits
    <3>5. g \in FrameRec /\ g.fn = f.fn /\ g.at = f.at /\ g.hWnd = f.hWnd /\ Good(obj, win, TreeIn(obj, Return), g)
      BY <3>1, <3>3, <3>4, GoodRefused
    <3> HIDE DEF g
    <3>6. Sound(obj, win, Append(Front(Return), g)) /\ TreeIn(obj, Append(Front(Return), g)) = TreeIn(obj, Return)
      BY <2>2, <3>2, <3>4, <3>5, SoundAdvance DEF IsEntering
    <3>7. Refused(Return) = Append(Front(Return), g)
      BY <1>2, <2>2, RefusedIs DEF g
    <3>8. Calm(win, stack, Refused(Return))
      BY <1>2, <3>6, <3>7 DEF Calm
    <3> QED
      BY <1>1, <1>5, <3>8, CalmKept
  <2> QED
    BY <2>1, <2>2
<1> QED
  BY <1>3, <1>4, <1>5

----------------------------------------------------------------------------
(* The inductive invariant *)

Typed ==
    /\ hCurrentActiveWindow \in HWND /\ hCurrentFocusWindow \in HWND
    /\ told \in [Win -> Nat] /\ nctold \in [Win -> Nat]

\* SetActiveWindow is past the place where it sends a child window back.
IsRaised(f) == f.fn = "SetActiveWindow" /\ f.at \in {"order", "swap"}
RaisedIn(S) == {S[i].hWnd : i \in {j \in DOMAIN S : IsRaised(S[j])}}

\* No child window is active, or about to be.
TopInv == \A h \in {hCurrentActiveWindow} \cup RaisedIn(stack) : IsTop(obj, win, h)

WindowsInv ==
    /\ crashed = FALSE
    /\ Sound(obj, win, stack) /\ MarkedHeld(obj, stack)
    /\ Typed /\ TopInv

\* The hypotheses: what a polite program that lets WM_NCCREATE pass is.
Decent == Polite /\ "WM_NCCREATE" \notin Refusable

\* At first nothing is there.
LEMMA InitSound ==
    ASSUME Init
    PROVE  WindowsInv
<1> DEFINE C == [p \in {Root} |-> <<>>]
           L == OverIn(obj, win)
<1> USE DEF Init
<1>1. TreeIn(obj, stack) = {} /\ FreedIn(stack) = {} /\ KnownIn(obj) = {}
  BY DEF TreeIn, KnownIn, FreedIn
<1>2. obj \in Objs
  BY DEF Objs
<1>3. win \in Wins
  <2>1. NoWindow \in WinRec
    BY Handles DEF NoWindow, WinRec
  <2> QED
    BY <2>1 DEF Wins, Window
<1>4. Lists(C, win, {Root}, {})
  <2>1. C \in [{Root} -> Seq(Win)]
    OBVIOUS
  <2>2. Chain(<<>>, win, win[Root].hWndChild)
    BY DEF Chain, NoWindow, IsInjective
  <2>3. Elements(<<>>) = {} /\ Members(win, {}, Root) = {}
    BY DEF Elements, Members
  <2> QED
    BY <2>1, <2>2, <2>3 DEF Lists
<1>5. Groups(win, {Root}, {})
  BY DEF Groups, Members, Rings, NoWindow
<1>6. \A x \in Win : obj[x] \notin Alive
  BY DEF Alive
<1>7. Kinds(obj, win)
  BY <1>6 DEF Kinds, NoWindow
<1>8. NoCycle(L)
  <2>1. L \in Links /\ EndsOut(L)
    BY <1>2, <1>3, OverEnds
  <2>2. \A x \in Win : L[x] = Null
    BY <1>6, Handles DEF OverIn, IsWin
  <2>3. \A x \in Win : Under(L, x) \subseteq Win
    BY DEF Under
  <2> QED
    BY <2>2, <2>3, Handles DEF NoCycle
<1>9. Fits(obj, win, {}, stack)
  BY DEF Fits
<1>10. Sound(obj, win, stack)
  BY <1>1, <1>2, <1>3, <1>4, <1>5, <1>7, <1>8, <1>9 DEF Sound, Tree
<1>11. MarkedHeld(obj, stack)
  BY DEF MarkedHeld
<1>12. Typed
  BY Handles DEF Typed
<1>13. TopInv
  BY Handles DEF TopInv, RaisedIn, IsTop
<1> QED
  BY <1>10, <1>11, <1>12, <1>13 DEF WindowsInv

\* A step of the program keeps the tree sound.
LEMMA ProgramKept ==
    ASSUME Decent, WindowsInv, Program
    PROVE  Kept /\ crashed' = crashed
<1> USE DEF Decent, WindowsInv
<1>1. CASE \E kind \in {"overlapped", "popup", "child"}, p \in {Null} \cup Win, g \in BOOLEAN :
              CreateWindowEx(kind, p, g)
  <2>1. PICK kind \in {"overlapped", "popup", "child"}, p \in {Null} \cup Win, g \in BOOLEAN :
            CreateWindowEx(kind, p, g)
    BY <1>1
  <2>2. Kept
    BY <2>1, CreateKept
  <2> QED
    BY <2>1, <2>2 DEF CreateWindowEx
<1>2. CASE \E h \in Win : DestroyWindow(h)
  BY <1>2, DestroyKept DEF DestroyWindow, Steps
<1>3. CASE \E h \in {Null} \cup Win : SetFocus(h)
  BY <1>3, FocusKept DEF SetFocus, Steps
<1>4. CASE \E h \in Win, p \in {Null} \cup Win : SetParent(h, p)
  BY <1>4, ParentKept
<1>5. CASE \E h \in Win, after \in HWND : SetWindowPos(h, after)
  BY <1>5, PlaceKept DEF SetWindowPos, Steps
<1> QED
  BY <1>1, <1>2, <1>3, <1>4, <1>5 DEF Program

\* So does a step of a call under way.
LEMMA RunKept ==
    ASSUME Decent, WindowsInv, Run
    PROVE  Kept
<1> USE DEF Decent, WindowsInv, Typed
<1>1. CASE ActivateChild
  BY <1>1, ActivateChildKept
<1>2. CASE ActivateRaise
  BY <1>2, ActivateRaiseKept
<1>3. CASE ActivateOrder
  BY <1>3, ActivateOrderKept
<1>4. CASE ActivateSwap
  BY <1>4, ActivateSwapKept
<1>5. CASE ActivateTell
  BY <1>5, ActivateTellKept DEF TopInv
<1>6. CASE SetWindowPosOrder
  BY <1>6, SetWindowPosOrderKept
<1>7. CASE FocusTake
  BY <1>7, FocusTakeKept
<1>8. CASE FocusTell
  BY <1>8, FocusTellKept
<1>9. CASE CreateInsert
  BY <1>9, CreateInsertKept
<1>10. CASE CreateTell
  BY <1>10, CreateTellKept
<1>11. CASE CreateNotify
  BY <1>11, CreateNotifyKept
<1>12. CASE CreateShow
  BY <1>12, CreateShowKept
<1>13. CASE CreateSize
  BY <1>13, CreateSizeKept
<1>14. CASE CreateReturn
  BY <1>14, CreateReturnKept
<1>15. CASE DestroyNotify
  BY <1>15, DestroyNotifyKept
<1>16. CASE DestroyHide
  BY <1>16, DestroyHideKept
<1>17. CASE DestroyHidden
  BY <1>17, DestroyHiddenKept
<1>18. CASE DestroyOwned
  BY <1>18, DestroyOwnedKept
<1>19. CASE DestroyFocus
  BY <1>19, DestroyFocusKept
<1>20. CASE DestroyTell
  BY <1>20, DestroyTellKept
<1>21. CASE DestroyUnlink
  BY <1>21, DestroyUnlinkKept
<1>22. CASE TellChildren
  BY <1>22, TellChildrenKept
<1>23. CASE FreeChildren
  BY <1>23, FreeChildrenKept
<1>24. CASE FreeActive
  BY <1>24, FreeActiveIsKept
<1>25. CASE FreeFocus
  BY <1>25, FreeFocusKept
<1>26. CASE FreeTell
  BY <1>26, FreeTellKept
<1>27. CASE FreeHandle
  BY <1>27, FreeHandleKept
<1>28. CASE ProcReturn
  BY <1>28, ProcReturnKept
<1> QED
  BY <1>1, <1>2, <1>3, <1>4, <1>5, <1>6, <1>7, <1>8, <1>9, <1>10, <1>11, <1>12, <1>13, <1>14,
     <1>15, <1>16, <1>17, <1>18, <1>19, <1>20, <1>21, <1>22, <1>23, <1>24, <1>25, <1>26, <1>27,
     <1>28 DEF Run

\* Only four steps come where a null pointer may be followed, and they do not follow it.
LEMMA RunStays ==
    ASSUME Decent, WindowsInv, Run
    PROVE  crashed' = crashed
<1> USE DEF Decent, WindowsInv, Steps
<1>1. CASE ActivateChild \/ ActivateRaise \/ ActivateSwap \/ ActivateTell
  BY <1>1 DEF ActivateChild, ActivateRaise, ActivateSwap, ActivateTell
<1>2. CASE ActivateOrder
  BY <1>2, ActivateOrderKept
<1>3. CASE SetWindowPosOrder
  BY <1>3, SetWindowPosOrderKept
<1>4. CASE FocusTake \/ FocusTell
  BY <1>4 DEF FocusTake, FocusTell
<1>5. CASE CreateInsert
  BY <1>5, CreateInsertKept
<1>6. CASE CreateTell \/ CreateNotify \/ CreateShow \/ CreateSize \/ CreateReturn
  BY <1>6 DEF CreateTell, CreateNotify, CreateShow, CreateSize, CreateReturn
<1>7. CASE DestroyNotify \/ DestroyHide \/ DestroyHidden \/ DestroyFocus \/ DestroyTell
  BY <1>7 DEF DestroyNotify, DestroyHide, DestroyHidden, DestroyFocus, DestroyTell
<1>8. CASE DestroyOwned
  BY <1>8, DestroyOwnedKept
<1>9. CASE DestroyUnlink
  BY <1>9, DestroyUnlinkKept
<1>10. CASE TellChildren \/ FreeChildren \/ FreeActive \/ FreeFocus \/ FreeTell
  BY <1>10 DEF TellChildren, TellNext, FreeChildren, FreeActive, FreeFocus, FreeTell
<1>11. CASE FreeHandle \/ ProcReturn
  BY <1>11 DEF FreeHandle, ProcReturn
<1> QED
  BY <1>1, <1>2, <1>3, <1>4, <1>5, <1>6, <1>7, <1>8, <1>9, <1>10, <1>11 DEF Run

\* Which steps change the active window, the focus and the counts.
LEMMA TypedKept ==
    ASSUME WindowsInv, Next
    PROVE  Typed'
<1> USE DEF WindowsInv, Typed
<1>1. ASSUME UNCHANGED <<hCurrentActiveWindow, hCurrentFocusWindow, counts>> PROVE Typed'
  BY <1>1 DEF counts
<1>2. w \in HWND \/ stack = <<>>
  BY Stacked
<1>3. CASE Program
  <2>1. UNCHANGED <<hCurrentActiveWindow, hCurrentFocusWindow, counts>>
    BY <1>3 DEF Program, CreateWindowEx, DestroyWindow, SetFocus, SetParent, SetWindowPos, Steps, Crash
  <2> QED
    BY <1>1, <2>1
<1>4. CASE ActivateChild \/ ActivateRaise \/ ActivateOrder \/ ActivateTell \/ SetWindowPosOrder
  BY <1>1, <1>4 DEF ActivateChild, ActivateRaise, ActivateOrder, ActivateTell, SetWindowPosOrder, Steps, Crash
<1>5. CASE ActivateSwap
  BY <1>2, <1>5 DEF ActivateSwap, At, counts
<1>6. CASE FocusTake
  <2>1. w \in HWND
    BY <1>2, <1>6 DEF FocusTake, At
  <2>2. hCurrentFocusWindow' = w \/ Steps(Return)
    BY <1>6 DEF FocusTake
  <2>3. hCurrentFocusWindow' = w => UNCHANGED <<hCurrentActiveWindow, counts>>
    BY <1>6 DEF FocusTake, Steps
  <2> QED
    BY <1>1, <2>1, <2>2, <2>3 DEF Steps, counts
<1>7. CASE FocusTell
  BY <1>7, Handles DEF FocusTell, counts
<1>8. CASE CreateInsert \/ CreateTell \/ CreateNotify \/ CreateShow \/ CreateSize \/ CreateReturn
  <2>1. CASE CreateInsert \/ CreateTell \/ CreateShow
    BY <1>1, <2>1 DEF CreateInsert, CreateTell, CreateShow, Crash
  <2>2. CASE CreateNotify \/ CreateSize \/ CreateReturn
    BY <1>1, <2>2 DEF CreateNotify, CreateSize, CreateReturn, Steps
  <2> QED
    BY <1>8, <2>1, <2>2
<1>9. CASE DestroyNotify \/ DestroyHide \/ DestroyHidden \/ DestroyOwned \/ DestroyFocus \/ DestroyTell
           \/ DestroyUnlink
  BY <1>1, <1>9 DEF DestroyNotify, DestroyHide, DestroyHidden, DestroyOwned, Visit, DestroyFocus, DestroyTell,
                    DestroyUnlink, Steps, Crash
<1>10. CASE TellChildren \/ FreeChildren \/ FreeFocus \/ FreeTell \/ FreeHandle
  BY <1>1, <1>10 DEF TellChildren, TellNext, FreeChildren, FreeFocus, FreeTell, FreeHandle, Steps
<1>11. CASE FreeActive
  BY <1>11, Handles DEF FreeActive, counts
<1>12. CASE ProcReturn
  <2>1. \A n \in [Win -> Nat] : \A h, m : [n EXCEPT ![h] = IF Top.at = m THEN @ + 1 ELSE @] \in [Win -> Nat]
    <3> SUFFICES ASSUME NEW n \in [Win -> Nat], NEW h, NEW m
                 PROVE  [n EXCEPT ![h] = IF Top.at = m THEN n[h] + 1 ELSE n[h]] \in [Win -> Nat]
      OBVIOUS
    <3> DEFINE v == IF Top.at = m THEN n[h] + 1 ELSE n[h]
    <3>1. h \in Win => v \in Nat
      OBVIOUS
    <3> HIDE DEF v
    <3>2. [n EXCEPT ![h] = v] \in [Win -> Nat]
      BY <3>1
    <3> QED
      BY <3>2 DEF v
  <2>2. /\ told' = [told EXCEPT ![w] = IF Top.at = "WM_DESTROY" THEN @ + 1 ELSE @]
        /\ nctold' = [nctold EXCEPT ![w] = IF Top.at = "WM_NCDESTROY" THEN @ + 1 ELSE @]
        /\ UNCHANGED <<hCurrentActiveWindow, hCurrentFocusWindow>>
    BY <1>12 DEF ProcReturn
  <2> QED
    BY <2>1, <2>2
<1> QED
  BY <1>3, <1>4, <1>5, <1>6, <1>7, <1>8, <1>9, <1>10, <1>11, <1>12 DEF Next, Run

----------------------------------------------------------------------------
(* The active window *)

\* Calls that are none of these.
Plain(c) == (\E B : c \in Seq(B)) /\ \A i \in DOMAIN c : ~IsRaised(c[i])

\* Calls made together.
LEMMA PlainJoined ==
    ASSUME NEW c, NEW d, Plain(c), Plain(d)
    PROVE  Plain(c \o d)
<1>1. PICK A : c \in Seq(A)
  BY DEF Plain
<1>2. PICK B : d \in Seq(B)
  BY DEF Plain
<1>3. \A i \in DOMAIN c : ~IsRaised(c[i])
  BY DEF Plain
<1>4. \A i \in DOMAIN d : ~IsRaised(d[i])
  BY DEF Plain
<1>5. c \in Seq(A \cup B) /\ d \in Seq(A \cup B)
  BY <1>1, <1>2
<1>6. /\ c \o d \in Seq(A \cup B)
      /\ \A i \in DOMAIN (c \o d) : \/ i \in DOMAIN c /\ (c \o d)[i] = c[i]
                                    \/ \E j \in DOMAIN d : (c \o d)[i] = d[j]
  <2>1. c \o d \in Seq(A \cup B) /\ Len(c \o d) = Len(c) + Len(d) /\ Len(c) \in Nat /\ Len(d) \in Nat
    BY <1>5
  <2>2. \A i \in 1 .. Len(c) + Len(d) : (c \o d)[i] = IF i <= Len(c) THEN c[i] ELSE d[i - Len(c)]
    BY <1>5
  <2>3. DOMAIN c = 1 .. Len(c) /\ DOMAIN d = 1 .. Len(d) /\ DOMAIN (c \o d) = 1 .. Len(c) + Len(d)
    BY <1>5, <2>1
  <2>4. ASSUME NEW i \in 1 .. Len(c) + Len(d)
        PROVE  i \in 1 .. Len(c) \/ (i - Len(c) \in 1 .. Len(d) /\ ~(i <= Len(c)))
    BY <2>1
  <2>5. \A i \in 1 .. Len(c) : i <= Len(c) /\ i \in 1 .. Len(c) + Len(d)
    BY <2>1
  <2> QED
    BY <2>1, <2>2, <2>3, <2>4, <2>5
<1> QED
  BY <1>3, <1>4, <1>6 DEF Plain

LEMMA PlainOne ==
    /\ Plain(<<>>)
    /\ \A f : ~IsRaised(f) => Plain(<<f>>)
<1>1. Plain(<<>>)
  <2>1. <<>> \in Seq({}) /\ DOMAIN <<>> = {}
    OBVIOUS
  <2> QED
    BY <2>1 DEF Plain
<1>2. ASSUME NEW f, ~IsRaised(f) PROVE Plain(<<f>>)
  <2>1. <<f>> \in Seq({f}) /\ DOMAIN <<f>> = {1} /\ <<f>>[1] = f
    OBVIOUS
  <2> QED
    BY <1>2, <2>1 DEF Plain
<1> QED
  BY <1>1, <1>2

\* What the library calls are none: SetActiveWindow begins before that.
LEMMA CallsPlain ==
    /\ \A h, m : Plain(Send(h, m))
    /\ \A h : /\ Plain(ActiveCall(h)) /\ Plain(FocusCall(h)) /\ Plain(DestroyCall(h))
              /\ Plain(SendActivate(h))
              /\ Plain(TellCall(h)) /\ Plain(FreeCall(h))
              /\ Plain(<<Frame("SetActiveWindow", "raise", h, Null)>>)
<1>1. \A f, at, h, v : f # "SetActiveWindow" => Plain(<<Frame(f, at, h, v)>>)
  <2>1. \A f, at, h, v : f # "SetActiveWindow" => ~IsRaised(Frame(f, at, h, v))
    BY DEF IsRaised, Frame
  <2> QED
    BY <2>1, PlainOne
<1>2. \A h : Plain(<<Frame("SetActiveWindow", "raise", h, Null)>>)
  <2>1. \A h : ~IsRaised(Frame("SetActiveWindow", "raise", h, Null))
    BY DEF IsRaised, Frame
  <2> QED
    BY <2>1, PlainOne
<1>3. \A h, m : Plain(Send(h, m))
  BY <1>1, PlainOne DEF Send
<1>4. \A h : Plain(ActiveCall(h))
  BY <1>2, PlainOne DEF ActiveCall
<1>5. \A h : Plain(FocusCall(h))
  BY <1>1, <1>4, PlainOne, PlainJoined DEF FocusCall
<1>6. \A h : Plain(DestroyCall(h))
  BY <1>1, PlainOne DEF DestroyCall
<1>7. \A h : Plain(TellCall(h))
  BY <1>1, <1>3, PlainJoined DEF TellCall
<1>8. \A h : Plain(FreeCall(h))
  BY <1>1, PlainOne DEF FreeCall
<1>9. \A h : Plain(SendActivate(h))
  BY <1>3, <1>5 DEF SendActivate
<1> QED
  BY <1>2, <1>3, <1>4, <1>5, <1>6, <1>7, <1>8, <1>9

\* They put no window among the raised ones.
LEMMA RaisedJoined ==
    ASSUME NEW B, NEW S \in Seq(B), NEW c, Plain(c)
    PROVE  RaisedIn(S \o c) \subseteq RaisedIn(S)
<1>1. PICK A : c \in Seq(A)
  BY DEF Plain
<1>2. \A i \in DOMAIN c : ~IsRaised(c[i])
  BY DEF Plain
<1>3. S \in Seq(A \cup B) /\ c \in Seq(A \cup B)
  BY <1>1
<1>4. Len(S) \in Nat /\ Len(c) \in Nat /\ DOMAIN S = 1 .. Len(S) /\ DOMAIN c = 1 .. Len(c)
      /\ DOMAIN (S \o c) = 1 .. Len(S) + Len(c)
  <2>1. S \o c \in Seq(A \cup B) /\ Len(S \o c) = Len(S) + Len(c)
    BY <1>3
  <2> QED
    BY <1>3, <2>1
<1>5. \A i \in 1 .. Len(S) + Len(c) : (S \o c)[i] = IF i <= Len(S) THEN S[i] ELSE c[i - Len(S)]
  BY <1>3
<1>6. \A i \in 1 .. Len(S) + Len(c) : i <= Len(S) => i \in 1 .. Len(S)
  BY <1>4
<1>7. \A i \in 1 .. Len(S) + Len(c) : ~(i <= Len(S)) => i - Len(S) \in 1 .. Len(c)
  BY <1>4
<1>8. \A i \in DOMAIN (S \o c) : IsRaised((S \o c)[i]) => i \in DOMAIN S /\ (S \o c)[i] = S[i]
  BY <1>2, <1>4, <1>5, <1>6, <1>7
<1> QED
  BY <1>8 DEF RaisedIn

LEMMA RaisedAppended ==
    ASSUME NEW S \in Seq(FrameRec), NEW f \in FrameRec
    PROVE  /\ RaisedIn(Append(S, f)) \subseteq RaisedIn(S) \cup {f.hWnd}
           /\ RaisedIn(S) \subseteq RaisedIn(Append(S, f))
           /\ ~IsRaised(f) => RaisedIn(Append(S, f)) \subseteq RaisedIn(S)
           /\ IsRaised(f) => f.hWnd \in RaisedIn(Append(S, f))
<1> DEFINE R == Append(S, f)
<1>1. /\ Len(S) \in Nat /\ DOMAIN S = 1 .. Len(S) /\ DOMAIN R = 1 .. Len(S) + 1
      /\ \A i \in DOMAIN S : R[i] = S[i]
      /\ R[Len(S) + 1] = f
  BY Appended
<1> HIDE DEF R
<1>2. DOMAIN R = DOMAIN S \cup {Len(S) + 1} /\ Len(S) + 1 \in DOMAIN R
  BY <1>1
<1>3. /\ RaisedIn(R) \subseteq RaisedIn(S) \cup {f.hWnd}
      /\ RaisedIn(S) \subseteq RaisedIn(R)
      /\ ~IsRaised(f) => RaisedIn(R) \subseteq RaisedIn(S)
      /\ IsRaised(f) => f.hWnd \in RaisedIn(R)
  BY <1>1, <1>2 DEF RaisedIn
<1> QED
  BY <1>3 DEF R

\* What the steps below rely on.
Stands == WindowsInv /\ stack # <<>>

LEMMA RaisedTop ==
    ASSUME Stands
    PROVE  /\ Front(stack) \in Seq(FrameRec) /\ Top \in FrameRec
           /\ RaisedIn(Front(stack)) \subseteq RaisedIn(stack)
           /\ IsRaised(Top) => w \in RaisedIn(stack)
<1>1. Sound(obj, win, stack)
  BY DEF Stands, WindowsInv
<1>2. Front(stack) \in Seq(FrameRec) /\ Top \in FrameRec /\ stack = Append(Front(stack), Top) /\ w = Top.hWnd
  BY <1>1, Stacked DEF Stands
<1> QED
  BY <1>2, RaisedAppended

\* The frame on top returns.
LEMMA RaisedReturn ==
    ASSUME Stands, NEW c, Plain(c)
    PROVE  RaisedIn(Return \o c) \subseteq RaisedIn(stack) /\ RaisedIn(Return) \subseteq RaisedIn(stack)
BY RaisedTop, RaisedJoined DEF Return

\* It goes on.
LEMMA RaisedOn ==
    ASSUME Stands, NEW at \in Stages, NEW next \in HWND, NEW c, Plain(c)
    PROVE  /\ RaisedIn(Then(at, next, c)) \subseteq RaisedIn(stack) \cup {w}
           /\ \/ Top.fn # "SetActiveWindow" \/ at \notin {"order", "swap"} \/ IsRaised(Top)
              => RaisedIn(Then(at, next, c)) \subseteq RaisedIn(stack)
<1> DEFINE g == Moved(at, next)
<1>1. /\ Front(stack) \in Seq(FrameRec) /\ Top \in FrameRec
      /\ RaisedIn(Front(stack)) \subseteq RaisedIn(stack)
      /\ IsRaised(Top) => w \in RaisedIn(stack)
  BY RaisedTop
<1>2. IsMoved(g, Top, at, next)
  BY <1>1, MovedIs DEF Moved
<1>3. On(at, next) = Append(Front(stack), g)
  BY <1>1, <1>2, Joined DEF On, IsMoved
<1>4. g \in FrameRec /\ g.hWnd = w /\ g.fn = Top.fn /\ g.at = at
  BY <1>2 DEF IsMoved, w
<1> HIDE DEF g
<1>5. /\ RaisedIn(On(at, next)) \subseteq RaisedIn(stack) \cup {w}
      /\ ~IsRaised(g) => RaisedIn(On(at, next)) \subseteq RaisedIn(stack)
  BY <1>1, <1>3, <1>4, RaisedAppended
<1>6. On(at, next) \in Seq(FrameRec)
  BY <1>1, <1>3, <1>4, Appended
<1>7. RaisedIn(On(at, next) \o c) \subseteq RaisedIn(On(at, next))
  BY <1>6, RaisedJoined
<1>8. Top.fn # "SetActiveWindow" \/ at \notin {"order", "swap"} => ~IsRaised(g)
  BY <1>4 DEF IsRaised
<1> QED
  BY <1>1, <1>5, <1>7, <1>8, ThenIs

\* The program calls.
LEMMA RaisedCaller ==
    ASSUME WindowsInv, ProgramRuns, NEW c, Plain(c)
    PROVE  RaisedIn(Caller \o c) \subseteq RaisedIn(stack) /\ RaisedIn(Caller) \subseteq RaisedIn(stack)
<1>1. CASE stack = <<>>
  <2>1. <<>> \in Seq(FrameRec) /\ Caller = <<>> /\ RaisedIn(<<>>) = {}
    BY <1>1 DEF Caller, RaisedIn
  <2>2. RaisedIn(<<>> \o c) \subseteq RaisedIn(<<>>)
    BY <2>1, RaisedJoined
  <2> QED
    BY <2>1, <2>2
<1>2. CASE stack # <<>>
  <2> DEFINE g == [Top EXCEPT !.next = w]
  <2>1. Stands
    BY <1>2 DEF Stands
  <2>2. /\ Front(stack) \in Seq(FrameRec) /\ Top \in FrameRec
        /\ RaisedIn(Front(stack)) \subseteq RaisedIn(stack)
    BY <2>1, RaisedTop
  <2>3. w \in HWND /\ Top.fn = "Proc"
    BY <1>2, <2>2 DEF ProgramRuns, w, FrameRec
  <2>4. g \in FrameRec /\ g.fn = "Proc"
    BY <2>2, <2>3 DEF FrameRec
  <2>5. Caller = Append(Front(stack), g)
    BY <1>2, <2>2, <2>4, Joined DEF Caller
  <2> HIDE DEF g
  <2>6. RaisedIn(Caller) \subseteq RaisedIn(stack) /\ Caller \in Seq(FrameRec)
    BY <2>2, <2>4, <2>5, RaisedAppended, Appended DEF IsRaised
  <2>7. RaisedIn(Caller \o c) \subseteq RaisedIn(Caller)
    BY <2>6, RaisedJoined
  <2> QED
    BY <2>6, <2>7
<1> QED
  BY <1>1, <1>2

LEMMA RaisedCallers ==
    ASSUME WindowsInv, ProgramRuns, NEW a, Plain(a), NEW b, Plain(b)
    PROVE  RaisedIn((Caller \o a) \o b) \subseteq RaisedIn(stack)
<1>1. PICK B : Caller \in Seq(B)
  <2>1. CASE stack = <<>>
    BY <2>1 DEF Caller
  <2>2. CASE stack # <<>>
    <3>1. Front(stack) \in Seq(FrameRec)
      BY <2>2, RaisedTop DEF Stands
    <3> DEFINE g == [Top EXCEPT !.next = w]
    <3>2. Front(stack) \in Seq(FrameRec \cup {g}) /\ <<g>> \in Seq(FrameRec \cup {g})
      BY <3>1
    <3>3. Caller = Front(stack) \o <<g>>
      BY <2>2 DEF Caller
    <3> HIDE DEF g
    <3>4. Caller \in Seq(FrameRec \cup {g})
      BY <3>2, <3>3
    <3> QED
      BY <3>4
  <2> QED
    BY <2>1, <2>2
<1>2. PICK A : a \in Seq(A)
  BY DEF Plain
<1>3. Caller \in Seq(A \cup B) /\ a \in Seq(A \cup B)
  BY <1>1, <1>2
<1>4. Caller \o a \in Seq(A \cup B)
  BY <1>3
<1>5. RaisedIn((Caller \o a) \o b) \subseteq RaisedIn(Caller \o a)
  BY <1>4, RaisedJoined
<1> QED
  BY <1>5, RaisedCaller

LEMMA AtStands ==
    ASSUME WindowsInv, NEW f, NEW at, At(f, at)
    PROVE  Stands /\ Top.fn = f /\ Top.at = at /\ w \in HWND
<1>1. Stands
  BY DEF At, Stands
<1>2. w \in HWND
  BY <1>1, Stacked DEF Stands, WindowsInv
<1> QED
  BY <1>1, <1>2 DEF At

\* A call that goes on raises no window, but where SetActiveWindow goes on to do so.
LEMMA OnRaised ==
    ASSUME WindowsInv, NEW f, NEW at0, At(f, at0), NEW at \in Stages,
           f = "SetActiveWindow" => at \notin {"order", "swap"} \/ at0 = "order",
           NEW next \in HWND, NEW c, Plain(c), NEW o, Continue(o, Then(at, next, c))
    PROVE  RaisedIn(stack') \subseteq RaisedIn(stack)
<1>1. Stands /\ Top.fn = f /\ Top.at = at0
  BY AtStands
<1>2. Top.fn # "SetActiveWindow" \/ at \notin {"order", "swap"} \/ IsRaised(Top)
  BY <1>1 DEF IsRaised
<1> QED
  BY <1>1, <1>2, RaisedOn DEF Continue

\* Nor does one that returns.
LEMMA BackRaised ==
    ASSUME WindowsInv, NEW f, NEW at0, At(f, at0), NEW c, Plain(c), NEW o,
           Continue(o, Return \o c) \/ Continue(o, Return)
    PROVE  RaisedIn(stack') \subseteq RaisedIn(stack)
<1>1. Stands
  BY AtStands
<1> QED
  BY <1>1, RaisedReturn DEF Continue

LEMMA ProgramRaised ==
    ASSUME WindowsInv, crashed' = FALSE, Program
    PROVE  RaisedIn(stack') \subseteq RaisedIn(stack)
<1>1. ProgramRuns
  BY DEF Program
<1>2. ASSUME NEW c, Plain(c), NEW o, Continue(o, Caller \o c) \/ Continue(o, Caller)
      PROVE  RaisedIn(stack') \subseteq RaisedIn(stack)
  BY <1>1, <1>2, RaisedCaller DEF Continue
<1>3. CASE \E kind \in {"overlapped", "popup", "child"}, p \in {Null} \cup Win, g \in BOOLEAN :
              CreateWindowEx(kind, p, g)
  <2>1. PICK kind, p, g : CreateWindowEx(kind, p, g)
    BY <1>3
  <2>2. PICK h \in Win :
           Continue([obj EXCEPT ![h] = "live"],
                    Caller \o <<Frame("CreateWindowEx", "insert", h, Null)>>
                           \o IF "WM_GETMINMAXINFO" \in Handled
                              THEN <<Frame("Proc", "WM_GETMINMAXINFO", h, Null)>> ELSE <<>>)
    BY <2>1 DEF CreateWindowEx
  <2> DEFINE a == <<Frame("CreateWindowEx", "insert", h, Null)>>
             b == IF "WM_GETMINMAXINFO" \in Handled
                  THEN <<Frame("Proc", "WM_GETMINMAXINFO", h, Null)>> ELSE <<>>
  <2>3. Plain(a) /\ Plain(b)
    <3>1. /\ ~IsRaised(Frame("CreateWindowEx", "insert", h, Null))
          /\ ~IsRaised(Frame("Proc", "WM_GETMINMAXINFO", h, Null))
      BY DEF IsRaised, Frame
    <3> QED
      BY <3>1, PlainOne
  <2> HIDE DEF a, b
  <2>4. stack' = (Caller \o a) \o b
    BY <2>2 DEF Continue, a, b
  <2> QED
    BY <1>1, <2>3, <2>4, RaisedCallers
<1>4. CASE \E h \in Win : DestroyWindow(h)
  <2>1. PICK h \in Win : Steps(Caller \o DestroyCall(h))
    BY <1>4 DEF DestroyWindow
  <2> QED
    BY <1>2, <2>1, CallsPlain DEF Steps
<1>5. CASE \E h \in {Null} \cup Win : SetFocus(h)
  <2>1. PICK h \in {Null} \cup Win : Steps(Caller \o FocusCall(h))
    BY <1>5 DEF SetFocus
  <2> QED
    BY <1>2, <2>1, CallsPlain DEF Steps
<1>6. CASE \E h \in Win, p \in {Null} \cup Win : SetParent(h, p)
  <2>1. Continue(obj, Caller)
    BY <1>6 DEF SetParent, Crash
  <2> QED
    BY <1>2, <2>1, PlainOne
<1>7. CASE \E h \in Win, after \in HWND : SetWindowPos(h, after)
  <2>1. PICK h \in Win, after \in HWND :
           Steps(Caller \o <<Frame("SetWindowPos", "order", h, after)>> \o Send(h, "WM_WINDOWPOSCHANGING"))
    BY <1>7 DEF SetWindowPos
  <2> DEFINE a == <<Frame("SetWindowPos", "order", h, after)>>
             b == Send(h, "WM_WINDOWPOSCHANGING")
  <2>2. Plain(a) /\ Plain(b)
    <3>1. ~IsRaised(Frame("SetWindowPos", "order", h, after))
      BY DEF IsRaised, Frame
    <3> QED
      BY <3>1, PlainOne, CallsPlain
  <2>3. Steps((Caller \o a) \o b)
    BY <2>1
  <2> HIDE DEF a, b
  <2> QED
    BY <1>1, <2>2, <2>3, RaisedCallers DEF Steps, Continue
<1> QED
  BY <1>3, <1>4, <1>5, <1>6, <1>7 DEF Program

\* The steps of each call.
LEMMA CreateRaised ==
    ASSUME WindowsInv, crashed' = FALSE,
           \/ CreateInsert \/ CreateTell \/ CreateNotify \/ CreateShow \/ CreateSize \/ CreateReturn
    PROVE  RaisedIn(stack') \subseteq RaisedIn(stack)
<1>1. Null \in HWND /\ {"nccreate", "create", "notify", "show", "size", "return"} \subseteq Stages
  BY Handles DEF Stages
<1>2. CASE CreateInsert
  BY <1>1, <1>2, OnRaised, CallsPlain DEF CreateInsert, Crash
<1>3. CASE CreateTell
  <2>1. At("CreateWindowEx", "nccreate")
    BY <1>3 DEF CreateTell
  <2>2. \E o : \/ Continue(o, Return)
               \/ Continue(o, Then("create", Null, Send(w, "WM_CREATE")))
    BY <1>3 DEF CreateTell
  <2> QED
    BY <1>1, <2>1, <2>2, OnRaised, BackRaised, CallsPlain, PlainOne
<1>4. CASE CreateNotify
  <2>1. \A h : GetParent(h) \in HWND
    BY HandleIs DEF WindowsInv, Sound, Tree
  <2>2. PICK at0 : At("CreateWindowEx", at0)
    BY <1>4 DEF CreateNotify
  <2>3. \/ Continue(obj, Return)
        \/ Continue(obj, Then("show", Null, Send(w, "WM_SHOWWINDOW")))
        \/ \E h : Continue(obj, NotifyParent(h))
    BY <1>4 DEF CreateNotify, Steps
  <2>4. ASSUME NEW h, Continue(obj, NotifyParent(h)) PROVE RaisedIn(stack') \subseteq RaisedIn(stack)
    <3> DEFINE up == GetParent(h)
               next == IF IsWindow(up) /\ win[up].kind = "child" THEN up ELSE Null
    <3>1. next \in HWND /\ Continue(obj, Then("notify", next, Send(up, "WM_PARENTNOTIFY")))
      BY <1>1, <2>1, <2>4 DEF NotifyParent
    <3> HIDE DEF up, next
    <3> QED
      BY <1>1, <2>2, <3>1, OnRaised, CallsPlain
  <2> QED
    BY <1>1, <2>2, <2>3, <2>4, OnRaised, BackRaised, CallsPlain, PlainOne
<1>5. CASE CreateShow
  BY <1>1, <1>5, OnRaised, CallsPlain DEF CreateShow
<1>6. CASE CreateSize
  BY <1>1, <1>6, OnRaised, CallsPlain DEF CreateSize, Steps
<1>7. CASE CreateReturn
  BY <1>7, BackRaised, PlainOne DEF CreateReturn, Steps
<1> QED
  BY <1>2, <1>3, <1>4, <1>5, <1>6, <1>7

LEMMA DestroyRaised ==
    ASSUME WindowsInv, crashed' = FALSE,
           \/ DestroyNotify \/ DestroyHide \/ DestroyHidden \/ DestroyOwned
           \/ DestroyFocus \/ DestroyTell \/ DestroyUnlink
    PROVE  RaisedIn(stack') \subseteq RaisedIn(stack)
<1>1. /\ Null \in HWND
      /\ {"notify", "hide", "hidden", "focus", "first", "owned", "tell", "unlink"} \subseteq Stages
  BY Handles DEF Stages
<1>2. CASE DestroyNotify
  <2>1. \A h : GetParent(h) \in HWND
    BY HandleIs DEF WindowsInv, Sound, Tree
  <2> DEFINE up == GetParent(Top.next)
             at == IF IsWindow(up) /\ win[up].kind = "child" THEN "notify" ELSE "hide"
  <2>2. Steps(Then(at, up, Send(up, "WM_PARENTNOTIFY"))) /\ At("DestroyWindow", "notify")
    BY <1>2 DEF DestroyNotify
  <2>3. up \in HWND /\ at \in Stages
    BY <1>1, <2>1
  <2> HIDE DEF up, at
  <2> QED
    BY <2>2, <2>3, OnRaised, CallsPlain DEF Steps
<1>3. CASE DestroyHide
  BY <1>1, <1>3, OnRaised, CallsPlain, PlainOne DEF DestroyHide, Steps
<1>4. CASE DestroyHidden
  <2> DEFINE after == IF win[w].visible THEN Send(w, "WM_WINDOWPOSCHANGED") ELSE <<>>
             at == IF win[w].kind = "child" THEN "focus" ELSE "first"
  <2>1. At("DestroyWindow", "hidden") /\ Continue(obj, Then(at, Null, after))
    BY <1>4 DEF DestroyHidden
  <2>2. Plain(after) /\ at \in Stages
    BY <1>1, CallsPlain, PlainOne
  <2> HIDE DEF after, at
  <2> QED
    BY <1>1, <2>1, <2>2, OnRaised
<1>5. CASE DestroyOwned
  <2>1. PICK h, at0 : Visit(h) /\ At("DestroyWindow", at0)
    BY <1>5 DEF DestroyOwned
  <2>2. CASE h = Null
    BY <1>1, <2>1, <2>2, OnRaised, PlainOne DEF Visit, Steps
  <2>3. CASE h # Null
    <3>1. IsWindow(h)
      BY <2>1, <2>3 DEF Visit, Crash
    <3>2. win[h].hWndSibling \in HWND
      <4>1. win \in Wins /\ h \in {Root} \cup Win
        BY <3>1 DEF WindowsInv, Sound, Tree, IsWindow
      <4> QED
        BY <4>1 DEF Wins, WinRec, Window
    <3> DEFINE c == IF win[h].hWndOwner = w THEN DestroyCall(h) ELSE <<>>
    <3>3. Steps(Then("owned", win[h].hWndSibling, c))
      BY <2>1, <2>3, <3>1 DEF Visit
    <3>4. Plain(c)
      BY CallsPlain, PlainOne
    <3> HIDE DEF c
    <3> QED
      BY <1>1, <2>1, <3>2, <3>3, <3>4, OnRaised DEF Steps
  <2> QED
    BY <2>2, <2>3
<1>6. CASE DestroyFocus
  BY <1>1, <1>6, OnRaised, CallsPlain, PlainOne DEF DestroyFocus, Steps
<1>7. CASE DestroyTell
  BY <1>1, <1>7, OnRaised, CallsPlain DEF DestroyTell, Steps
<1>8. CASE DestroyUnlink
  BY <1>1, <1>8, BackRaised, CallsPlain DEF DestroyUnlink, Crash
<1> QED
  BY <1>2, <1>3, <1>4, <1>5, <1>6, <1>7, <1>8

LEMMA FreeRaised ==
    ASSUME WindowsInv,
           TellChildren \/ FreeChildren \/ FreeActive \/ FreeFocus \/ FreeTell \/ FreeHandle
    PROVE  RaisedIn(stack') \subseteq RaisedIn(stack)
<1>1. {"rest", "children", "active", "focus", "ncdestroy", "free"} \subseteq Stages /\ Null \in HWND
  BY Handles DEF Stages
<1>2. win \in Wins /\ obj \in Objs
  BY DEF WindowsInv, Sound, Tree
<1>3. \A h : IsWindow(h) => {win[h].hWndChild, win[h].hWndSibling} \subseteq HWND
  BY <1>2 DEF IsWindow, Wins, WinRec, Window
<1>4. CASE TellChildren
  <2>1. PICK h \in HWND, at0 \in {"first", "rest"} : TellNext(h) /\ At("SendDestroyMessages", at0)
    BY <1>1, <1>3, <1>4 DEF TellChildren
  <2>2. CASE h = Null
    BY <2>1, <2>2, BackRaised, PlainOne DEF TellNext, Steps
  <2>3. CASE h # Null
    BY <1>1, <2>1, <2>3, OnRaised, CallsPlain DEF TellNext, Steps
  <2> QED
    BY <2>2, <2>3
<1>5. CASE FreeChildren
  <2>1. CASE Top.next = Null
    BY <1>1, <1>5, <2>1, OnRaised, PlainOne DEF FreeChildren, Steps
  <2>2. CASE Top.next # Null
    <3>1. NextSib(Top.next) \in HWND
      BY <1>1, <1>3 DEF NextSib
    <3> QED
      BY <1>1, <1>5, <2>2, <3>1, OnRaised, CallsPlain DEF FreeChildren, Steps
  <2> QED
    BY <2>1, <2>2
<1>6. CASE FreeActive
  <2>1. \E h : \E c \in {<<>>, ActiveCall(h)} : Continue(obj, Then("focus", Null, c))
    BY <1>6 DEF FreeActive
  <2>2. PICK c : Plain(c) /\ Continue(obj, Then("focus", Null, c))
    BY <2>1, CallsPlain, PlainOne
  <2> QED
    BY <1>1, <1>6, <2>2, OnRaised DEF FreeActive
<1>7. CASE FreeFocus
  BY <1>1, <1>7, OnRaised, CallsPlain, PlainOne DEF FreeFocus, Steps
<1>8. CASE FreeTell
  BY <1>1, <1>8, OnRaised, CallsPlain DEF FreeTell, Steps
<1>9. CASE FreeHandle
  BY <1>9, BackRaised, PlainOne DEF FreeHandle
<1> QED
  BY <1>4, <1>5, <1>6, <1>7, <1>8, <1>9

LEMMA ActiveRaised ==
    ASSUME WindowsInv, crashed' = FALSE,
           \/ ActivateChild \/ ActivateOrder \/ ActivateSwap \/ ActivateTell
           \/ SetWindowPosOrder \/ FocusTake \/ FocusTell
    PROVE  RaisedIn(stack') \subseteq RaisedIn(stack)
<1>1. {"swap", "nc", "activate", "focus", "focused"} \subseteq Stages /\ Null \in HWND
  BY Handles DEF Stages
<1>2. CASE ActivateChild
  BY <1>2, BackRaised, CallsPlain DEF ActivateChild, Steps
<1>3. CASE ActivateOrder
  BY <1>1, <1>3, OnRaised, CallsPlain DEF ActivateOrder, Crash
<1>4. CASE ActivateSwap
  BY <1>1, <1>4, OnRaised, CallsPlain DEF ActivateSwap
<1>5. CASE ActivateTell
  <2>1. CASE At("SetActiveWindow", "nc") /\ Steps(Then("activate", Null, Send(hCurrentActiveWindow, "WM_NCACTIVATE")))
    BY <1>1, <2>1, OnRaised, CallsPlain DEF Steps
  <2>2. CASE At("SetActiveWindow", "activate") /\ Steps(Then("focus", Null, SendActivate(hCurrentActiveWindow)))
    BY <1>1, <2>2, OnRaised, CallsPlain DEF Steps
  <2>3. CASE At("SetActiveWindow", "focus") /\ Steps(Return \o Send(hCurrentActiveWindow, "WM_SETFOCUS"))
    BY <2>3, BackRaised, CallsPlain DEF Steps
  <2> QED
    BY <1>5, <2>1, <2>2, <2>3 DEF ActivateTell
<1>6. CASE SetWindowPosOrder
  BY <1>1, <1>6, BackRaised, CallsPlain DEF SetWindowPosOrder, Crash
<1>7. CASE FocusTake
  <2>1. GetFocus \in HWND /\ At("SetFocus", "focus")
    BY <1>7, Handles DEF GetFocus, FocusTake, WindowsInv, Typed
  <2> DEFINE c == IF GetFocus = w THEN <<>> ELSE Send(GetFocus, "WM_KILLFOCUS")
  <2>2. Continue(obj, Then("focused", GetFocus, c)) \/ Continue(obj, Return)
    BY <1>7 DEF FocusTake, Steps
  <2>3. Plain(c) /\ Plain(<<>>)
    BY CallsPlain, PlainOne
  <2> HIDE DEF c
  <2> QED
    BY <1>1, <2>1, <2>2, <2>3, OnRaised, BackRaised
<1>8. CASE FocusTell
  <2> DEFINE c == IF Top.next = w THEN <<>> ELSE Send(w, "WM_SETFOCUS")
  <2>1. At("SetFocus", "focused") /\ Continue(obj, Return \o c)
    BY <1>8 DEF FocusTell
  <2>2. Plain(c)
    BY CallsPlain, PlainOne
  <2> HIDE DEF c
  <2> QED
    BY <2>1, <2>2, BackRaised
<1> QED
  BY <1>2, <1>3, <1>4, <1>5, <1>6, <1>7, <1>8

LEMMA ReturnRaised ==
    ASSUME WindowsInv, ProcReturn
    PROVE  RaisedIn(stack') \subseteq RaisedIn(stack)
<1> DEFINE s == Return
<1>1. Stands
  BY DEF ProcReturn, Stands
<1>2. stack' \in {s, Refused(s)}
  BY DEF ProcReturn, Refused, Continue
<1>3. RaisedIn(s) \subseteq RaisedIn(stack)
  BY <1>1, RaisedReturn, PlainOne
<1>4. s \in Seq(FrameRec)
  BY <1>1, RaisedTop DEF Return
<1> HIDE DEF s
<1>5. DOMAIN Refused(s) = DOMAIN s
  BY <1>4 DEF Refused
<1>6. \A i \in DOMAIN s : s[i] \in FrameRec
  BY <1>4
<1>7. \A i \in DOMAIN s : /\ Refused(s)[i].fn = s[i].fn /\ Refused(s)[i].at = s[i].at
                          /\ Refused(s)[i].hWnd = s[i].hWnd
  BY <1>4, <1>6 DEF Refused, FrameRec
<1>8. RaisedIn(Refused(s)) \subseteq RaisedIn(s)
  BY <1>5, <1>7 DEF RaisedIn, IsRaised
<1> QED
  BY <1>2, <1>3, <1>8

\* Windows that are no child windows stay so, where neither handles nor kinds change.
TopsStay == \A x \in Win : IsTop(obj, win, x) => IsTop(obj', win', x)

LEMMA KindsStay ==
    ASSUME WindowsInv, NEW o, NEW s, Continue(o, s), \A x \in Win : obj[x] # "none" => o[x] # "none",
           \A x \in Win : IsTop(obj, win, x) => win'[x].kind # "child"
    PROVE  TopsStay
<1>1. obj' = Released(o, s)
  BY ContinueIs
<1>2. \A x \in Win : obj[x] # "none" => obj'[x] # "none"
  BY <1>1 DEF Released
<1> QED
  BY <1>2 DEF TopsStay, IsTop

LEMMA SameStay ==
    ASSUME WindowsInv, NEW s, Continue(obj, s), win' = win
    PROVE  TopsStay
BY KindsStay DEF IsTop

LEMMA KinStay ==
    ASSUME WindowsInv, NEW s, Continue(obj, s), Kin(win, win')
    PROVE  TopsStay
BY KindsStay DEF IsTop, Kin, Window

\* The steps that change windows.
LEMMA LinksStay ==
    ASSUME WindowsInv, crashed' = FALSE,
           ActivateOrder \/ SetWindowPosOrder \/ CreateInsert \/ DestroyUnlink
    PROVE  TopsStay
<1> DEFINE T == TreeIn(obj, stack)
<1>1. Sound(obj, win, stack) /\ crashed' = FALSE
  BY DEF WindowsInv
<1>2. CASE ActivateOrder
  <2>1. w \in T /\ ParentIn(win, w) \in {Root} \cup T
    BY <1>1, <1>2, AtPlace DEF ActivateOrder, At, IsEntering
  <2>2. Kin(win, ChangeZOrder(w, HWND_TOP))
    BY <1>1, <2>1, Reordered DEF HWND_TOP
  <2>3. \E s : Continue(obj, s)
    BY <1>2 DEF ActivateOrder, Crash
  <2>4. win' = ChangeZOrder(w, HWND_TOP)
    BY <1>1, <1>2 DEF ActivateOrder, Crash
  <2> QED
    BY <2>2, <2>3, <2>4, KinStay
<1>3. CASE SetWindowPosOrder
  <2>1. /\ w \in T /\ ParentIn(win, w) \in {Root} \cup T
        /\ Top.next \in {Null, Root} \cup Members(win, T, ParentIn(win, w))
    BY <1>1, <1>3, AtPlace DEF SetWindowPosOrder, At, IsEntering
  <2>2. Kin(win, ChangeZOrder(w, Top.next))
    BY <1>1, <2>1, Reordered
  <2>3. (\E s : Continue(obj, s)) /\ win' = ChangeZOrder(w, Top.next)
    BY <1>1, <1>3 DEF SetWindowPosOrder, Crash
  <2> QED
    BY <2>2, <2>3, KinStay
<1>4. CASE CreateInsert
  <2>1. stack # <<>> /\ IsEntering(Top)
    BY <1>4 DEF CreateInsert, At, IsEntering
  <2>2. Kin(win, Inserted(w))
    BY <1>1, <2>1, Entered
  <2>3. (\E s : Continue(obj, s)) /\ win' = Inserted(w)
    BY <1>1, <1>4 DEF CreateInsert, Crash, Inserted
  <2> QED
    BY <2>2, <2>3, KinStay
<1>5. CASE DestroyUnlink
  <2>1. stack # <<>> /\ Top.fn = "DestroyWindow"
    BY <1>5 DEF DestroyUnlink, At
  <2>2. Kin(win, RemoveFromList(w))
    BY <1>1, <2>1, Unlinks
  <2>3. (\E s : Continue(obj, s)) /\ win' = RemoveFromList(w)
    BY <1>1, <1>5 DEF DestroyUnlink, Crash
  <2> QED
    BY <2>2, <2>3, KinStay
<1> QED
  BY <1>2, <1>3, <1>4, <1>5

LEMMA RecordsStay ==
    ASSUME WindowsInv, CreateShow \/ DestroyHidden \/ FreeHandle
    PROVE  TopsStay
<1>1. win \in Wins /\ obj \in Objs
  BY DEF WindowsInv, Sound, Tree
<1>2. \A x \in Win : win[x] \in WinRec /\ x \in DOMAIN win
  BY <1>1 DEF Wins, Window
<1>3. \A x \in Win : \A v : [win EXCEPT ![w].visible = v][x].kind = win[x].kind
  <2> SUFFICES ASSUME NEW x \in Win, NEW v
               PROVE  [win EXCEPT ![w].visible = v][x].kind = win[x].kind
    OBVIOUS
  <2>1. [win EXCEPT ![w].visible = v][x] = IF x = w THEN [win[x] EXCEPT !.visible = v] ELSE win[x]
    BY <1>2
  <2>2. [win[x] EXCEPT !.visible = v].kind = win[x].kind
    BY <1>2 DEF WinRec
  <2> QED
    BY <2>1, <2>2
<1>4. CASE CreateShow
  BY <1>3, <1>4, KindsStay DEF CreateShow, IsTop
<1>5. CASE DestroyHidden
  <2>1. \E s : Continue(obj, s)
    BY <1>5 DEF DestroyHidden
  <2>2. win' = [win EXCEPT ![w].visible = FALSE]
    BY <1>5 DEF DestroyHidden
  <2> QED
    BY <1>3, <2>1, <2>2, KindsStay DEF IsTop
<1>6. CASE FreeHandle
  <2>1. \A x \in Win : obj[x] # "none" => FREEHWND(w)[x] # "none"
    BY <1>1 DEF FREEHWND, Objs
  <2>2. \A x \in Win : [win EXCEPT ![w] = NoWindow][x].kind \in {win[x].kind, "overlapped"}
    BY <1>2 DEF NoWindow
  <2>3. \A x \in Win : win'[x].kind \in {win[x].kind, "overlapped"}
    BY <1>6, <2>2 DEF FreeHandle
  <2>4. Continue(FREEHWND(w), Return)
    BY <1>6 DEF FreeHandle
  <2> QED
    BY <2>1, <2>3, <2>4, KindsStay DEF IsTop
<1> QED
  BY <1>4, <1>5, <1>6

\* Those that change none.
LEMMA RunTops ==
    ASSUME Decent, WindowsInv, crashed' = FALSE, Run
    PROVE  TopsStay
<1>1. CASE ActivateOrder \/ SetWindowPosOrder \/ CreateInsert \/ DestroyUnlink
  BY <1>1, LinksStay
<1>2. CASE CreateShow \/ DestroyHidden \/ FreeHandle
  BY <1>2, RecordsStay
<1>3. CASE CreateTell
  <2>1. \A x \in Win : obj[x] # "none" => FREEHWND(w)[x] # "none"
    BY DEF FREEHWND, WindowsInv, Sound, Tree, Objs
  <2>2. PICK o \in {obj, FREEHWND(w)} : \E s : Continue(o, s)
    BY <1>3 DEF CreateTell
  <2>3. win' = win
    BY <1>3 DEF CreateTell
  <2> QED
    BY <2>1, <2>2, <2>3, KindsStay DEF IsTop
<1>4. ASSUME (\E s : Steps(s)) \/ (\E s : Continue(obj, s) /\ win' = win) PROVE TopsStay
  BY <1>4, SameStay DEF Steps
<1>5. CASE ActivateChild \/ ActivateRaise \/ ActivateSwap \/ ActivateTell \/ FocusTake \/ FocusTell
  BY <1>4, <1>5 DEF ActivateChild, ActivateRaise, ActivateSwap, ActivateTell, FocusTake, FocusTell
<1>6. CASE CreateNotify \/ CreateSize \/ CreateReturn
  BY <1>4, <1>6 DEF CreateNotify, CreateSize, CreateReturn
<1>7. CASE DestroyNotify \/ DestroyHide \/ DestroyOwned \/ DestroyFocus \/ DestroyTell
  BY <1>4, <1>7 DEF DestroyNotify, DestroyHide, DestroyOwned, Visit, Crash, DestroyFocus, DestroyTell
<1>8. CASE TellChildren \/ FreeChildren \/ FreeActive \/ FreeFocus \/ FreeTell \/ ProcReturn
  BY <1>4, <1>8 DEF TellChildren, TellNext, FreeChildren, FreeActive, FreeFocus, FreeTell, ProcReturn
<1> QED
  BY <1>1, <1>2, <1>3, <1>5, <1>6, <1>7, <1>8 DEF Run

\* A polite program moves no window that is active or about to be.
LEMMA ProgramTops ==
    ASSUME Decent, WindowsInv, crashed' = FALSE, Program
    PROVE  \A x \in {hCurrentActiveWindow} \cup RaisedIn(stack) : IsTop(obj', win', x)
<1> DEFINE A == {hCurrentActiveWindow} \cup RaisedIn(stack)
<1>1. \A x \in A : IsTop(obj, win, x)
  BY DEF WindowsInv, TopInv
<1>2. Sound(obj, win, stack) /\ win \in Wins /\ obj \in Objs
  BY DEF WindowsInv, Sound, Tree
<1>3. ASSUME TopsStay PROVE \A x \in A : IsTop(obj', win', x)
  BY <1>1, <1>3 DEF TopsStay, IsTop
<1>4. CASE \E kind \in {"overlapped", "popup", "child"}, p \in {Null} \cup Win, g \in BOOLEAN :
              CreateWindowEx(kind, p, g)
  <2>1. PICK kind, p, g : CreateWindowEx(kind, p, g)
    BY <1>4
  <2>2. PICK h \in Win :
           /\ obj[h] = "none" /\ \E s : Continue([obj EXCEPT ![h] = "live"], s)
           /\ \E r : win' = [win EXCEPT ![h] = r]
    BY <2>1 DEF CreateWindowEx
  <2>3. \A x \in Win : obj[x] # "none" => x # h /\ [obj EXCEPT ![h] = "live"][x] # "none"
    BY <1>2, <2>2 DEF Objs
  <2>4. \A x \in Win : x # h => win'[x] = win[x]
    BY <1>2, <2>2 DEF Wins, Window
  <2>5. \A x \in Win : IsTop(obj, win, x) => win'[x].kind # "child"
    BY <2>3, <2>4 DEF IsTop
  <2>6. TopsStay
    BY <2>2, <2>3, <2>5, KindsStay
  <2> QED
    BY <1>3, <2>6
<1>5. CASE \/ \E h \in Win : DestroyWindow(h)
           \/ \E h \in {Null} \cup Win : SetFocus(h)
           \/ \E h \in Win, after \in HWND : SetWindowPos(h, after)
  <2>1. \E s : Steps(s)
    BY <1>5 DEF DestroyWindow, SetFocus, SetWindowPos
  <2> QED
    BY <1>3, <2>1, SameStay DEF Steps
<1>6. CASE \E h \in Win, p \in {Null} \cup Win : SetParent(h, p)
  <2>1. PICK h \in Win, p \in {Null} \cup Win : SetParent(h, p)
    BY <1>6
  <2>2. /\ h \in Known /\ MayDestroy(h)
        /\ p = Null \/ (p \in Known /\ MayUse(p) /\ p # h /\ ~IsChild(h, p))
        /\ p # win[h].hWndParent /\ MayMove(h)
    BY <2>1 DEF SetParent
  <2>3. KinBut(win, Reparented(h, p), h, p, NewKind(p))
    BY <1>2, <2>2, ParentSound DEF Decent
  <2>4. win' = Reparented(h, p) /\ Continue(obj, Caller)
    BY <2>1 DEF SetParent, Crash, WindowsInv
  <2>5. h # hCurrentActiveWindow
    BY <2>2 DEF MayMove, Decent
  <2>6. h \notin RaisedIn(stack)
    <3>1. h \in FamilyIn(obj, win, h) /\ FamilyIn(obj, win, h) \cap About(Library) = {}
      BY <1>2, <2>2, MayDestroyIs DEF Decent
    <3>2. RaisedIn(stack) \subseteq About(Library)
      BY DEF RaisedIn, IsRaised, About, Library
    <3> QED
      BY <3>1, <3>2
  <2>7. obj' = Released(obj, Caller)
    BY <2>4, ContinueIs
  <2> SUFFICES ASSUME NEW x \in A, x \in Win PROVE obj'[x] # "none" /\ win'[x].kind # "child"
    BY DEF IsTop
  <2>8. obj[x] # "none" /\ win[x].kind # "child" /\ x # h
    BY <1>1, <2>5, <2>6 DEF IsTop
  <2>9. obj'[x] # "none"
    BY <2>7, <2>8 DEF Released
  <2>10. win'[x].kind = win[x].kind
    BY <2>3, <2>4, <2>8 DEF KinBut, Window
  <2> QED
    BY <2>8, <2>9, <2>10
<1> QED
  BY <1>4, <1>5, <1>6 DEF Program

\* No child window is, or comes to be, the active one.
LEMMA TopKept ==
    ASSUME Decent, WindowsInv, crashed' = FALSE, Next
    PROVE  TopInv'
<1>1. \A x \in {hCurrentActiveWindow} \cup RaisedIn(stack) : IsTop(obj, win, x)
  BY DEF WindowsInv, TopInv
<1>2. CASE Program
  <2>1. RaisedIn(stack') \subseteq RaisedIn(stack)
    BY <1>2, ProgramRaised
  <2>2. hCurrentActiveWindow' = hCurrentActiveWindow
    BY <1>2 DEF Program, CreateWindowEx, DestroyWindow, SetFocus, SetParent, SetWindowPos, Steps, Crash
  <2> QED
    BY <1>2, <2>1, <2>2, ProgramTops DEF TopInv
<1>3. CASE Run
  <2>1. TopsStay
    BY <1>3, RunTops
  <2>2. \A x \in {Null, hCurrentActiveWindow} \cup RaisedIn(stack) : IsTop(obj', win', x)
    BY <1>1, <2>1, Handles DEF TopsStay, IsTop
  <2>3. ASSUME RaisedIn(stack') \subseteq RaisedIn(stack),
               hCurrentActiveWindow' \in {Null, hCurrentActiveWindow} \cup RaisedIn(stack)
        PROVE  TopInv'
    BY <2>2, <2>3 DEF TopInv
  <2>4. CASE ActivateRaise
    <3>1. /\ At("SetActiveWindow", "raise") /\ win[w].kind # "child" /\ Stands
          /\ hCurrentActiveWindow' = hCurrentActiveWindow
          /\ \/ stack' = Then("swap", Null, <<>>)
             \/ stack' = Then("order", Null, Send(w, "WM_WINDOWPOSCHANGING"))
      BY <2>4, AtStands DEF ActivateRaise, Steps, Continue
    <3>2. {"order", "swap"} \subseteq Stages /\ Null \in HWND
      BY Handles DEF Stages
    <3>3. RaisedIn(stack') \subseteq RaisedIn(stack) \cup {w}
      BY <3>1, <3>2, RaisedOn, CallsPlain, PlainOne
    <3>4. w \in Win /\ obj[w] # "none"
      <4>1. w \in TreeIn(obj, stack)
        BY <3>1, AtPlace DEF At, IsEntering, WindowsInv
      <4> QED
        BY <4>1 DEF TreeIn, KnownIn
    <3>5. IsTop(obj', win', w)
      BY <2>1, <3>1, <3>4 DEF TopsStay, IsTop
    <3> QED
      BY <2>2, <3>1, <3>3, <3>5 DEF TopInv
  <2>5. CASE ActivateSwap
    <3>1. Stands /\ Top.fn = "SetActiveWindow" /\ Top.at = "swap" /\ hCurrentActiveWindow' = w
      BY <2>5, AtStands DEF ActivateSwap
    <3>2. w \in RaisedIn(stack)
      BY <3>1, RaisedTop DEF IsRaised
    <3> QED
      BY <2>3, <2>5, <3>1, <3>2, ActiveRaised
  <2>6. CASE ActivateChild \/ ActivateOrder \/ ActivateTell \/ SetWindowPosOrder \/ FocusTake \/ FocusTell
    <3>1. hCurrentActiveWindow' = hCurrentActiveWindow
      BY <2>6 DEF ActivateChild, ActivateOrder, ActivateTell, SetWindowPosOrder, FocusTake, FocusTell, Steps, Crash
    <3> QED
      BY <2>3, <2>6, <3>1, ActiveRaised
  <2>7. CASE CreateInsert \/ CreateTell \/ CreateNotify \/ CreateShow \/ CreateSize \/ CreateReturn
    <3>1. hCurrentActiveWindow' = hCurrentActiveWindow
      BY <2>7 DEF CreateInsert, CreateTell, CreateNotify, CreateShow, CreateSize, CreateReturn, Steps, Crash
    <3> QED
      BY <2>3, <2>7, <3>1, CreateRaised
  <2>8. CASE DestroyNotify \/ DestroyHide \/ DestroyHidden \/ DestroyOwned \/ DestroyFocus \/ DestroyTell
             \/ DestroyUnlink
    <3>1. hCurrentActiveWindow' = hCurrentActiveWindow
      BY <2>8 DEF DestroyNotify, DestroyHide, DestroyHidden, DestroyOwned, Visit, DestroyFocus, DestroyTell,
                  DestroyUnlink, Steps, Crash
    <3> QED
      BY <2>3, <2>8, <3>1, DestroyRaised
  <2>9. CASE TellChildren \/ FreeChildren \/ FreeActive \/ FreeFocus \/ FreeTell \/ FreeHandle
    <3>1. hCurrentActiveWindow' \in {Null, hCurrentActiveWindow}
      BY <2>9 DEF TellChildren, TellNext, FreeChildren, FreeActive, FreeFocus, FreeTell, FreeHandle, Steps
    <3> QED
      BY <2>3, <2>9, <3>1, FreeRaised
  <2>10. CASE ProcReturn
    <3>1. hCurrentActiveWindow' = hCurrentActiveWindow
      BY <2>10 DEF ProcReturn
    <3> QED
      BY <2>3, <2>10, <3>1, ReturnRaised
  <2> QED
    BY <1>3, <2>4, <2>5, <2>6, <2>7, <2>8, <2>9, <2>10 DEF Run
<1> QED
  BY <1>2, <1>3 DEF Next

\* Every step keeps the invariant.
LEMMA StepInv ==
    ASSUME Decent, WindowsInv, [Next]_vars
    PROVE  WindowsInv' /\ (Kept \/ UNCHANGED vars)
<1>1. CASE Program
  <2>1. Kept /\ crashed' = crashed
    BY <1>1, ProgramKept
  <2>2. Typed'
    BY <1>1, TypedKept DEF Next
  <2>3. TopInv'
    BY <1>1, <2>1, TopKept DEF Next, WindowsInv
  <2> QED
    BY <2>1, <2>2, <2>3 DEF Kept, WindowsInv
<1>2. CASE Run
  <2>1. Kept /\ crashed' = crashed
    BY <1>2, RunKept, RunStays
  <2>2. Typed'
    BY <1>2, TypedKept DEF Next
  <2>3. TopInv'
    BY <1>2, <2>1, TopKept DEF Next, WindowsInv
  <2> QED
    BY <2>1, <2>2, <2>3 DEF Kept, WindowsInv
<1>3. CASE UNCHANGED vars
  <2>1. /\ obj' = obj /\ win' = win /\ stack' = stack /\ crashed' = crashed /\ told' = told
        /\ nctold' = nctold /\ hCurrentActiveWindow' = hCurrentActiveWindow
        /\ hCurrentFocusWindow' = hCurrentFocusWindow
    BY <1>3 DEF vars, tree, counts
  <2>2. Typed'
    BY <2>1 DEF Typed, WindowsInv
  <2>3. TopInv'
    BY <2>1 DEF TopInv, WindowsInv
  <2> QED
    BY <1>3, <2>1, <2>2, <2>3 DEF WindowsInv
<1> QED
  BY <1>1, <1>2, <1>3 DEF Next

\* Whatever polite programs and their window procedures call, the tree stays sound, every
\* call under way finds what it relies on, and no null pointer is followed.
THEOREM Keeps ==
    ASSUME Decent
    PROVE  Spec => []WindowsInv
<1>1. Init => WindowsInv
  BY InitSound
<1>2. WindowsInv /\ [Next]_vars => WindowsInv'
  BY StepInv
<1> QED
  BY <1>1, <1>2, PTL DEF Spec

----------------------------------------------------------------------------
(* The properties *)

\* The lists of the tree, whose order the property ImplementsZOrder is about.
LEMMA ListsNow ==
    ASSUME WindowsInv
    PROVE  \E C : /\ Has(C, win, InTree) /\ Now(C, {Root} \cup InTree, InTree)
                  /\ InTree = TreeIn(obj, stack) /\ InTree \subseteq Win
<1> DEFINE T == TreeIn(obj, stack)
<1>1. PICK C : Lists(C, win, {Root} \cup T, T)
  BY DEF WindowsInv, Sound, Tree
<1>2. Now(C, {Root} \cup T, T)
  BY <1>1, NowTree, TreeKnown DEF WindowsInv, Sound
<1>3. InTree = T
  BY StateIs
<1> QED
  BY <1>1, <1>2, <1>3, TreeKnown DEF Has

LEMMA InvTypes ==
    ASSUME WindowsInv
    PROVE  TypeOK
<1>1. obj \in Objs /\ win \in Wins
  BY DEF WindowsInv, Sound, Tree
<1>2. \A h \in {Root} \cup Win :
         /\ win[h].kind \in {"overlapped", "popup", "child"}
         /\ {win[h].hWndParent, win[h].hWndOwner, win[h].hWndSibling, win[h].hWndChild,
             win[h].hWndLastChild, win[h].hWndGroup} \subseteq HWND
         /\ {win[h].group, win[h].visible} \subseteq BOOLEAN
  <2> SUFFICES ASSUME NEW h \in {Root} \cup Win
               PROVE  /\ win[h].kind \in {"overlapped", "popup", "child"}
                      /\ {win[h].hWndParent, win[h].hWndOwner, win[h].hWndSibling, win[h].hWndChild,
                          win[h].hWndLastChild, win[h].hWndGroup} \subseteq HWND
                      /\ {win[h].group, win[h].visible} \subseteq BOOLEAN
    OBVIOUS
  <2>1. win[h] \in WinRec
    BY <1>1 DEF Wins, Window
  <2> QED
    BY <2>1 DEF WinRec
<1>3. \A i \in DOMAIN stack : stack[i].hWnd \in HWND /\ stack[i].next \in HWND
  <2>1. stack \in Seq(FrameRec)
    BY DEF WindowsInv, Sound, Fits
  <2>2. \A i \in DOMAIN stack : stack[i] \in FrameRec
    BY <2>1
  <2> QED
    BY <2>2 DEF FrameRec
<1> QED
  BY <1>1, <1>2, <1>3 DEF TypeOK, WindowsInv, Typed, Objs

LEMMA InvLinked ==
    ASSUME WindowsInv
    PROVE  WellLinked
<1>1. PICK C : Now(C, {Root} \cup InTree, InTree)
  BY ListsNow
<1>2. ASSUME NEW p \in {Root} \cup InTree
      PROVE  /\ ToSet(Children(p)) = {h \in InTree : ListParent(h) = p}
             /\ IF Children(p) = <<>> THEN win[p].hWndChild = Null
                ELSE win[Last(Children(p))].hWndSibling = Null
  <2>1. /\ Children(p) = C[p] /\ C[p] \in Seq(Win) /\ Chain(C[p], win, win[p].hWndChild)
        /\ ToSet(C[p]) = Members(win, InTree, p)
    BY <1>1, ChildrenAre
  <2>2. ToSet(Children(p)) = {h \in InTree : ListParent(h) = p}
    BY <2>1, StateIs DEF Members
  <2>3. CASE C[p] = <<>>
    BY <2>1, <2>2, <2>3 DEF Chain
  <2>4. CASE C[p] # <<>>
    <3>1. Len(C[p]) \in DOMAIN C[p] /\ Last(C[p]) = C[p][Len(C[p])]
      BY <2>1, <2>4 DEF Last
    <3> QED
      BY <2>1, <2>2, <2>4, <3>1 DEF Chain
  <2> QED
    BY <2>3, <2>4
<1> QED
  BY <1>2, InvTypes DEF WellLinked, WindowsInv

LEMMA InvRings ==
    ASSUME WindowsInv
    PROVE  GroupRings
<1>1. PICK C : Now(C, {Root} \cup InTree, InTree)
  BY ListsNow
<1>2. Groups(win, {Root} \cup InTree, InTree)
  BY StateIs DEF WindowsInv, Sound, Tree
<1> SUFFICES ASSUME NEW p \in {Root} \cup InTree
             PROVE  LET list == ToSet(Children(p)) IN
                    /\ win[p].hWndLastChild \in {Null} \cup list
                    /\ \A h \in list : InRing(h) /\ win[h].hWndGroup \in list
  BY DEF GroupRings
<1>3. ToSet(Children(p)) = Members(win, InTree, p)
  BY <1>1, ChildrenAre
<1>4. \A h \in Members(win, InTree, p) : InRing(h)
  BY <1>1, <1>2, PrevGroupIs DEF Members
<1> QED
  BY <1>2, <1>3, <1>4 DEF Groups, Rings

LEMMA InvParents ==
    ASSUME WindowsInv
    PROVE  NoOrphans
<1> SUFFICES ASSUME NEW h \in InTree, win[h].kind = "child"
             PROVE  win[h].hWndParent \in Known
  BY DEF NoOrphans
<1> DEFINE T == TreeIn(obj, stack)
<1>1. InTree = T /\ Known = KnownIn(obj) /\ T \subseteq Known
  BY StateIs, TreeKnown
<1>2. FreedIn(stack) \subseteq Known
  <2>1. \A i \in DOMAIN stack : Good(obj, win, T, stack[i])
    BY DEF WindowsInv, Sound, Fits
  <2> HIDE DEF T
  <2> QED
    BY <1>1, <2>1 DEF FreedIn, Good, GoodEnd
<1>3. h \in Win /\ obj[h] \in Alive
  BY <1>1 DEF Known, Alive
<1>4. win[h].hWndParent \in {Root} \cup T \cup FreedIn(stack)
  BY <1>1 DEF WindowsInv, Sound, Tree, ParentIn
<1>5. win[h].hWndParent \in {Null} \cup Some(obj)
  <2>1. OverIn(obj, win)[h] \in {Null} \cup Some(obj)
    BY <1>3 DEF WindowsInv, Sound, Tree, Kinds
  <2>2. OverIn(obj, win)[h] = win[h].hWndParent
    BY <1>3, Handles DEF OverIn, IsWin
  <2> QED
    BY <2>1, <2>2
<1>6. Root \notin {Null} \cup Some(obj) /\ Null \notin Known
  BY Handles DEF Some, Known
<1>7. win[h].hWndParent # Null
  BY <1>3 DEF WindowsInv, Sound, Tree, Kinds
<1> HIDE DEF T
<1> QED
  BY <1>1, <1>2, <1>4, <1>5, <1>6, <1>7

\* hWndChild and hWndSibling are lists: what TWIN_EnumerateSiblingWindows comes to are the
\* children of a window, each once, and no list operation follows a null pointer.
THEOREM LinksAreLists ==
    ASSUME Decent
    PROVE  Spec => []WellLinked
BY Keeps, InvLinked, PTL

\* hWndGroup forms rings among the children of each window, and hWndLastChild is one of them.
THEOREM GroupsAreRings ==
    ASSUME Decent
    PROVE  Spec => []GroupRings
BY Keeps, InvRings, PTL

\* The parent of a child window is there, whatever window procedures do while windows are
\* moved, created and destroyed.
THEOREM NoneIsOrphaned ==
    ASSUME Decent
    PROVE  Spec => []NoOrphans
BY Keeps, InvParents, PTL

----------------------------------------------------------------------------
(* The lists implement ZOrder *)

LEMMA Catenated ==
    ASSUME NEW a \in Seq(Win), NEW b \in Seq(Win)
    PROVE  /\ a \o b \in Seq(Win) /\ Len(a \o b) = Len(a) + Len(b)
           /\ \A i \in 1 .. Len(a) + Len(b) : (a \o b)[i] = IF i <= Len(a) THEN a[i] ELSE b[i - Len(a)]
OBVIOUS

LEMMA EqualSeqs ==
    ASSUME NEW r \in Seq(Win), NEW n \in Nat, Len(r) = n, NEW c, c = [i \in 1 .. n |-> c[i]],
           \A i \in 1 .. n : r[i] = c[i]
    PROVE  r = c
<1>1. r = [i \in 1 .. n |-> r[i]]
  OBVIOUS
<1> QED
  BY <1>1

\* The part of a sequence before k, and that from k on.
LEMMA Parts ==
    ASSUME NEW s \in Seq(Win), NEW k \in 1 .. Len(s) + 1
    PROVE  /\ SubSeq(s, 1, k - 1) \in Seq(Win) /\ Len(SubSeq(s, 1, k - 1)) = k - 1
           /\ \A i \in 1 .. k - 1 : SubSeq(s, 1, k - 1)[i] = s[i]
           /\ SubSeq(s, k, Len(s)) \in Seq(Win) /\ Len(SubSeq(s, k, Len(s))) = Len(s) - k + 1
           /\ \A i \in 1 .. Len(s) - k + 1 : SubSeq(s, k, Len(s))[i] = s[i + k - 1]
<1>1. Len(s) \in Nat /\ k \in Nat \ {0}
  OBVIOUS
<1> QED
  BY <1>1

\* The operations of ZOrder on sequences are those of the lists.
LEMMA RemoveIsCut ==
    ASSUME NEW s \in Seq(Win), NEW k \in DOMAIN s
    PROVE  Z!RemoveAt(s, k) = Cut(s, k)
<1> DEFINE a == SubSeq(s, 1, k - 1)
           b == SubSeq(s, k + 1, Len(s))
           n == Len(s) - 1
           c == Cut(s, k)
<1>1. Len(s) \in Nat /\ k \in 1 .. Len(s) /\ k + 1 \in 1 .. Len(s) + 1 /\ k \in 1 .. Len(s) + 1 /\ n \in Nat
  OBVIOUS
<1>2. a \in Seq(Win) /\ Len(a) = k - 1 /\ \A i \in 1 .. k - 1 : a[i] = s[i]
  BY <1>1, Parts
<1>3. b \in Seq(Win) /\ Len(b) = Len(s) - (k + 1) + 1
      /\ \A i \in 1 .. Len(s) - (k + 1) + 1 : b[i] = s[i + (k + 1) - 1]
  BY <1>1, Parts
<1>4. Z!RemoveAt(s, k) = a \o b
  BY DEF Z!RemoveAt
<1> HIDE DEF a, b
<1>5. /\ a \o b \in Seq(Win) /\ Len(a \o b) = n
      /\ \A i \in 1 .. n : (a \o b)[i] = IF i <= k - 1 THEN a[i] ELSE b[i - (k - 1)]
  <2>1. /\ a \o b \in Seq(Win) /\ Len(a \o b) = Len(a) + Len(b)
        /\ \A i \in 1 .. Len(a) + Len(b) : (a \o b)[i] = IF i <= Len(a) THEN a[i] ELSE b[i - Len(a)]
    BY <1>2, <1>3, Catenated
  <2>2. Len(a) + Len(b) = n /\ Len(a) = k - 1
    <3>1. Len(a) = k - 1
      BY <1>2
    <3>2. Len(b) = Len(s) - (k + 1) + 1
      BY <1>3
    <3>3. Len(s) \in Nat /\ k \in Nat
      BY <1>1

    <3> QED
      BY <3>1, <3>2, <3>3
  <2> DEFINE la == Len(a)
             lb == Len(b)
             r == a \o b
  <2> HIDE DEF n, la, lb, r
  <2>3. /\ r \in Seq(Win) /\ Len(r) = la + lb
        /\ \A i \in 1 .. la + lb : r[i] = IF i <= la THEN a[i] ELSE b[i - la]
    BY <2>1 DEF la, lb, r
  <2>4. la + lb = n /\ la = k - 1
    BY <2>2 DEF la, lb
  <2> QED
    BY <2>3, <2>4 DEF r
<1>6. c = [i \in 1 .. n |-> IF i < k THEN s[i] ELSE s[i + 1]]
  BY DEF Cut
<1> DEFINE r == a \o b
<1> HIDE DEF c, r
<1>7. \A i \in 1 .. n : r[i] = c[i]
  <2> SUFFICES ASSUME NEW i \in 1 .. n PROVE r[i] = c[i]
    OBVIOUS
  <2>1. CASE i < k
    BY <1>1, <1>2, <1>5, <1>6, <2>1 DEF r
  <2>2. CASE i >= k
    <3>1. b[i - (k - 1)] = s[i + 1]
      BY <1>1, <1>3, <2>2
    <3> QED
      BY <1>1, <1>5, <1>6, <2>2, <3>1 DEF r
  <2> QED
    BY <1>1, <2>1, <2>2
<1>8. c = [i \in 1 .. n |-> c[i]]
  BY <1>6
<1>9. r = c
  <2>1. r \in Seq(Win) /\ Len(r) = n
    BY <1>5 DEF r
  <2> QED
    BY <2>1, <1>1, <1>7, <1>8, EqualSeqs
<1> QED
  BY <1>4, <1>9 DEF c, r

LEMMA InsertIsPut ==
    ASSUME NEW s \in Seq(Win), NEW h \in Win, NEW j \in 1 .. Len(s) + 1
    PROVE  Z!InsertAt(s, j, h) = Put(s, j, h)
<1> DEFINE a == SubSeq(s, 1, j - 1)
           b == SubSeq(s, j, Len(s))
           n == Len(s) + 1
           c == Put(s, j, h)
<1>1. Len(s) \in Nat /\ n \in Nat
  OBVIOUS
<1>2. a \in Seq(Win) /\ Len(a) = j - 1 /\ \A i \in 1 .. j - 1 : a[i] = s[i]
  BY Parts
<1>3. b \in Seq(Win) /\ Len(b) = Len(s) - j + 1 /\ \A i \in 1 .. Len(s) - j + 1 : b[i] = s[i + j - 1]
  BY Parts
<1>4. Z!InsertAt(s, j, h) = (a \o <<h>>) \o b
  BY DEF Z!InsertAt
<1> HIDE DEF a, b
<1> DEFINE d == a \o <<h>>
<1>5. <<h>> \in Seq(Win) /\ Len(<<h>>) = 1 /\ <<h>>[1] = h
  OBVIOUS
<1>6. d \in Seq(Win) /\ Len(d) = j /\ \A i \in 1 .. j : d[i] = IF i <= j - 1 THEN a[i] ELSE <<h>>[i - (j - 1)]
  BY <1>1, <1>2, <1>5, Catenated
<1>7. \A i \in 1 .. j : d[i] = IF i < j THEN s[i] ELSE h
  BY <1>1, <1>2, <1>5, <1>6
<1> HIDE DEF d
<1> DEFINE r == d \o b
<1>8. /\ r \in Seq(Win) /\ Len(r) = n
      /\ \A i \in 1 .. n : r[i] = IF i <= j THEN d[i] ELSE b[i - j]
  <2>1. /\ d \o b \in Seq(Win) /\ Len(d \o b) = Len(d) + Len(b)
        /\ \A i \in 1 .. Len(d) + Len(b) : (d \o b)[i] = IF i <= Len(d) THEN d[i] ELSE b[i - Len(d)]
    BY <1>3, <1>6, Catenated
  <2>2. Len(d) + Len(b) = n
    BY <1>1, <1>3, <1>6
  <2> QED
    BY <1>6, <2>1, <2>2
<1> HIDE DEF r
<1>9. c = [i \in 1 .. n |-> IF i < j THEN s[i] ELSE IF i = j THEN h ELSE s[i - 1]]
  BY DEF Put
<1> HIDE DEF c
<1>10. \A i \in 1 .. n : r[i] = c[i]
  <2> SUFFICES ASSUME NEW i \in 1 .. n PROVE r[i] = c[i]
    OBVIOUS
  <2>1. CASE i <= j
    <3>1. r[i] = d[i] /\ d[i] = IF i < j THEN s[i] ELSE h
      BY <1>1, <1>7, <1>8, <2>1
    <3> QED
      BY <1>1, <1>9, <2>1, <3>1
  <2>2. CASE i > j
    <3>1. b[i - j] = s[i - 1]
      BY <1>1, <1>3, <2>2
    <3> QED
      BY <1>1, <1>8, <1>9, <2>2, <3>1
  <2> QED
    BY <1>1, <2>1, <2>2
<1>11. c = [i \in 1 .. n |-> c[i]]
  BY <1>9
<1>12. r = c
  BY <1>1, <1>8, <1>10, <1>11, EqualSeqs
<1> QED
  BY <1>4, <1>12 DEF c, r, d

LEMMA EndsArePut ==
    ASSUME NEW s \in Seq(Win), NEW h \in Win
    PROVE  Append(s, h) = Put(s, Len(s) + 1, h) /\ <<h>> \o s = Put(s, 1, h)
<1> DEFINE n == Len(s) + 1
<1>1. Len(s) \in Nat /\ n \in Nat
  OBVIOUS
<1>2. Append(s, h) = Put(s, Len(s) + 1, h)
  <2> DEFINE r == Append(s, h)
             c == Put(s, Len(s) + 1, h)
  <2>1. r \in Seq(Win) /\ Len(r) = n /\ \A i \in 1 .. n : r[i] = IF i < n THEN s[i] ELSE h
    BY <1>1
  <2>2. c = [i \in 1 .. n |-> IF i < n THEN s[i] ELSE IF i = n THEN h ELSE s[i - 1]]
    BY DEF Put
  <2> HIDE DEF r, c
  <2>3. (\A i \in 1 .. n : r[i] = c[i]) /\ c = [i \in 1 .. n |-> c[i]]
    BY <1>1, <2>1, <2>2
  <2>4. r = c
    BY <1>1, <2>1, <2>3, EqualSeqs
  <2> QED
    BY <2>4 DEF r, c
<1>3. <<h>> \o s = Put(s, 1, h)
  <2> DEFINE r == <<h>> \o s
             c == Put(s, 1, h)
  <2>1. <<h>> \in Seq(Win) /\ Len(<<h>>) = 1 /\ <<h>>[1] = h
    OBVIOUS
  <2>2. r \in Seq(Win) /\ Len(r) = n /\ \A i \in 1 .. n : r[i] = IF i <= 1 THEN <<h>>[i] ELSE s[i - 1]
    BY <1>1, <2>1, Catenated
  <2>3. c = [i \in 1 .. n |-> IF i < 1 THEN s[i] ELSE IF i = 1 THEN h ELSE s[i - 1]]
    BY DEF Put
  <2> HIDE DEF r, c
  <2>4. (\A i \in 1 .. n : r[i] = c[i]) /\ c = [i \in 1 .. n |-> c[i]]
    BY <1>1, <2>1, <2>2, <2>3
  <2>5. r = c
    BY <1>1, <2>2, <2>4, EqualSeqs
  <2> QED
    BY <2>5 DEF r, c
<1> QED
  BY <1>2, <1>3

\* The order of the model, as that of lists C.
OrderOf(C, T) == [p \in {Root} \cup Win |-> IF p \in {Root} \cup T THEN C[p] ELSE <<>>]
OrderIs == \A C : Has(C, win, InTree) => Order = OrderOf(C, InTree)

LEMMA OrderFits ==
    ASSUME WindowsInv
    PROVE  OrderIs
<1> SUFFICES ASSUME NEW C, Has(C, win, InTree) PROVE Order = OrderOf(C, InTree)
  BY DEF OrderIs
<1>1. Now(C, {Root} \cup InTree, InTree)
  <2>1. Tree(obj, win, InTree, FreedIn(stack)) /\ InTree \subseteq KnownIn(obj)
    BY StateIs, TreeKnown DEF WindowsInv, Sound
  <2> QED
    BY <2>1, NowTree DEF Has
<1>2. \A p \in {Root} \cup InTree : Children(p) = C[p]
  BY <1>1, ChildrenAre
<1> QED
  BY <1>2 DEF Order, OrderOf

LEMMA OrderStep ==
    WindowsInv' => OrderIs'
<1>1. WindowsInv => OrderIs
  BY OrderFits
<1> QED
  BY <1>1, PTL

----------------------------------------------------------------------------
(* What the steps do, of orders B and B2 *)

InOrder(B) == UNION {Z!ToSet(B[p]) : p \in Win \cup {Root}}
AbsCreate(B, B2, h, p) ==
    h \notin InOrder(B) /\ B[h] = <<>> /\ B2 = [B EXCEPT ![p] = Append(@, h)]
AbsMove(B, B2, h, p, q) ==
    \E i \in DOMAIN B[p] : /\ B[p][i] = h
                           /\ B2 = [B EXCEPT ![p] = Z!RemoveAt(@, i), ![q] = <<h>> \o @]
AbsPlace(B, B2, h, p) ==
    \E i \in DOMAIN B[p] :
        /\ B[p][i] = h
        /\ \E j \in DOMAIN B[p] : B2 = [B EXCEPT ![p] = Z!InsertAt(Z!RemoveAt(@, i), j, h)]
AbsDestroy(B, B2, h, p) ==
    \E i \in DOMAIN B[p] : B[p][i] = h /\ B2 = [B EXCEPT ![p] = Z!RemoveAt(@, i), ![h] = <<>>]
AbsPerish(B, B2, h) == h \notin InOrder(B) /\ B2 = [B EXCEPT ![h] = <<>>]
AbsNext(B, B2) ==
    \/ B2 = B
    \/ \E h \in Win :
          \/ \E p \in Win \cup {Root} : \/ AbsCreate(B, B2, h, p) \/ AbsPlace(B, B2, h, p)
                                        \/ AbsDestroy(B, B2, h, p)
          \/ \E p, q \in Win \cup {Root} : AbsMove(B, B2, h, p, q)
          \/ AbsPerish(B, B2, h)

\* B is the order of the lists there are.
Reads(B, W, T) == \A C : Has(C, W, T) => B = OrderOf(C, T)

\* p of the order B, or of the lists C of a tree T, is given the list s.
With(B, p, s) == [x \in Window |-> IF x = p THEN s ELSE B[x]]
IsPut(C, C2, T, p, s) ==
    /\ T \subseteq Win /\ C \in [{Root} \cup T -> Seq(Win)] /\ p \in {Root} \cup T /\ s \in Seq(Win)
    /\ C2 = [C EXCEPT ![p] = s]
IsOrdered(C, C2, T, p, s) ==
    /\ C2 \in [{Root} \cup T -> Seq(Win)]
    /\ OrderOf(C2, T) = With(OrderOf(C, T), p, s)

LEMMA OrderPut ==
    ASSUME NEW T, NEW C, NEW C2, NEW p, NEW s, IsPut(C, C2, T, p, s)
    PROVE  IsOrdered(C, C2, T, p, s)
BY DEF IsPut, IsOrdered, OrderOf, With, Window

LEMMA OrderAt ==
    ASSUME NEW T, T \subseteq Win, NEW C, NEW p \in {Root} \cup T
    PROVE  OrderOf(C, T)[p] = C[p] /\ p \in Window
BY DEF OrderOf, Window

\* An order is a function: what EXCEPT makes of it.
LEMMA Excepts ==
    ASSUME NEW B, B = [x \in Window |-> B[x]], NEW p \in Window, NEW s, NEW q \in Window, NEW r
    PROVE  /\ [B EXCEPT ![p] = s] = With(B, p, s)
           /\ [B EXCEPT ![p] = s, ![q] = r] = With(With(B, p, s), q, r)
<1>1. [B EXCEPT ![p] = s] = With(B, p, s)
  BY DEF With
<1>2. [With(B, p, s) EXCEPT ![q] = r] = With(With(B, p, s), q, r)
  BY DEF With
<1> QED
  BY <1>1, <1>2

LEMMA OrderWhole ==
    ASSUME NEW C, NEW T, NEW B, B = OrderOf(C, T)
    PROVE  B = [x \in Window |-> B[x]]
BY DEF OrderOf, Window

LEMMA HasIs ==
    ASSUME NEW T, T \subseteq Win, NEW C, NEW W, Has(C, W, T)
    PROVE  /\ C \in [{Root} \cup T -> Seq(Win)]
           /\ \A p \in {Root} \cup T : C[p] \in Seq(Win) /\ IsInjective(C[p]) /\ Elements(C[p]) = Members(W, T, p)
BY DEF Has, Lists, Chain

LEMMA InOrderIs ==
    ASSUME NEW T, T \subseteq Win, NEW C, NEW W, Has(C, W, T), NEW h \in InOrder(OrderOf(C, T))
    PROVE  h \in T /\ ParentIn(W, h) \in {Root} \cup T
<1> DEFINE B == OrderOf(C, T)
<1>1. PICK p \in Win \cup {Root} : h \in Z!ToSet(B[p])
  BY DEF InOrder
<1>2. \E i \in DOMAIN B[p] : B[p][i] = h
  BY <1>1 DEF Z!ToSet
<1>3. p \in {Root} \cup T /\ B[p] = C[p]
  BY <1>2 DEF OrderOf
<1>4. h \in Members(W, T, p)
  <2>1. Elements(C[p]) = Members(W, T, p)
    BY <1>3 DEF Has, Lists
  <2> QED
    BY <1>2, <1>3, <2>1 DEF Elements
<1> QED
  BY <1>3, <1>4 DEF Members

\* Each kind of change is an action of ZOrder.
LEMMA PlacedAbs ==
    ASSUME NEW W, NEW R, NEW T, T \subseteq Win, NEW h \in Win, Placed(W, R, T, h),
           NEW B, Reads(B, W, T), NEW B2, Reads(B2, R, T)
    PROVE  AbsNext(B, B2)
<1>1. PICK C : /\ Has(C, W, T)
               /\ \/ Has(C, R, T)
                  \/ \E p \in {Root} \cup T : \E k \in DOMAIN C[p], j \in DOMAIN C[p] :
                        C[p][k] = h /\ Has(Replaced(C, p, k, j, h), R, T)
  BY DEF Placed
<1>2. B = OrderOf(C, T)
  BY <1>1 DEF Reads
<1>3. CASE Has(C, R, T)
  BY <1>2, <1>3 DEF Reads, AbsNext
<1>4. CASE \E p \in {Root} \cup T : \E k \in DOMAIN C[p], j \in DOMAIN C[p] :
              C[p][k] = h /\ Has(Replaced(C, p, k, j, h), R, T)
  <2>1. PICK p \in {Root} \cup T : \E k \in DOMAIN C[p], j \in DOMAIN C[p] :
              C[p][k] = h /\ Has(Replaced(C, p, k, j, h), R, T)
    BY <1>4
  <2>2. PICK k \in DOMAIN C[p], j \in DOMAIN C[p] : C[p][k] = h /\ Has(Replaced(C, p, k, j, h), R, T)
    BY <2>1
  <2> DEFINE c == Cut(C[p], k)
             d == Put(c, j, h)
             C1 == [C EXCEPT ![p] = c]
  <2>3. C \in [{Root} \cup T -> Seq(Win)] /\ C[p] \in Seq(Win) /\ IsInjective(C[p])
    BY <1>1, HasIs
  <2>4. c \in Seq(Win) /\ IsInjective(c) /\ Len(c) = Len(C[p]) - 1 /\ h \notin Elements(c)
        /\ Z!RemoveAt(C[p], k) = c
    BY <2>2, <2>3, CutSeq, RemoveIsCut
  <2>5. Len(c) + 1 = Len(C[p]) /\ j \in 1 .. Len(c) + 1
    BY <2>3, <2>4
  <2>6. d \in Seq(Win) /\ Z!InsertAt(c, j, h) = d
    BY <2>4, <2>5, PutSeq, InsertIsPut
  <2>7. Replaced(C, p, k, j, h) = [C1 EXCEPT ![p] = d]
    BY <2>3 DEF Replaced, PutAt, CutAt
  <2> HIDE DEF c, d
  <2>8. B2 = OrderOf([C1 EXCEPT ![p] = d], T)
    BY <2>2, <2>7 DEF Reads
  <2>9. IsOrdered(C, C1, T, p, c)
    BY <2>3, <2>4, OrderPut DEF IsPut
  <2> DEFINE C2 == [C1 EXCEPT ![p] = d]
  <2>10. IsOrdered(C1, C2, T, p, d)
    <3>1. IsPut(C1, C2, T, p, d)
      BY <2>6, <2>9 DEF IsPut, IsOrdered
    <3> QED
      BY <3>1, OrderPut
  <2>11. B2 = With(With(B, p, c), p, d)
    BY <1>2, <2>8, <2>9, <2>10 DEF IsOrdered
  <2>12. B2 = [B EXCEPT ![p] = Z!InsertAt(Z!RemoveAt(B[p], k), j, h)] /\ B[p] = C[p]
    <3>1. B = [x \in Window |-> B[x]] /\ p \in Window /\ B[p] = C[p]
      BY <1>2, OrderWhole, OrderAt
    <3>2. B2 = With(B, p, d)
      BY <2>11 DEF With
    <3>3. [B EXCEPT ![p] = d] = With(B, p, d)
      BY <3>1, Excepts
    <3> QED
      BY <2>4, <2>6, <3>1, <3>2, <3>3
  <2>13. AbsPlace(B, B2, h, p)
    BY <2>2, <2>12 DEF AbsPlace
  <2> QED
    BY <2>13 DEF AbsNext
<1> QED
  BY <1>1, <1>3, <1>4

LEMMA RelocatedAbs ==
    ASSUME NEW W, NEW R, NEW T, T \subseteq Win, NEW h \in Win, Relocated(W, R, T, h),
           NEW B, Reads(B, W, T), NEW B2, Reads(B2, R, T)
    PROVE  AbsNext(B, B2)
<1>1. PICK C : /\ Has(C, W, T)
               /\ \E p \in {Root} \cup T, q \in {Root} \cup T : \E k \in DOMAIN C[p] :
                     C[p][k] = h /\ p # q /\ Has(PutAt(CutAt(C, p, k), q, 1, h), R, T)
  BY DEF Relocated
<1>2. B = OrderOf(C, T)
  BY <1>1 DEF Reads
<1>3. PICK p \in {Root} \cup T, q \in {Root} \cup T : \E k \in DOMAIN C[p] :
         C[p][k] = h /\ p # q /\ Has(PutAt(CutAt(C, p, k), q, 1, h), R, T)
  BY <1>1
<1>4. PICK k \in DOMAIN C[p] : C[p][k] = h /\ p # q /\ Has(PutAt(CutAt(C, p, k), q, 1, h), R, T)
  BY <1>3
<1> DEFINE c == Cut(C[p], k)
           d == Put(C[q], 1, h)
           C1 == [C EXCEPT ![p] = c]
<1>5. C \in [{Root} \cup T -> Seq(Win)] /\ C[p] \in Seq(Win) /\ IsInjective(C[p]) /\ C[q] \in Seq(Win)
  BY <1>1, HasIs
<1>6. c \in Seq(Win) /\ Z!RemoveAt(C[p], k) = c
  BY <1>4, <1>5, CutSeq, RemoveIsCut
<1>7. PutAt(CutAt(C, p, k), q, 1, h) = [C1 EXCEPT ![q] = d]
  BY <1>4, <1>5 DEF PutAt, CutAt
<1>8. d \in Seq(Win) /\ <<h>> \o C[q] = d
  <2>1. <<h>> \o C[q] = d
    BY <1>5, EndsArePut
  <2>2. <<h>> \o C[q] \in Seq(Win)
    BY <1>5
  <2> QED
    BY <2>1, <2>2
<1> HIDE DEF c, d
<1>9. B2 = OrderOf([C1 EXCEPT ![q] = d], T)
  BY <1>4, <1>7 DEF Reads
<1>10. IsOrdered(C, C1, T, p, c)
  BY <1>5, <1>6, OrderPut DEF IsPut
<1> DEFINE C2 == [C1 EXCEPT ![q] = d]
<1>11. IsOrdered(C1, C2, T, q, d)
  <2>1. IsPut(C1, C2, T, q, d)
    BY <1>8, <1>10 DEF IsPut, IsOrdered
  <2> QED
    BY <2>1, OrderPut
<1>12. B[p] = C[p] /\ B[q] = C[q] /\ p \in Window /\ q \in Window
  BY <1>2, OrderAt
<1>13. B2 = With(With(B, p, c), q, d)
  BY <1>2, <1>9, <1>10, <1>11 DEF IsOrdered
<1>14. B2 = [B EXCEPT ![p] = Z!RemoveAt(@, k), ![q] = <<h>> \o @]
  <2>1. B = [x \in Window |-> B[x]]
    BY <1>2, OrderWhole
  <2>2. [B EXCEPT ![p] = c, ![q] = d] = B2
    BY <1>12, <1>13, <2>1, Excepts
  <2>3. [B EXCEPT ![p] = c][q] = B[q]
    BY <1>4
  <2> QED
    BY <1>6, <1>8, <1>12, <2>2, <2>3
<1>15. AbsMove(B, B2, h, p, q)
  BY <1>4, <1>12, <1>14 DEF AbsMove
<1> QED
  BY <1>15 DEF AbsNext

LEMMA AddedAbs ==
    ASSUME NEW W, NEW R, NEW T, T \subseteq Win, NEW h \in Win, Added(W, R, T, h),
           NEW B, Reads(B, W, T), NEW B2, Reads(B2, R, T \cup {h})
    PROVE  AbsNext(B, B2)
<1> DEFINE P == {Root} \cup T
           T2 == T \cup {h}
<1>1. PICK C : /\ Has(C, W, T)
               /\ \E p \in P : Has(PutAt(Widened(C, P, h), p, Len(C[p]) + 1, h), R, T2)
  BY DEF Added
<1>2. B = OrderOf(C, T) /\ h \notin T
  BY <1>1 DEF Reads, Added
<1>3. PICK p \in P : Has(PutAt(Widened(C, P, h), p, Len(C[p]) + 1, h), R, T2)
  BY <1>1
<1> DEFINE C1 == Widened(C, P, h)
           d == Put(C[p], Len(C[p]) + 1, h)
<1>4. C \in [P -> Seq(Win)] /\ C[p] \in Seq(Win)
  BY <1>1, HasIs
<1>5. p # h /\ h \notin P
  BY <1>2, Handles
<1>6. /\ C1 \in [{Root} \cup T2 -> Seq(Win)] /\ C1[p] = C[p] /\ OrderOf(C1, T2) = B
      /\ p \in {Root} \cup T2 /\ T2 \subseteq Win
  <2>1. <<>> \in Seq(Win)
    OBVIOUS
  <2>2. C1 \in [{Root} \cup T2 -> Seq(Win)] /\ C1[p] = C[p]
    BY <1>4, <1>5, <2>1 DEF Widened
  <2>3. \A q \in P : C1[q] = C[q]
    BY <1>5 DEF Widened
  <2>4. C1[h] = <<>>
    BY DEF Widened
  <2>5. OrderOf(C1, T2) = B
    BY <1>2, <2>3, <2>4 DEF OrderOf
  <2> QED
    BY <2>2, <2>5
<1> HIDE DEF C1
<1>7. d \in Seq(Win) /\ Append(C[p], h) = d
  <2>1. Append(C[p], h) = d
    BY <1>4, EndsArePut
  <2>2. Append(C[p], h) \in Seq(Win)
    BY <1>4
  <2> QED
    BY <2>1, <2>2
<1>8. PutAt(C1, p, Len(C[p]) + 1, h) = [C1 EXCEPT ![p] = d]
  BY <1>6 DEF PutAt
<1> HIDE DEF d, T2
<1>9. B2 = OrderOf([C1 EXCEPT ![p] = d], T2)
  BY <1>3, <1>8 DEF Reads, C1, T2
<1>10. B2 = [B EXCEPT ![p] = d] /\ B[p] = C[p]
  <2> DEFINE C2 == [C1 EXCEPT ![p] = d]
  <2>1. IsOrdered(C1, C2, T2, p, d)
    BY <1>6, <1>7, OrderPut DEF IsPut
  <2>2. B2 = With(B, p, d)
    BY <1>6, <1>9, <2>1 DEF IsOrdered
  <2>3. B = [x \in Window |-> B[x]] /\ p \in Window /\ B[p] = C[p]
    BY <1>2, OrderWhole, OrderAt
  <2> QED
    BY <2>2, <2>3, Excepts
<1>11. B[h] = <<>> /\ h \notin InOrder(B)
  <2>1. B[h] = <<>>
    BY <1>2, <1>5 DEF OrderOf
  <2> QED
    BY <1>1, <1>2, <2>1, InOrderIs
<1>12. B2 = [B EXCEPT ![p] = Append(@, h)]
  BY <1>7, <1>10
<1>13. AbsCreate(B, B2, h, p)
  BY <1>11, <1>12 DEF AbsCreate
<1> QED
  BY <1>13 DEF AbsNext

\* The lists of a smaller tree.
LEMMA OrderLess ==
    ASSUME NEW T, T \subseteq Win, NEW D, NEW h \in T
    PROVE  OrderOf([q \in {Root} \cup (T \ {h}) |-> D[q]], T \ {h}) = With(OrderOf(D, T), h, <<>>)
<1>1. h \in Win /\ h # Root
  BY Handles
<1> QED
  BY <1>1 DEF OrderOf, With, Window

LEMMA RemovedAbs ==
    ASSUME NEW W, NEW R, NEW T, T \subseteq Win, NEW h \in T, Removed(W, R, T, h),
           NEW B, Reads(B, W, T), NEW B2, Reads(B2, R, T \ {h})
    PROVE  AbsNext(B, B2)
<1>1. PICK C : /\ Has(C, W, T)
               /\ \E p \in {Root} \cup T : \E k \in DOMAIN C[p] :
                     C[p][k] = h /\ HasOf(CutAt(C, p, k), R, T \ {h})
  BY DEF Removed
<1>2. B = OrderOf(C, T)
  BY <1>1 DEF Reads
<1>3. PICK p \in {Root} \cup T : \E k \in DOMAIN C[p] : C[p][k] = h /\ HasOf(CutAt(C, p, k), R, T \ {h})
  BY <1>1
<1>4. PICK k \in DOMAIN C[p] : C[p][k] = h /\ HasOf(CutAt(C, p, k), R, T \ {h})
  BY <1>3
<1> DEFINE c == Cut(C[p], k)
           C1 == [C EXCEPT ![p] = c]
<1>5. C \in [{Root} \cup T -> Seq(Win)] /\ C[p] \in Seq(Win) /\ IsInjective(C[p])
  BY <1>1, HasIs
<1>6. c \in Seq(Win) /\ Z!RemoveAt(C[p], k) = c
  BY <1>4, <1>5, CutSeq, RemoveIsCut
<1>7. CutAt(C, p, k) = C1
  BY DEF CutAt
<1> HIDE DEF c
<1>8. B2 = OrderOf([q \in {Root} \cup (T \ {h}) |-> C1[q]], T \ {h})
  <2>1. Has([q \in {Root} \cup (T \ {h}) |-> C1[q]], R, T \ {h})
    BY <1>4, <1>7 DEF HasOf
  <2> QED
    BY <2>1 DEF Reads
<1>9. B2 = With(OrderOf(C1, T), h, <<>>)
  BY <1>8, OrderLess
<1>10. IsOrdered(C, C1, T, p, c)
  BY <1>5, <1>6, OrderPut DEF IsPut
<1>11. B2 = With(With(B, p, c), h, <<>>) /\ B[p] = C[p]
  BY <1>2, <1>9, <1>10, OrderAt DEF IsOrdered
<1>12. B2 = [B EXCEPT ![p] = Z!RemoveAt(@, k), ![h] = <<>>]
  <2>1. B = [x \in Window |-> B[x]] /\ p \in Window /\ h \in Window
    BY <1>2, OrderWhole, OrderAt DEF Window
  <2>2. [B EXCEPT ![p] = c, ![h] = <<>>] = B2
    BY <1>11, <2>1, Excepts
  <2> QED
    BY <1>6, <1>11, <2>2
<1>13. AbsDestroy(B, B2, h, p)
  BY <1>4, <1>11, <1>12 DEF AbsDestroy
<1> QED
  BY <1>13 DEF AbsNext

LEMMA PerishedAbs ==
    ASSUME NEW W, NEW T, T \subseteq Win, NEW h \in T, Perished(W, T, h),
           NEW B, Reads(B, W, T), NEW B2, Reads(B2, W, T \ {h})
    PROVE  AbsNext(B, B2)
<1>1. PICK D : Has(D, W, T) /\ HasOf(D, W, T \ {h})
  BY DEF Perished
<1>2. B = OrderOf(D, T)
  BY <1>1 DEF Reads
<1>3. B2 = OrderOf([q \in {Root} \cup (T \ {h}) |-> D[q]], T \ {h})
  BY <1>1 DEF Reads, HasOf
<1>4. B2 = [B EXCEPT ![h] = <<>>]
  <2>1. B = [x \in Window |-> B[x]] /\ h \in Window
    BY <1>2, OrderWhole DEF Window
  <2>2. B2 = With(B, h, <<>>)
    BY <1>2, <1>3, OrderLess
  <2> QED
    BY <2>1, <2>2, Excepts
<1>5. h \notin InOrder(B)
  BY <1>1, <1>2, InOrderIs DEF Perished
<1> QED
  BY <1>4, <1>5 DEF AbsPerish, AbsNext

LEMMA ChangeAbs ==
    ASSUME NEW W, NEW R, NEW T, T \subseteq Win, NEW T2, Change(W, T, R, T2), NEW C0, Has(C0, W, T),
           NEW B, Reads(B, W, T), NEW B2, Reads(B2, R, T2)
    PROVE  AbsNext(B, B2)
<1>1. CASE Quiet(W, T, R, T2)
  <2>1. T2 = T /\ Has(C0, R, T)
    BY <1>1 DEF Quiet
  <2> QED
    BY <2>1 DEF Reads, AbsNext
<1>2. ASSUME NEW h \in Win,
             \/ T2 = T /\ Placed(W, R, T, h)
             \/ T2 = T /\ Relocated(W, R, T, h)
             \/ T2 = T \cup {h} /\ Added(W, R, T, h)
             \/ T2 = T \ {h} /\ Removed(W, R, T, h)
             \/ T2 = T \ {h} /\ R = W /\ Perished(W, T, h)
      PROVE  AbsNext(B, B2)
  <2>1. CASE T2 = T /\ Placed(W, R, T, h)
    BY <2>1, PlacedAbs
  <2>2. CASE T2 = T /\ Relocated(W, R, T, h)
    BY <2>2, RelocatedAbs
  <2>3. CASE T2 = T \cup {h} /\ Added(W, R, T, h)
    BY <2>3, AddedAbs
  <2>4. CASE T2 = T \ {h} /\ Removed(W, R, T, h)
    <3>1. h \in T
      <4>1. PICK C : Has(C, W, T) /\ \E p \in {Root} \cup T : \E k \in DOMAIN C[p] : C[p][k] = h
        BY <2>4 DEF Removed
      <4>2. PICK p \in {Root} \cup T : \E k \in DOMAIN C[p] : C[p][k] = h
        BY <4>1
      <4>3. h \in Elements(C[p])
        BY <4>2 DEF Elements
      <4>4. Elements(C[p]) = Members(W, T, p)
        BY <4>1 DEF Has, Lists
      <4> QED
        BY <4>3, <4>4 DEF Members
    <3> QED
      BY <2>4, <3>1, RemovedAbs
  <2>5. CASE T2 = T \ {h} /\ R = W /\ Perished(W, T, h)
    <3>1. h \in T
      BY <2>5 DEF Perished
    <3> QED
      BY <2>5, <3>1, PerishedAbs
  <2> QED
    BY <1>2, <2>1, <2>2, <2>3, <2>4, <2>5
<1> QED
  BY <1>1, <1>2 DEF Change

\* A step of the order is one of ZOrder.
LEMMA AbsIsNext ==
    ASSUME AbsNext(Order, Order')
    PROVE  [Z!Next]_Order
<1> SUFFICES ASSUME Order' # Order PROVE Z!Next
  OBVIOUS
<1>1. PICK h \in Win :
          \/ \E p \in Win \cup {Root} : \/ AbsCreate(Order, Order', h, p) \/ AbsPlace(Order, Order', h, p)
                                        \/ AbsDestroy(Order, Order', h, p)
          \/ \E p, q \in Win \cup {Root} : AbsMove(Order, Order', h, p, q)
          \/ AbsPerish(Order, Order', h)
  BY DEF AbsNext
<1>2. Z!Parents = Win \cup {Root}
  BY DEF Z!Parents
<1>3. Z!Listed = InOrder(Order)
  BY DEF Z!Listed, Z!Parents, InOrder
<1>4. \A p : AbsCreate(Order, Order', h, p) => Z!Create(h, p)
  BY <1>3 DEF AbsCreate, Z!Create
<1>5. \A p : AbsPlace(Order, Order', h, p) => Z!Place(h, p)
  BY DEF AbsPlace, Z!Place
<1>6. \A p : AbsDestroy(Order, Order', h, p) => Z!Destroy(h, p)
  BY DEF AbsDestroy, Z!Destroy
<1>7. \A p, q : AbsMove(Order, Order', h, p, q) => Z!Move(h, p, q)
  BY DEF AbsMove, Z!Move
<1>8. AbsPerish(Order, Order', h) => Z!Perish(h)
  BY <1>3 DEF AbsPerish, Z!Perish
<1>9. \E x \in Win : \/ \E p \in Z!Parents : Z!Create(x, p) \/ Z!Place(x, p) \/ Z!Destroy(x, p)
                     \/ \E p, q \in Z!Parents : Z!Move(x, p, q)
                     \/ Z!Perish(x)
  BY <1>1, <1>2, <1>4, <1>5, <1>6, <1>7, <1>8
<1> QED
  BY <1>9 DEF Z!Next

LEMMA OrderReads ==
    OrderIs <=> Reads(Order, win, InTree)
BY DEF OrderIs, Reads

LEMMA TreeStep ==
    InTree' = TreeIn(obj', stack')
<1>1. Known' = KnownIn(obj') /\ Entering' = EnteringIn(stack') /\ About({"FreeWindow"})' = FreedIn(stack')
  BY DEF Known, KnownIn, Entering, EnteringIn, IsEntering, About, FreedIn
<1> QED
  BY <1>1 DEF InTree, TreeIn

\* Every step is one of ZOrder, or changes no order.
LEMMA StepOrders ==
    ASSUME Decent, WindowsInv, WindowsInv', [Next]_vars
    PROVE  [Z!Next]_Order
<1>1. Kept \/ UNCHANGED vars
  BY StepInv
<1>2. CASE UNCHANGED vars
  <2>1. obj' = obj /\ win' = win /\ stack' = stack
    BY <1>2 DEF vars, tree
  <2>2. Order' = Order
    BY <2>1 DEF Order, InTree, Known, Entering, About, Children, From, IsWindow
  <2> QED
    BY <2>2
<1>3. CASE Kept
  <2>1. Reads(Order, win, InTree)
    BY OrderFits, OrderReads
  <2>2. Reads(Order', win', InTree')
    BY OrderStep DEF OrderIs, Reads
  <2>3. PICK C : Has(C, win, InTree) /\ InTree = TreeIn(obj, stack) /\ InTree \subseteq Win
    BY ListsNow
  <2>4. InTree' = TreeIn(obj', stack')
    BY TreeStep
  <2>5. Change(win, InTree, win', InTree')
    BY <1>3, <2>3, <2>4 DEF Kept
  <2> QED
    BY <2>1, <2>2, <2>3, <2>5, ChangeAbs, AbsIsNext
<1> QED
  BY <1>1, <1>2, <1>3

\* At first every order is empty.
LEMMA InitOrders ==
    ASSUME Init
    PROVE  Z!Init
<1>1. InTree = {} /\ Children(Root) = <<>>
  <2>1. InTree = {}
    BY DEF Init, InTree, Known
  <2>2. WindowsInv
    BY InitSound
  <2>3. PICK C : Now(C, {Root} \cup InTree, InTree)
    BY <2>2, ListsNow
  <2>4. Children(Root) = C[Root] /\ C[Root] \in Seq(Win) /\ Elements(C[Root]) = Members(win, InTree, Root)
    BY <2>3, ChildrenAre
  <2>5. Elements(C[Root]) = {}
    BY <2>1, <2>4 DEF Members
  <2>6. C[Root] = <<>>
    <3>1. \A i \in DOMAIN C[Root] : C[Root][i] \in Elements(C[Root])
      BY DEF Elements
    <3> DEFINE s == C[Root]
    <3>2. s \in Seq(Win) /\ \A i \in DOMAIN s : FALSE
      BY <2>4, <2>5, <3>1
    <3> HIDE DEF s
    <3>3. s = <<>>
      <4>1. Len(s) \in Nat /\ DOMAIN s = 1 .. Len(s)
        BY <3>2
      <4>2. 1 \notin 1 .. Len(s)
        BY <3>2, <4>1
      <4>3. Len(s) = 0
        BY <4>1, <4>2
      <4> QED
        BY <3>2, <4>3
    <3> QED
      BY <3>3 DEF s
  <2> QED
    BY <2>1, <2>4, <2>6
<1> QED
  BY <1>1 DEF Z!Init, Z!Parents, Order

\* The links implement one ordered list per window.
THEOREM LinksImplementOrder ==
    ASSUME Decent
    PROVE  Spec => ImplementsZOrder
<1>1. Init => Z!Init
  BY InitOrders
<1>2. WindowsInv /\ WindowsInv' /\ [Next]_vars => [Z!Next]_Order
  BY StepOrders
<1>3. Spec => []WindowsInv
  BY Keeps
<1> QED
  BY <1>1, <1>2, <1>3, PTL DEF Spec, ImplementsZOrder, Z!Spec

=============================================================================
