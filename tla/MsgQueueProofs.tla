--------------------------- MODULE MsgQueueProofs ---------------------------
(***************************************************************************)
(* The inductive invariants of the message queues and of the searches in   *)
(* them, and the theorems that follow, for any number of tasks, windows,   *)
(* nodes and messages.                                                     *)
(***************************************************************************)
EXTENDS MsgQueue, FiniteSetsExt, FiniteSetTheorems, TLAPS, SequenceTheorems

----------------------------------------------------------------------------
(* Sets of numbers *)

\* A set of natural numbers that is not empty has a smallest element.
LEMMA MinNat ==
    ASSUME NEW S, S \subseteq Nat, S # {}
    PROVE  Min(S) \in S /\ \A y \in S : Min(S) <= y
<1>1. PICK x \in S : \A y \in S : ~ (<<y, x>> \in OpToRel(<, Nat))
  BY NatLessThanWellFounded, WFMin
<1>2. \A y \in S : ~ (y < x)
  BY <1>1, Zenon DEF OpToRel
<1>3. \A y \in S : x <= y
  BY <1>2
<1> QED
  BY <1>3 DEF Min

----------------------------------------------------------------------------
Types == /\ NameAssumption /\ OwnerAssumption /\ SizeAssumption
         /\ ChildAssumption /\ InputAssumption /\ RequestAssumption

----------------------------------------------------------------------------
\* Lists of nodes

\* The nodes of s and what follows them: nothing after the last.
Place(s, i) == IF i \in 1 .. Len(s) THEN s[i] ELSE Null
Image(s) == {s[i] : i \in 1 .. Len(s)}
Once(s) == \A i, j \in 1 .. Len(s) : s[i] = s[j] => i = j

\* A queue of N nodes.
Block(N) == [lpQueueNext : 0 .. N, lpQueueFree : 0 .. N, lpNextMsg : [1 .. N -> 0 .. N],
             Message : [1 .. N -> 0 .. MaxMsgs]]

\* The links from start on lead through s.
Linked(Q, start, s) ==
    /\ start = Place(s, 1)
    /\ \A i \in 1 .. Len(s) : Q.lpNextMsg[s[i]] = Place(s, i + 1)

\* Its nodes are those of the queue, u, and the free ones, f.
Lists(Q, N, u, f) ==
    /\ u \in Seq(1 .. N) /\ f \in Seq(1 .. N)
    /\ Once(u) /\ Once(f)
    /\ Image(u) \cap Image(f) = {} /\ Image(u) \cup Image(f) = 1 .. N
    /\ Linked(Q, Q.lpQueueNext, u) /\ Linked(Q, Q.lpQueueFree, f)

Used(Q) == Chain(Q, Q.lpQueueNext)
Spare(Q) == Chain(Q, Q.lpQueueFree)

Sound(Q, N) == Q \in Block(N) /\ Lists(Q, N, Used(Q), Spare(Q))

----------------------------------------------------------------------------
\* The invariants

\* A search, and the node it is at.
SearchOK(s) == /\ s \in Scan
               /\ {s.lpQueueMsg, s.lpQueueNext} \subseteq 0 .. Size[s.queue]
               /\ s.at = "Forward" => s.lpQueueMsg # Null

Sent == [id : 1 .. MaxMsgs, hwnd : Window \cup {NoWindow}, kind : Kind, receiver : Task]

QueuesOK == DOMAIN queue = Queue /\ \A q \in Queue : Sound(queue[q], Size[q])
ScansOK == scans \in Seq(Scan) /\ \A i \in 1 .. Len(scans) : SearchOK(scans[i])
RestOK == /\ window \in [Window -> {"live", "disabled", "dead", "gone"}]
          /\ sent \in Seq(Sent) /\ Len(sent) <= MaxMsgs
          /\ taken \in [1 .. MaxMsgs -> Task \cup {Nobody}]
          /\ crashed \in BOOLEAN

\* Whatever window procedures do.
LinkInv == QueuesOK /\ ScansOK /\ RestOK

\* The number of the i-th message in a queue.
Num(Q, i) == Q.Message[Used(Q)[i]]
Spots(Q) == 1 .. Len(Used(Q))

\* Messages have their own numbers; those of the mouse are for windows.
SentOK == \A n \in 1 .. Len(sent) :
             sent[n].id = n /\ (sent[n].kind = "mouse" => sent[n].hwnd # NoWindow)

\* A message in a queue was sent and is not taken, and it is in no other place.
HeldSent ==
    \A q \in Queue : \A i \in Spots(queue[q]) :
        Num(queue[q], i) \in 1 .. Len(sent) /\ taken[Num(queue[q], i)] = Nobody
HeldOnce ==
    \A p, q \in Queue : \A i \in Spots(queue[p]), j \in Spots(queue[q]) :
        Num(queue[p], i) = Num(queue[q], j) => p = q /\ i = j
TakenSent == \A n \in 1 .. MaxMsgs : taken[n] # Nobody => n <= Len(sent)

\* What a task's queue has for a window is for one of its own.
OwnQueues ==
    \A q \in Task : \A i \in Spots(queue[q]) :
        LET m == sent[Num(queue[q], i)] IN m.hwnd # NoWindow => Owner[m.hwnd] = q

\* Keys and posted messages are in the order they came.
Ordered == {"key", "other"}
InTurn ==
    \A q \in Queue : \A i, j \in Spots(queue[q]) :
        /\ sent[Num(queue[q], i)].kind \in Ordered /\ sent[Num(queue[q], j)].kind \in Ordered
        /\ i < j
        => Num(queue[q], i) < Num(queue[q], j)

HeldInv == SentOK /\ HeldSent /\ HeldOnce /\ TakenSent /\ OwnQueues /\ InTurn

\* Whatever becomes of windows, the search s passes over the message m.
Passes(s, m) ==
    \/ m.kind \notin s.kinds
    \/ s.hwnd # NoWindow /\ m.hwnd \notin {NoWindow, s.hwnd} /\ m.hwnd \notin Below[s.hwnd]
    \/ m.hwnd # NoWindow /\ Owner[m.hwnd] # s.task

\* The search s is at the k-th node of its queue Q; if it removes what it finds, it has
\* passed over what is before.
AtSpot(s, Q, k, msgs) ==
    /\ k \in Spots(Q) /\ Used(Q)[k] = s.lpQueueMsg
    /\ s.remove => \A i \in 1 .. k - 1 :
          msgs[Num(Q, i)].kind \in Ordered => Passes(s, msgs[Num(Q, i)])

\* While procedures run it is at a mouse message in the system queue.
Asking(s, Q, msgs) ==
    /\ s.queue = System
    /\ Q.Message[s.lpQueueMsg] = s.id /\ msgs[s.id].kind = "mouse"
    /\ s.lpQueueNext \in {Q.lpNextMsg[s.lpQueueMsg], Null}

Scanning(s, Q, msgs) ==
    /\ s.lpQueueMsg # Null => \E k \in Spots(Q) : AtSpot(s, Q, k, msgs)
    /\ s.at = "Forward" => Asking(s, Q, msgs)

ScanInv ==
    /\ Len(scans) <= 1 /\ ~crashed
    /\ \A i \in 1 .. Len(scans) : Scanning(scans[i], queue[scans[i].queue], sent)

IInv == LinkInv /\ HeldInv /\ ScanInv

----------------------------------------------------------------------------
\* Lemmas about sequences and chains

LEMMA FunSeq ==
    ASSUME NEW S, NEW n \in Nat, NEW f \in [1 .. n -> S]
    PROVE  f \in Seq(S) /\ Len(f) = n
<1>1. f \in Seq(S)
  BY SeqDef
<1>2. Len(f) \in Nat /\ DOMAIN f = 1 .. Len(f)
  BY <1>1, LenProperties
<1>3. 1 .. n = 1 .. Len(f)
  BY <1>2
<1>4. Len(f) = n
  BY <1>2, <1>3
<1> QED
  BY <1>1, <1>4

LEMMA CountTo ==
    ASSUME NEW n \in Nat
    PROVE  IsFiniteSet(1 .. n) /\ Cardinality(1 .. n) = n
<1>1. 1 \in Int /\ n \in Int /\ (IF 1 > n THEN 0 ELSE n - 1 + 1) = n
  OBVIOUS
<1> QED
  BY <1>1, FS_Interval

\* A sequence of different nodes has at most as many as there are.
LEMMA ShortList ==
    ASSUME NEW N \in Nat, NEW s \in Seq(1 .. N), Once(s)
    PROVE  Len(s) \in Nat /\ Len(s) <= N /\ \A i \in 1 .. Len(s) : s[i] \in 1 .. N
<1>1. Len(s) \in Nat /\ s \in [1 .. Len(s) -> 1 .. N]
  BY LenProperties
<1>2. s \in Injection(1 .. Len(s), 1 .. N)
  BY <1>1 DEF Once, Injection, IsInjective
<1>3. IsFiniteSet(1 .. N) /\ Cardinality(1 .. N) = N /\ Cardinality(1 .. Len(s)) = Len(s)
  BY <1>1, CountTo
<1>4. Cardinality(1 .. Len(s)) <= Cardinality(1 .. N)
  BY <1>2, <1>3, FS_Injection
<1> QED
  BY <1>1, <1>3, <1>4

\* A recursive function is what satisfies its equation, and only one function does.
LEMMA ChainIs ==
    ASSUME NEW N \in Nat, NEW Q, Q.lpNextMsg \in [1 .. N -> 0 .. N], NEW start,
           NEW s \in Seq(1 .. N), Once(s), Linked(Q, start, s)
    PROVE  Chain(Q, start) = s
<1> DEFINE w == [k \in 1 .. N |-> Place(s, k)]
           step(g) == [k \in 1 .. N |-> IF k = 1 THEN start ELSE After(Q, g[k - 1])]
<1>1. Len(Q.lpNextMsg) = N
  <2> DEFINE L == Q.lpNextMsg
  <2>1. L \in [1 .. N -> 0 .. N]
    OBVIOUS
  <2> HIDE DEF L
  <2>2. Len(L) = N
    BY <2>1, FunSeq
  <2> QED
    BY <2>2 DEF L
<1>2. Len(s) \in Nat /\ Len(s) <= N /\ \A i \in 1 .. Len(s) : s[i] \in 1 .. N
  BY ShortList
<1>3. w = step(w)
  <2>1. \A k \in 1 .. N : Place(s, k) = IF k = 1 THEN start ELSE After(Q, w[k - 1])
    <3>1. SUFFICES ASSUME NEW k \in 1 .. N, k # 1
                   PROVE  Place(s, k) = After(Q, w[k - 1])
      BY DEF Linked
    <3>2. k - 1 \in 1 .. N /\ w[k - 1] = Place(s, k - 1) /\ (k - 1) + 1 = k
      BY <3>1
    <3> HIDE DEF w
    <3>3. CASE k - 1 <= Len(s)
      <4>1. k - 1 \in 1 .. Len(s)
        BY <1>2, <3>1, <3>2, <3>3
      <4>2. Q.lpNextMsg[s[k - 1]] = Place(s, k)
        BY <3>2, <4>1 DEF Linked
      <4>3. w[k - 1] = s[k - 1] /\ s[k - 1] # Null
        BY <1>2, <3>2, <4>1 DEF Place, Null
      <4> QED
        BY <4>2, <4>3 DEF After
    <3>4. CASE ~ (k - 1 <= Len(s))
      <4>1. k - 1 \notin 1 .. Len(s) /\ k \notin 1 .. Len(s)
        BY <1>2, <3>1, <3>2, <3>4
      <4>2. w[k - 1] = Null /\ Place(s, k) = Null
        BY <3>2, <4>1 DEF Place
      <4> QED
        BY <4>2 DEF After
    <3> QED
      BY <3>3, <3>4
  <2> QED
    BY <2>1
<1>4. \A g : g = step(g) => g = w
  <2>1. SUFFICES ASSUME NEW g, g = step(g), g # w
                 PROVE  FALSE
    OBVIOUS
  <2>2. /\ DOMAIN g = 1 .. N
        /\ \A k \in 1 .. N : g[k] = IF k = 1 THEN start ELSE After(Q, g[k - 1])
        /\ g = [k \in 1 .. N |-> g[k]]
    BY <2>1
  <2>3. \A k \in 1 .. N : w[k] = IF k = 1 THEN start ELSE After(Q, w[k - 1])
    BY <1>3
  <2> DEFINE B == {k \in 1 .. N : g[k] # w[k]}
  <2>4. B \subseteq Nat /\ B # {}
    <3>1. w = [k \in 1 .. N |-> w[k]]
      OBVIOUS
    <3> HIDE DEF w
    <3> QED
      BY <2>1, <2>2, <3>1
  <2> HIDE DEF w, step
  <2>5. PICK m \in B : \A n \in B : m <= n
    <3> HIDE DEF B
    <3> QED
      BY <2>4, MinNat
  <2>6. m # 1
    BY <2>2, <2>3, <2>5
  <2>7. m - 1 \in 1 .. N /\ m - 1 \notin B
    BY <2>5, <2>6
  <2>8. g[m - 1] = w[m - 1]
    BY <2>7
  <2>9. m \in 1 .. N /\ g[m] # w[m]
    BY <2>5
  <2> HIDE DEF B
  <2>10. g[m] = After(Q, g[m - 1]) /\ w[m] = After(Q, w[m - 1])
    BY <2>2, <2>3, <2>6, <2>9
  <2> QED
    BY <2>8, <2>9, <2>10
<1>5. (CHOOSE g : g = step(g)) = w
  BY <1>3, <1>4
<1>6. {k \in 1 .. N : w[k] # Null} = 1 .. Len(s)
  BY <1>2 DEF Place, Null
<1>7. Cardinality(1 .. Len(s)) = Len(s)
  BY <1>2, CountTo
<1>8. SubSeq(w, 1, Len(s)) = s
  <2>1. \A i \in 1 .. Len(s) : w[i] = s[i] /\ w[i] \in 1 .. N
    BY <1>2 DEF Place
  <2> HIDE DEF w
  <2>2. /\ SubSeq(w, 1, Len(s)) \in Seq(1 .. N)
        /\ Len(SubSeq(w, 1, Len(s))) = Len(s)
        /\ \A i \in 1 .. Len(s) : SubSeq(w, 1, Len(s))[i] = w[i]
    <3>1. 1 \in Int /\ Len(s) \in Int /\ Len(s) - 1 + 1 = Len(s)
          /\ (IF 1 <= Len(s) THEN Len(s) - 1 + 1 ELSE 0) = Len(s)
      BY <1>2
    <3>2. /\ SubSeq(w, 1, Len(s)) \in Seq(1 .. N)
          /\ Len(SubSeq(w, 1, Len(s))) = IF 1 <= Len(s) THEN Len(s) - 1 + 1 ELSE 0
          /\ \A i \in 1 .. Len(s) - 1 + 1 : SubSeq(w, 1, Len(s))[i] = w[1 + i - 1]
      BY <2>1, <3>1, SubSeqProperties
    <3>3. \A i \in 1 .. Len(s) : 1 + i - 1 = i
      OBVIOUS
    <3> QED
      BY <3>1, <3>2, <3>3
  <2> QED
    BY <2>1, <2>2, SeqEqual
<1>9. Chain(Q, start) = LET at == CHOOSE g : g = step(g)
                        IN  SubSeq(at, 1, Cardinality({k \in 1 .. N : at[k] # Null}))
  BY <1>1 DEF Chain
<1> HIDE DEF w, step
<1> QED
  BY <1>5, <1>6, <1>7, <1>8, <1>9

----------------------------------------------------------------------------
\* Taking an element out of a sequence and putting one in

Cut(s, k) == [i \in 1 .. Len(s) - 1 |-> IF i < k THEN s[i] ELSE s[i + 1]]
Put(s, k, n) == [i \in 1 .. Len(s) + 1 |-> IF i < k THEN s[i]
                                           ELSE IF i = k THEN n ELSE s[i - 1]]

\* t is s, of elements of S, without its k-th.
IsCut(t, S, s, k) ==
    /\ t \in Seq(S) /\ Len(t) = Len(s) - 1
    /\ \A i \in 1 .. Len(s) - 1 : t[i] = IF i < k THEN s[i] ELSE s[i + 1]
    /\ \A i \in Nat \ {0} : Place(t, i) = IF i < k THEN Place(s, i) ELSE Place(s, i + 1)
\* t is s with n put in at k.
IsPut(t, S, s, k, n) ==
    /\ t \in Seq(S) /\ Len(t) = Len(s) + 1
    /\ \A i \in 1 .. Len(s) + 1 :
          t[i] = IF i < k THEN s[i] ELSE IF i = k THEN n ELSE s[i - 1]
    /\ \A i \in Nat \ {0} : Place(t, i) = IF i < k THEN Place(s, i)
                                         ELSE IF i = k THEN n ELSE Place(s, i - 1)

LEMMA CutFacts ==
    ASSUME NEW S, NEW s \in Seq(S), NEW k \in 1 .. Len(s)
    PROVE  IsCut(Cut(s, k), S, s, k)
<1>1. Len(s) \in Nat /\ Len(s) - 1 \in Nat /\ \A i \in 1 .. Len(s) : s[i] \in S
  BY LenProperties
<1>2. \A i \in 1 .. Len(s) - 1 :
         i \in 1 .. Len(s) /\ i + 1 \in 1 .. Len(s)
  BY <1>1
<1>3. Cut(s, k) \in [1 .. Len(s) - 1 -> S]
  BY <1>1, <1>2 DEF Cut
<1>4. Cut(s, k) \in Seq(S) /\ Len(Cut(s, k)) = Len(s) - 1
  BY <1>1, <1>3, FunSeq
<1>5. \A i \in 1 .. Len(s) - 1 : Cut(s, k)[i] = IF i < k THEN s[i] ELSE s[i + 1]
  BY DEF Cut
<1>6. \A i \in Nat \ {0} :
         Place(Cut(s, k), i) = IF i < k THEN Place(s, i) ELSE Place(s, i + 1)
  BY <1>1, <1>4, <1>5 DEF Place
<1> QED
  BY <1>4, <1>5, <1>6 DEF IsCut

LEMMA CutOnce ==
    ASSUME NEW S, NEW s \in Seq(S), Once(s), NEW k \in 1 .. Len(s)
    PROVE  Once(Cut(s, k)) /\ Image(Cut(s, k)) = Image(s) \ {s[k]}
<1>1. /\ Len(Cut(s, k)) = Len(s) - 1
      /\ \A i \in 1 .. Len(s) - 1 : Cut(s, k)[i] = IF i < k THEN s[i] ELSE s[i + 1]
  BY CutFacts DEF IsCut
<1>2. Len(s) \in Nat
  BY LenProperties
<1> DEFINE at(i) == IF i < k THEN i ELSE i + 1
<1>3. \A i \in 1 .. Len(s) - 1 : at(i) \in 1 .. Len(s) /\ at(i) # k /\ Cut(s, k)[i] = s[at(i)]
  BY <1>1, <1>2
<1>4. \A i, j \in 1 .. Len(s) - 1 : at(i) = at(j) => i = j
  BY <1>2
<1>5. \A j \in 1 .. Len(s) : j # k => \E i \in 1 .. Len(s) - 1 : at(i) = j
  <2> TAKE j \in 1 .. Len(s)
  <2> HAVE j # k
  <2>1. CASE j < k
    <3>1. j \in 1 .. Len(s) - 1 /\ at(j) = j
      BY <1>2, <2>1
    <3> QED
      BY <3>1
  <2>2. CASE j > k
    <3>1. j - 1 \in 1 .. Len(s) - 1 /\ at(j - 1) = j
      BY <1>2, <2>2
    <3> QED
      BY <3>1
  <2> QED
    BY <2>1, <2>2
<1> HIDE DEF at
<1>6. Once(Cut(s, k))
  BY <1>1, <1>3, <1>4 DEF Once
<1>7. \A x \in Image(Cut(s, k)) : x \in Image(s) /\ x # s[k]
  BY <1>1, <1>3 DEF Image, Once
<1>8. \A x \in Image(s) : x # s[k] => x \in Image(Cut(s, k))
  <2> TAKE x \in Image(s)
  <2> HAVE x # s[k]
  <2>1. PICK j \in 1 .. Len(s) : s[j] = x
    BY DEF Image
  <2>2. PICK i \in 1 .. Len(s) - 1 : at(i) = j
    BY <1>5, <2>1
  <2> QED
    BY <1>1, <1>3, <2>1, <2>2 DEF Image
<1> QED
  BY <1>6, <1>7, <1>8

LEMMA PutFacts ==
    ASSUME NEW S, NEW s \in Seq(S), NEW k \in 1 .. Len(s) + 1, NEW n \in S
    PROVE  IsPut(Put(s, k, n), S, s, k, n)
<1>1. Len(s) \in Nat /\ Len(s) + 1 \in Nat /\ \A i \in 1 .. Len(s) : s[i] \in S
  BY LenProperties
<1>2. \A i \in 1 .. Len(s) + 1 :
         /\ i < k => i \in 1 .. Len(s)
         /\ i >= k /\ i # k => i - 1 \in 1 .. Len(s)
  BY <1>1
<1>3. Put(s, k, n) \in [1 .. Len(s) + 1 -> S]
  BY <1>1, <1>2 DEF Put
<1>4. Put(s, k, n) \in Seq(S) /\ Len(Put(s, k, n)) = Len(s) + 1
  BY <1>1, <1>3, FunSeq
<1>5. \A i \in 1 .. Len(s) + 1 :
         Put(s, k, n)[i] = IF i < k THEN s[i] ELSE IF i = k THEN n ELSE s[i - 1]
  BY DEF Put
<1>6. \A i \in Nat \ {0} :
         Place(Put(s, k, n), i) = IF i < k THEN Place(s, i)
                                  ELSE IF i = k THEN n ELSE Place(s, i - 1)
  BY <1>1, <1>4, <1>5 DEF Place
<1> QED
  BY <1>4, <1>5, <1>6 DEF IsPut

LEMMA PutOnce ==
    ASSUME NEW S, NEW s \in Seq(S), Once(s), NEW k \in 1 .. Len(s) + 1,
           NEW n \in S, n \notin Image(s)
    PROVE  Once(Put(s, k, n)) /\ Image(Put(s, k, n)) = Image(s) \cup {n}
<1>1. /\ Len(Put(s, k, n)) = Len(s) + 1
      /\ \A i \in 1 .. Len(s) + 1 :
            Put(s, k, n)[i] = IF i < k THEN s[i] ELSE IF i = k THEN n ELSE s[i - 1]
  BY PutFacts DEF IsPut
<1>2. Len(s) \in Nat
  BY LenProperties
<1> DEFINE at(i) == IF i < k THEN i ELSE i - 1
<1>3. \A i \in 1 .. Len(s) + 1 : i # k => at(i) \in 1 .. Len(s) /\ Put(s, k, n)[i] = s[at(i)]
  BY <1>1, <1>2
<1>4. \A i, j \in 1 .. Len(s) + 1 : i # k /\ j # k /\ at(i) = at(j) => i = j
  BY <1>2
<1>5. \A j \in 1 .. Len(s) : \E i \in 1 .. Len(s) + 1 : i # k /\ at(i) = j
  <2> TAKE j \in 1 .. Len(s)
  <2>1. CASE j < k
    <3>1. j \in 1 .. Len(s) + 1 /\ at(j) = j /\ j # k
      BY <1>2, <2>1
    <3> QED
      BY <3>1
  <2>2. CASE ~ (j < k)
    <3>1. j + 1 \in 1 .. Len(s) + 1 /\ at(j + 1) = j /\ j + 1 # k
      BY <1>2, <2>2
    <3> QED
      BY <3>1
  <2> QED
    BY <2>1, <2>2
<1> HIDE DEF at
<1>6. k \in 1 .. Len(s) + 1 /\ Put(s, k, n)[k] = n
  BY <1>1
<1>7. Once(Put(s, k, n))
  <2>1. \A i \in 1 .. Len(s) + 1 : i # k => Put(s, k, n)[i] # n
    BY <1>3 DEF Image
  <2>2. \A i, j \in 1 .. Len(s) + 1 : Put(s, k, n)[i] = Put(s, k, n)[j] => i = j
    <3> TAKE i, j \in 1 .. Len(s) + 1
    <3>1. CASE i = k \/ j = k
      BY <1>6, <2>1, <3>1
    <3>2. CASE i # k /\ j # k
      BY <1>3, <1>4, <3>2 DEF Once
    <3> QED
      BY <3>1, <3>2
  <2> QED
    BY <1>1, <2>2 DEF Once
<1>8. \A x \in Image(Put(s, k, n)) : x \in Image(s) \cup {n}
  BY <1>1, <1>3, <1>6 DEF Image
<1>9. \A x \in Image(s) \cup {n} : x \in Image(Put(s, k, n))
  <2> TAKE x \in Image(s) \cup {n}
  <2>1. CASE x = n
    BY <1>1, <1>6, <2>1 DEF Image
  <2>2. CASE x \in Image(s)
    <3>1. PICK j \in 1 .. Len(s) : s[j] = x
      BY <2>2 DEF Image
    <3>2. PICK i \in 1 .. Len(s) + 1 : i # k /\ at(i) = j
      BY <1>5, <3>1
    <3> QED
      BY <1>1, <1>3, <3>1, <3>2 DEF Image
  <2> QED
    BY <2>1, <2>2
<1> QED
  BY <1>7, <1>8, <1>9

----------------------------------------------------------------------------
\* What the operations do to the lists of a queue

LEMMA ListsAre ==
    ASSUME NEW N \in Nat, NEW Q \in Block(N), NEW u, NEW f, Lists(Q, N, u, f)
    PROVE  Used(Q) = u /\ Spare(Q) = f
<1>1. Q.lpNextMsg \in [1 .. N -> 0 .. N]
  BY DEF Block
<1> QED
  BY <1>1, ChainIs DEF Lists, Used, Spare

LEMMA SoundFrom ==
    ASSUME NEW N \in Nat, NEW Q \in Block(N), NEW u, NEW f, Lists(Q, N, u, f)
    PROVE  Sound(Q, N) /\ Used(Q) = u /\ Spare(Q) = f
BY ListsAre DEF Sound

\* The node before the k-th is the one before it in the list; a node is found if it is
\* in the list.
LEMMA PrevIs ==
    ASSUME NEW N \in Nat, NEW Q, Sound(Q, N), NEW k \in 1 .. Len(Used(Q))
    PROVE  Prev(Q, Used(Q)[k]) = Place(Used(Q), k - 1)
<1> DEFINE u == Used(Q)
           B == {u[i] : i \in {j \in 1 .. Len(u) : Q.lpNextMsg[u[j]] = u[k]}}
<1>1. /\ u \in Seq(1 .. N) /\ Once(u) /\ Linked(Q, Q.lpQueueNext, u)
      /\ Len(u) \in Nat /\ \A i \in 1 .. Len(u) : u[i] \in 1 .. N
  BY ShortList DEF Sound, Lists
<1>2. Before(Q, u[k]) = B
  BY DEF Before, Used
<1> HIDE DEF u
<1>3. \A j \in 1 .. Len(u) : Q.lpNextMsg[u[j]] = u[k] <=> j = k - 1
  <2> TAKE j \in 1 .. Len(u)
  <2>1. Q.lpNextMsg[u[j]] = Place(u, j + 1) /\ u[k] # Null /\ k \in 1 .. Len(u)
    BY <1>1 DEF Linked, Null, u
  <2>2. CASE j + 1 \in 1 .. Len(u)
    <3>1. Place(u, j + 1) = u[j + 1]
      BY <2>2 DEF Place
    <3>2. u[j + 1] = u[k] <=> j + 1 = k
      BY <1>1, <2>1, <2>2 DEF Once
    <3>3. j + 1 = k <=> j = k - 1
      BY <2>1
    <3> QED
      BY <2>1, <3>1, <3>2, <3>3
  <2>3. CASE j + 1 \notin 1 .. Len(u)
    <3>1. Place(u, j + 1) = Null
      BY <2>3 DEF Place
    <3>2. j # k - 1
      BY <1>1, <2>1, <2>3
    <3> QED
      BY <2>1, <3>1, <3>2
  <2> QED
    BY <2>2, <2>3
<1>4. k \in 1 .. Len(u) /\ 1 \in 1 .. Len(u) /\ Q.lpQueueNext = u[1]
  BY <1>1 DEF Linked, Place, u
<1>5. CASE k = 1
  <2>1. Place(u, k - 1) = Null
    BY <1>5 DEF Place
  <2> QED
    BY <1>4, <1>5, <2>1 DEF Prev, u
<1>6. CASE k # 1
  <2>1. k - 1 \in 1 .. Len(u) /\ Place(u, k - 1) = u[k - 1]
    BY <1>1, <1>4, <1>6 DEF Place
  <2>2. B = {u[k - 1]}
    BY <1>3, <2>1
  <2>3. Q.lpQueueNext # u[k]
    BY <1>1, <1>4, <1>6 DEF Once
  <2> HIDE DEF B
  <2>4. Prev(Q, u[k]) = CHOOSE p \in Before(Q, u[k]) : TRUE
    BY <1>2, <2>2, <2>3 DEF Prev, u
  <2>5. (CHOOSE p \in {u[k - 1]} : TRUE) = u[k - 1]
    OBVIOUS
  <2> QED
    BY <1>2, <2>1, <2>2, <2>4, <2>5 DEF u
<1> QED
  BY <1>5, <1>6

LEMMA FoundIf ==
    ASSUME NEW N \in Nat, NEW Q, Sound(Q, N), NEW n \in 1 .. N
    PROVE  (Q.lpQueueNext = n \/ Before(Q, n) # {}) <=> n \in Image(Used(Q))
<1> DEFINE u == Used(Q)
<1>1. /\ u \in Seq(1 .. N) /\ Once(u) /\ Linked(Q, Q.lpQueueNext, u)
      /\ Len(u) \in Nat /\ \A i \in 1 .. Len(u) : u[i] \in 1 .. N
  BY ShortList DEF Sound, Lists
<1>2. Before(Q, n) = {u[i] : i \in {j \in 1 .. Len(u) : Q.lpNextMsg[u[j]] = n}}
  BY DEF Before, Used
<1>3. Q.lpQueueNext = Place(u, 1) /\ \A j \in 1 .. Len(u) : Q.lpNextMsg[u[j]] = Place(u, j + 1)
  BY <1>1 DEF Linked
<1> HIDE DEF u
<1>4. n # Null
  BY DEF Null
<1>5. ASSUME Q.lpQueueNext = n \/ Before(Q, n) # {}
      PROVE  n \in Image(u)
  <2>1. \E j \in 0 .. Len(u) : Place(u, j + 1) = n
    <3>1. CASE Q.lpQueueNext = n
      <4>1. 0 \in 0 .. Len(u) /\ 0 + 1 = 1
        BY <1>1 DEF u
      <4> QED
        BY <1>3, <3>1, <4>1
    <3>2. CASE Before(Q, n) # {}
      <4>1. PICK j \in 1 .. Len(u) : Q.lpNextMsg[u[j]] = n
        BY <1>2, <3>2
      <4>2. j \in 0 .. Len(u)
        BY <1>1
      <4>3. Place(u, j + 1) = n
        BY <1>3, <4>1
      <4> QED
        BY <4>2, <4>3
    <3> QED
      BY <1>5, <3>1, <3>2
  <2>2. PICK j \in 0 .. Len(u) : Place(u, j + 1) = n
    BY <2>1
  <2>3. j + 1 \in 1 .. Len(u) /\ u[j + 1] = n
    BY <1>4, <2>2 DEF Place
  <2> QED
    BY <2>3 DEF Image
<1>6. ASSUME n \in Image(u)
      PROVE  Q.lpQueueNext = n \/ Before(Q, n) # {}
  <2>1. PICK j \in 1 .. Len(u) : u[j] = n
    BY <1>6 DEF Image
  <2>2. CASE j = 1
    BY <1>3, <2>1, <2>2 DEF Place
  <2>3. CASE j # 1
    <3>1. j - 1 \in 1 .. Len(u)
      <4>1. Len(u) \in Nat
        BY <1>1 DEF u
      <4> QED
        BY <2>3, <4>1
    <3>2. Q.lpNextMsg[u[j - 1]] = Place(u, (j - 1) + 1)
      BY <1>3, <3>1
    <3>3. Place(u, (j - 1) + 1) = n
      <4>1. (j - 1) + 1 = j
        OBVIOUS
      <4> QED
        BY <2>1, <4>1 DEF Place
    <3> QED
      BY <1>2, <3>1, <3>2, <3>3
  <2> QED
    BY <2>2, <2>3
<1> QED
  BY <1>5, <1>6 DEF u

LEMMA UnlinkRecord ==
    ASSUME NEW N \in Nat, NEW Q \in Block(N), NEW n, NEW p
    PROVE  Unlink(Q, n, p) =
               [lpQueueNext |-> IF p = Null THEN Q.lpNextMsg[n] ELSE Q.lpQueueNext,
                lpQueueFree |-> n,
                lpNextMsg |-> [m \in 1 .. N |-> IF m = n THEN Q.lpQueueFree
                                                ELSE IF m = p THEN Q.lpNextMsg[n]
                                                ELSE Q.lpNextMsg[m]],
                Message |-> Q.Message]
<1>1. DOMAIN Q.lpNextMsg = 1 .. N
  BY DEF Block
<1>2. Q = [lpQueueNext |-> Q.lpQueueNext, lpQueueFree |-> Q.lpQueueFree,
           lpNextMsg |-> Q.lpNextMsg, Message |-> Q.Message]
  BY DEF Block
<1> DEFINE F == IF p = Null THEN Q.lpNextMsg[n] ELSE Q.lpQueueNext
           L == [m \in DOMAIN Q.lpNextMsg |-> IF m = n THEN Q.lpQueueFree
                                              ELSE IF m = p THEN Q.lpNextMsg[n]
                                              ELSE Q.lpNextMsg[m]]
<1>3. Unlink(Q, n, p) = [Q EXCEPT !.lpQueueNext = F, !.lpNextMsg = L, !.lpQueueFree = n]
  BY DEF Unlink
<1>4. L = [m \in 1 .. N |-> IF m = n THEN Q.lpQueueFree
                            ELSE IF m = p THEN Q.lpNextMsg[n] ELSE Q.lpNextMsg[m]]
  BY <1>1
<1>5. Unlink(Q, n, p) = [lpQueueNext |-> F, lpQueueFree |-> n, lpNextMsg |-> L,
                         Message |-> Q.Message]
  <2> HIDE DEF F, L
  <2> QED
    BY <1>2, <1>3
<1> QED
  BY <1>4, <1>5

\* Unlinking the k-th node leaves the others in order and makes it the first free one.
LEMMA UnlinkLists ==
    ASSUME NEW N \in Nat, NEW Q \in Block(N), Sound(Q, N), NEW k \in 1 .. Len(Used(Q)),
           NEW n, n = Used(Q)[k]
    PROVE  LET R == Unlink(Q, n, Prev(Q, n))
           IN  /\ R \in Block(N) /\ Sound(R, N) /\ R.Message = Q.Message
               /\ Used(R) = Cut(Used(Q), k)
               /\ Spare(R) = Put(Spare(Q), 1, n)
<1> DEFINE u == Used(Q)
           f == Spare(Q)
           p == Place(u, k - 1)
           v == Cut(u, k)
           g == Put(f, 1, n)
           R == Unlink(Q, n, p)
<1>1. /\ u \in Seq(1 .. N) /\ f \in Seq(1 .. N) /\ Once(u) /\ Once(f)
      /\ Image(u) \cap Image(f) = {} /\ Image(u) \cup Image(f) = 1 .. N
      /\ Linked(Q, Q.lpQueueNext, u) /\ Linked(Q, Q.lpQueueFree, f)
  BY DEF Sound, Lists
<1>2. /\ Len(u) \in Nat /\ \A i \in 1 .. Len(u) : u[i] \in 1 .. N
      /\ Len(f) \in Nat /\ \A i \in 1 .. Len(f) : f[i] \in 1 .. N
  BY <1>1, ShortList
<1>3. Prev(Q, n) = p
  BY PrevIs
<1>4. k \in 1 .. Len(u) /\ n = u[k] /\ n \in 1 .. N /\ n \in Image(u) /\ n \notin Image(f)
  BY <1>1, <1>2 DEF Image
<1>5. /\ Q.lpQueueNext \in 0 .. N /\ Q.lpQueueFree \in 0 .. N
      /\ Q.lpNextMsg \in [1 .. N -> 0 .. N] /\ Q.Message \in [1 .. N -> 0 .. MaxMsgs]
  BY DEF Block
<1>6. R = [lpQueueNext |-> IF p = Null THEN Q.lpNextMsg[n] ELSE Q.lpQueueNext,
           lpQueueFree |-> n,
           lpNextMsg |-> [m \in 1 .. N |-> IF m = n THEN Q.lpQueueFree
                                           ELSE IF m = p THEN Q.lpNextMsg[n]
                                           ELSE Q.lpNextMsg[m]],
           Message |-> Q.Message]
  BY UnlinkRecord
<1> HIDE DEF u, f, R, p
<1>7. p = Place(u, k - 1)
  BY DEF p
<1>8. /\ R.lpQueueNext = IF p = Null THEN Q.lpNextMsg[n] ELSE Q.lpQueueNext
      /\ R.lpQueueFree = n /\ R.Message = Q.Message
      /\ \A m \in 1 .. N : R.lpNextMsg[m] = IF m = n THEN Q.lpQueueFree
                                             ELSE IF m = p THEN Q.lpNextMsg[n]
                                             ELSE Q.lpNextMsg[m]
  BY <1>6
<1>9. R \in Block(N)
  <2> DEFINE L == [m \in 1 .. N |-> IF m = n THEN Q.lpQueueFree
                                    ELSE IF m = p THEN Q.lpNextMsg[n] ELSE Q.lpNextMsg[m]]
             F == IF p = Null THEN Q.lpNextMsg[n] ELSE Q.lpQueueNext
  <2>1. L \in [1 .. N -> 0 .. N]
    BY <1>4, <1>5
  <2>2. F \in 0 .. N /\ n \in 0 .. N
    BY <1>4, <1>5
  <2>3. R = [lpQueueNext |-> F, lpQueueFree |-> n, lpNextMsg |-> L, Message |-> Q.Message]
    BY <1>6
  <2> HIDE DEF L, F
  <2> QED
    BY <1>5, <2>1, <2>2, <2>3 DEF Block
<1>10. IsCut(v, 1 .. N, u, k) /\ Once(v) /\ Image(v) = Image(u) \ {n}
  BY <1>1, <1>4, CutOnce, CutFacts
<1>11. IsPut(g, 1 .. N, f, 1, n) /\ Once(g) /\ Image(g) = Image(f) \cup {n}
  <2>1. 1 \in 1 .. Len(f) + 1
    BY <1>2
  <2> QED
    BY <1>1, <1>4, <2>1, PutFacts, PutOnce
<1> HIDE DEF v, g
<1>12. Linked(R, R.lpQueueNext, v)
  <2>1. /\ Q.lpQueueNext = Place(u, 1)
        /\ \A i \in 1 .. Len(u) : Q.lpNextMsg[u[i]] = Place(u, i + 1)
    BY <1>1 DEF Linked
  <2>2. R.lpQueueNext = Place(v, 1)
    <3>1. CASE k = 1
      <4>1. p = Null /\ Q.lpNextMsg[n] = Place(u, 2)
        BY <1>4, <1>7, <2>1, <3>1 DEF Place
      <4>2. Place(v, 1) = Place(u, 2)
        BY <1>10, <3>1 DEF IsCut
      <4> QED
        BY <1>8, <4>1, <4>2
    <3>2. CASE k # 1
      <4>1. k - 1 \in 1 .. Len(u) /\ 1 < k
        BY <1>2, <1>4, <3>2
      <4>2. p # Null
        BY <1>2, <1>7, <4>1 DEF Place, Null
      <4>3. Place(v, 1) = Place(u, 1)
        BY <1>10, <4>1 DEF IsCut
      <4> QED
        BY <1>8, <2>1, <4>2, <4>3
    <3> QED
      BY <3>1, <3>2
  <2>3. ASSUME NEW i \in 1 .. Len(v)
        PROVE  R.lpNextMsg[v[i]] = Place(v, i + 1)
    <3>1. i \in 1 .. Len(u) - 1 /\ i \in 1 .. Len(u) /\ i + 1 \in 1 .. Len(u)
      BY <1>2, <1>10 DEF IsCut
    <3>2. CASE i + 1 < k
      <4>1. v[i] = u[i] /\ u[i] # u[k]
        BY <1>1, <1>4, <1>10, <3>1, <3>2 DEF Once, IsCut
      <4>2. k - 1 \in 1 .. Len(u) /\ u[i] # u[k - 1] /\ p = u[k - 1]
        <5>1. k - 1 \in 1 .. Len(u) /\ i # k - 1
          BY <1>4, <3>1, <3>2
        <5> QED
          BY <1>1, <1>7, <3>1, <5>1 DEF Once, Place
      <4>3. R.lpNextMsg[v[i]] = Place(u, i + 1)
        BY <1>2, <1>4, <1>8, <2>1, <3>1, <4>1, <4>2
      <4>4. Place(v, i + 1) = Place(u, i + 1)
        BY <1>10, <3>1, <3>2 DEF IsCut
      <4> QED
        BY <4>3, <4>4
    <3>3. CASE i + 1 = k
      <4>1. v[i] = u[i] /\ u[i] # u[k] /\ p = u[i]
        <5>1. i = k - 1 /\ i < k /\ i # k
          BY <1>4, <3>1, <3>3
        <5> QED
          BY <1>1, <1>4, <1>10, <1>7, <3>1, <5>1 DEF Once, Place, IsCut
      <4>2. R.lpNextMsg[v[i]] = Place(u, k + 1)
        BY <1>2, <1>4, <1>8, <2>1, <3>1, <4>1
      <4>3. Place(v, i + 1) = Place(u, k + 1)
        BY <1>10, <3>1, <3>3 DEF IsCut
      <4> QED
        BY <4>2, <4>3
    <3>4. CASE i + 1 > k
      <4>1. v[i] = u[i + 1] /\ u[i + 1] # u[k]
        <5>1. ~ (i < k) /\ i + 1 # k
          BY <1>4, <3>1, <3>4
        <5> QED
          BY <1>1, <1>4, <1>10, <3>1, <5>1 DEF Once, IsCut
      <4>2. u[i + 1] # p
        <5>1. CASE k - 1 \in 1 .. Len(u)
          <6>1. i + 1 # k - 1
            BY <1>4, <3>1, <3>4
          <6> QED
            BY <1>1, <1>7, <3>1, <5>1, <6>1 DEF Once, Place
        <5>2. CASE k - 1 \notin 1 .. Len(u)
          BY <1>2, <1>7, <3>1, <5>2 DEF Place, Null
        <5> QED
          BY <5>1, <5>2
      <4>3. R.lpNextMsg[v[i]] = Place(u, (i + 1) + 1)
        <5>1. Q.lpNextMsg[u[i + 1]] = Place(u, (i + 1) + 1) /\ u[i + 1] \in 1 .. N
          BY <1>2, <2>1, <3>1
        <5> QED
          BY <1>4, <1>8, <4>1, <4>2, <5>1
      <4>4. Place(v, i + 1) = Place(u, (i + 1) + 1)
        BY <1>10, <3>1, <3>4 DEF IsCut
      <4> QED
        BY <4>3, <4>4
    <3> QED
      BY <1>4, <3>1, <3>2, <3>3, <3>4
  <2> QED
    BY <2>2, <2>3 DEF Linked
<1>13. Linked(R, R.lpQueueFree, g)
  <2>1. /\ Q.lpQueueFree = Place(f, 1)
        /\ \A i \in 1 .. Len(f) : Q.lpNextMsg[f[i]] = Place(f, i + 1)
    BY <1>1 DEF Linked
  <2>2. R.lpQueueFree = Place(g, 1)
    BY <1>8, <1>11 DEF IsPut
  <2>3. ASSUME NEW i \in 1 .. Len(g)
        PROVE  R.lpNextMsg[g[i]] = Place(g, i + 1)
    <3>1. i \in 1 .. Len(f) + 1
      BY <1>11 DEF IsPut
    <3>2. CASE i = 1
      <4>1. g[i] = n /\ Place(g, i + 1) = Place(f, 1)
        BY <1>2, <1>11, <3>1, <3>2 DEF IsPut
      <4> QED
        BY <1>4, <1>8, <2>1, <4>1
    <3>3. CASE i # 1
      <4>1. i - 1 \in 1 .. Len(f) /\ g[i] = f[i - 1]
        BY <1>2, <1>11, <3>1, <3>3 DEF IsPut
      <4>2. Place(g, i + 1) = Place(f, (i - 1) + 1)
        <5>1. i + 1 \in Nat \ {0} /\ ~ (i + 1 < 1) /\ i + 1 # 1 /\ (i + 1) - 1 = (i - 1) + 1
          BY <3>1, <3>3
        <5> QED
          BY <1>11, <5>1 DEF IsPut
      <4>3. f[i - 1] # n /\ f[i - 1] \in 1 .. N
        BY <1>2, <1>4, <4>1 DEF Image
      <4>4. f[i - 1] # p
        <5>1. CASE p = Null
          BY <4>3, <5>1 DEF Null
        <5>2. CASE p # Null
          <6>1. p \in Image(u) /\ f[i - 1] \in Image(f)
            BY <1>7, <4>1, <5>2 DEF Place, Image
          <6> QED
            BY <1>1, <6>1
        <5> QED
          BY <5>1, <5>2
      <4>5. R.lpNextMsg[f[i - 1]] = Place(f, (i - 1) + 1)
        BY <1>8, <2>1, <4>1, <4>3, <4>4
      <4> QED
        BY <4>1, <4>2, <4>5
    <3> QED
      BY <3>2, <3>3
  <2> QED
    BY <2>2, <2>3 DEF Linked
<1>14. Lists(R, N, v, g)
  BY <1>1, <1>4, <1>10, <1>11, <1>12, <1>13 DEF Lists, IsCut, IsPut
<1>15. Sound(R, N) /\ Used(R) = v /\ Spare(R) = g
  BY <1>9, <1>14, SoundFrom
<1> QED
  BY <1>3, <1>9, <1>8, <1>15 DEF R, p, u, f, v, g

\* Where a message is put: at the front or behind the last one.
Spot(Q, front) == IF front THEN 1 ELSE Len(Used(Q)) + 1

\* The first free node takes the message, and goes where it is put.
LEMMA InsertLists ==
    ASSUME NEW N \in Nat, NEW Q \in Block(N), Sound(Q, N), Q.lpQueueFree # Null,
           NEW front \in BOOLEAN, NEW id \in 0 .. MaxMsgs
    PROVE  LET R == Inserted(Q, front, id)
               n == Q.lpQueueFree
           IN  /\ R \in Block(N) /\ Sound(R, N)
               /\ n \in 1 .. N /\ n \notin Image(Used(Q))
               /\ Spot(Q, front) \in 1 .. Len(Used(Q)) + 1
               /\ R.Message = [Q.Message EXCEPT ![n] = id]
               /\ Used(R) = Put(Used(Q), Spot(Q, front), n)
               /\ Spare(R) = Cut(Spare(Q), 1)
<1> DEFINE u == Used(Q)
           f == Spare(Q)
           n == Q.lpQueueFree
           last == IF u = <<>> THEN Null ELSE u[Len(u)]
           first == front \/ last = Null
           k == Spot(Q, front)
           v == Put(u, k, n)
           g == Cut(f, 1)
           R == Inserted(Q, front, id)
<1>1. /\ u \in Seq(1 .. N) /\ f \in Seq(1 .. N) /\ Once(u) /\ Once(f)
      /\ Image(u) \cap Image(f) = {} /\ Image(u) \cup Image(f) = 1 .. N
      /\ Linked(Q, Q.lpQueueNext, u) /\ Linked(Q, Q.lpQueueFree, f)
  BY DEF Sound, Lists
<1>2. /\ Len(u) \in Nat /\ \A i \in 1 .. Len(u) : u[i] \in 1 .. N
      /\ Len(f) \in Nat /\ \A i \in 1 .. Len(f) : f[i] \in 1 .. N
  BY <1>1, ShortList
<1>3. /\ Q.lpQueueNext \in 0 .. N /\ Q.lpNextMsg \in [1 .. N -> 0 .. N]
      /\ Q.Message \in [1 .. N -> 0 .. MaxMsgs] /\ DOMAIN Q.lpNextMsg = 1 .. N
  BY DEF Block
<1>4. R = [lpQueueNext |-> IF first THEN n ELSE Q.lpQueueNext,
           lpQueueFree |-> Q.lpNextMsg[n],
           lpNextMsg |-> [m \in 1 .. N |-> IF m = n THEN IF first THEN Q.lpQueueNext ELSE Null
                                           ELSE IF m = last /\ ~first THEN n
                                           ELSE Q.lpNextMsg[m]],
           Message |-> [Q.Message EXCEPT ![n] = id]]
  BY <1>3 DEF Inserted, Used
<1>5. k = IF front THEN 1 ELSE Len(u) + 1
  BY DEF Spot
<1> HIDE DEF u, f, n, k, R
<1>6. 1 \in 1 .. Len(f) /\ n = f[1] /\ n \in 1 .. N /\ n \notin Image(u) /\ n \in Image(f)
  <2>1. Place(f, 1) = n /\ n # Null
    BY <1>1 DEF Linked, n
  <2>2. 1 \in 1 .. Len(f) /\ f[1] = n
    BY <2>1 DEF Place
  <2>3. n \in Image(f)
    BY <2>2 DEF Image
  <2> QED
    BY <1>1, <1>2, <2>2, <2>3
<1>7. k \in 1 .. Len(u) + 1
  BY <1>2, <1>5
<1>8. /\ first <=> k = 1
      /\ ~first => k = Len(u) + 1 /\ Len(u) \in 1 .. Len(u) /\ last = u[Len(u)]
      /\ last # Null => last \in Image(u)
  <2>1. CASE u = <<>>
    <3>1. Len(u) = 0
      BY <2>1, EmptySeq
    <3> QED
      BY <1>5, <2>1, <3>1
  <2>2. CASE u # <<>>
    <3>1. Len(u) \in 1 .. Len(u)
      BY <1>1, <1>2, <2>2, EmptySeq
    <3>2. last = u[Len(u)] /\ last # Null
      BY <1>2, <2>2, <3>1 DEF Null
    <3>3. last \in Image(u)
      BY <3>1, <3>2 DEF Image
    <3> HIDE DEF last
    <3> QED
      BY <1>2, <1>5, <3>1, <3>2, <3>3
  <2> QED
    BY <2>1, <2>2
<1> HIDE DEF first, last
<1>9. /\ R.lpQueueNext = IF first THEN n ELSE Q.lpQueueNext
      /\ R.lpQueueFree = Q.lpNextMsg[n]
      /\ \A m \in 1 .. N : R.lpNextMsg[m] =
             IF m = n THEN IF first THEN Q.lpQueueNext ELSE Null
             ELSE IF m = last /\ ~first THEN n ELSE Q.lpNextMsg[m]
      /\ R.Message = [Q.Message EXCEPT ![n] = id]
  BY <1>4
<1>10. R \in Block(N)
  <2> DEFINE L == [m \in 1 .. N |-> IF m = n THEN IF first THEN Q.lpQueueNext ELSE Null
                                    ELSE IF m = last /\ ~first THEN n
                                    ELSE Q.lpNextMsg[m]]
             F == IF first THEN n ELSE Q.lpQueueNext
             M == [Q.Message EXCEPT ![n] = id]
  <2>1. L \in [1 .. N -> 0 .. N]
    BY <1>3, <1>6 DEF Null
  <2>2. F \in 0 .. N /\ Q.lpNextMsg[n] \in 0 .. N /\ M \in [1 .. N -> 0 .. MaxMsgs]
    <3>1. F \in 0 .. N /\ Q.lpNextMsg[n] \in 0 .. N
      BY <1>3, <1>6
    <3>2. Q.Message \in [1 .. N -> 0 .. MaxMsgs] /\ id \in 0 .. MaxMsgs
      BY <1>3
    <3> QED
      BY <3>1, <3>2
  <2>3. R = [lpQueueNext |-> F, lpQueueFree |-> Q.lpNextMsg[n], lpNextMsg |-> L, Message |-> M]
    BY <1>4
  <2> HIDE DEF L, F, M
  <2> QED
    BY <2>1, <2>2, <2>3 DEF Block
<1>11. IsPut(v, 1 .. N, u, k, n) /\ Once(v) /\ Image(v) = Image(u) \cup {n}
  <2>1. IsPut(v, 1 .. N, u, k, n)
    BY <1>1, <1>6, <1>7, PutFacts
  <2>2. Once(v) /\ Image(v) = Image(u) \cup {n}
    BY <1>1, <1>6, <1>7, PutOnce
  <2> QED
    BY <2>1, <2>2
<1>12. IsCut(g, 1 .. N, f, 1) /\ Once(g) /\ Image(g) = Image(f) \ {n}
  <2>1. IsCut(g, 1 .. N, f, 1)
    BY <1>1, <1>6, CutFacts
  <2>2. Once(g) /\ Image(g) = Image(f) \ {f[1]}
    BY <1>1, <1>6, CutOnce
  <2> QED
    BY <1>6, <2>1, <2>2
<1> HIDE DEF v, g
<1>13. Linked(R, R.lpQueueNext, v)
  <2>1. /\ Q.lpQueueNext = Place(u, 1)
        /\ \A i \in 1 .. Len(u) : Q.lpNextMsg[u[i]] = Place(u, i + 1)
    BY <1>1 DEF Linked
  <2>2. /\ Len(v) = Len(u) + 1
        /\ \A i \in 1 .. Len(u) + 1 :
              v[i] = IF i < k THEN u[i] ELSE IF i = k THEN n ELSE u[i - 1]
        /\ \A i \in Nat \ {0} : Place(v, i) = IF i < k THEN Place(u, i)
                                              ELSE IF i = k THEN n ELSE Place(u, i - 1)
    BY <1>11 DEF IsPut
  <2>3. \A i \in 1 .. Len(u) : u[i] \in 1 .. N /\ u[i] # n
    BY <1>2, <1>6 DEF Image
  <2>4. CASE first
    <3>1. k = 1
      BY <1>8, <2>4
    <3>2. R.lpQueueNext = Place(v, 1)
      BY <1>9, <2>2, <2>4, <3>1
    <3>3. ASSUME NEW i \in 1 .. Len(v)
          PROVE  R.lpNextMsg[v[i]] = Place(v, i + 1)
      <4>1. CASE i = 1
        <5>1. v[i] = n /\ Place(v, i + 1) = Place(u, 1)
          BY <1>2, <2>2, <3>1, <4>1
        <5> QED
          BY <1>6, <1>9, <2>1, <2>4, <5>1
      <4>2. CASE i # 1
        <5>1. i - 1 \in 1 .. Len(u) /\ v[i] = u[i - 1]
          BY <1>2, <2>2, <3>1, <4>2
        <5>2. Place(v, i + 1) = Place(u, (i - 1) + 1)
          <6>1. i + 1 \in Nat \ {0} /\ ~ (i + 1 < 1) /\ i + 1 # 1 /\ (i + 1) - 1 = (i - 1) + 1
            BY <4>2
          <6> QED
            BY <2>2, <3>1, <6>1
        <5> QED
          BY <1>9, <2>1, <2>3, <2>4, <5>1, <5>2
      <4> QED
        BY <4>1, <4>2
    <3> QED
      BY <3>2, <3>3 DEF Linked
  <2>5. CASE ~first
    <3>1. k = Len(u) + 1 /\ Len(u) \in 1 .. Len(u) /\ last = u[Len(u)]
      BY <1>8, <2>5
    <3>2. R.lpQueueNext = Place(v, 1)
      BY <1>2, <1>9, <2>1, <2>2, <2>5, <3>1
    <3>3. ASSUME NEW i \in 1 .. Len(v)
          PROVE  R.lpNextMsg[v[i]] = Place(v, i + 1)
      <4>1. CASE i < Len(u)
        <5>1. i \in 1 .. Len(u) /\ v[i] = u[i] /\ i + 1 < k /\ i # Len(u)
          BY <1>2, <2>2, <3>1, <4>1
        <5>2. u[i] # last
          BY <1>1, <3>1, <5>1 DEF Once
        <5>3. Place(v, i + 1) = Place(u, i + 1)
          BY <2>2, <5>1
        <5>4. u[i] \in 1 .. N /\ u[i] # n /\ Q.lpNextMsg[u[i]] = Place(u, i + 1)
          BY <2>1, <2>3, <5>1
        <5>5. R.lpNextMsg[u[i]] = Q.lpNextMsg[u[i]]
          BY <1>9, <5>2, <5>4
        <5> QED
          BY <5>1, <5>3, <5>4, <5>5
      <4>2. CASE i = Len(u)
        <5>1. v[i] = last /\ Place(v, i + 1) = n
          BY <1>2, <2>2, <3>1, <4>2
        <5> QED
          BY <1>9, <2>3, <2>5, <3>1, <5>1
      <4>3. CASE i > Len(u)
        <5>1. i = k
          BY <1>2, <2>2, <3>1, <4>3
        <5>2. v[i] = n
          BY <2>2, <5>1
        <5>3. Place(v, i + 1) = Null
          <6>1. i + 1 \in Nat /\ i + 1 \notin 1 .. Len(v)
            BY <1>2, <2>2, <3>1, <5>1
          <6> QED
            BY <6>1 DEF Place
        <5> QED
          BY <1>6, <1>9, <2>5, <5>2, <5>3
      <4> QED
        BY <1>2, <4>1, <4>2, <4>3
    <3> QED
      BY <3>2, <3>3 DEF Linked
  <2> QED
    BY <2>4, <2>5
<1>14. Linked(R, R.lpQueueFree, g)
  <2>1. \A i \in 1 .. Len(f) : Q.lpNextMsg[f[i]] = Place(f, i + 1)
    BY <1>1 DEF Linked
  <2>2. /\ Len(g) = Len(f) - 1
        /\ \A i \in 1 .. Len(f) - 1 : g[i] = IF i < 1 THEN f[i] ELSE f[i + 1]
        /\ \A i \in Nat \ {0} : Place(g, i) = IF i < 1 THEN Place(f, i) ELSE Place(f, i + 1)
    BY <1>12 DEF IsCut
  <2>3. R.lpQueueFree = Place(g, 1)
    <3>1. Q.lpNextMsg[n] = Place(f, 1 + 1)
      BY <1>6, <2>1
    <3>2. Place(g, 1) = Place(f, 1 + 1)
      <4>1. 1 \in Nat \ {0} /\ ~ (1 < 1)
        OBVIOUS
      <4> QED
        BY <2>2, <4>1
    <3> QED
      BY <1>9, <3>1, <3>2
  <2>4. ASSUME NEW i \in 1 .. Len(g)
        PROVE  R.lpNextMsg[g[i]] = Place(g, i + 1)
    <3>1. i \in 1 .. Len(f) - 1 /\ i + 1 \in 1 .. Len(f) /\ i + 1 # 1 /\ g[i] = f[i + 1]
      <4>1. i \in 1 .. Len(f) - 1
        BY <2>2
      <4>2. i + 1 \in 1 .. Len(f) /\ i + 1 # 1 /\ ~ (i < 1)
        BY <1>2, <4>1
      <4> QED
        BY <2>2, <4>1, <4>2
    <3>2. f[i + 1] # n /\ f[i + 1] \in 1 .. N /\ f[i + 1] \in Image(f)
      BY <1>1, <1>2, <1>6, <3>1 DEF Once, Image
    <3>3. f[i + 1] # last
      BY <1>1, <1>8, <3>2 DEF Null
    <3>4. Place(g, i + 1) = Place(f, (i + 1) + 1)
      BY <2>2, <3>1
    <3> QED
      BY <1>9, <2>1, <3>1, <3>2, <3>3, <3>4
  <2> QED
    BY <2>3, <2>4 DEF Linked
<1>15. Lists(R, N, v, g)
  <2>1. v \in Seq(1 .. N) /\ g \in Seq(1 .. N)
    BY <1>11, <1>12 DEF IsCut, IsPut
  <2>2. Image(v) \cap Image(g) = {} /\ Image(v) \cup Image(g) = 1 .. N
    BY <1>1, <1>6, <1>11, <1>12
  <2> QED
    BY <1>11, <1>12, <1>13, <1>14, <2>1, <2>2 DEF Lists
<1>16. Sound(R, N) /\ Used(R) = v /\ Spare(R) = g
  BY <1>10, <1>15, SoundFrom
<1> QED
  BY <1>6, <1>7, <1>9, <1>10, <1>16 DEF R, n, k, u, f, v, g

----------------------------------------------------------------------------
\* Flushing a queue

\* Induction up to L.
LEMMA UpTo ==
    ASSUME NEW L \in Nat, NEW B, 0 \in B, \A i \in 1 .. L : i - 1 \in B => i \in B
    PROVE  \A i \in 0 .. L : i \in B
<1> DEFINE C == {i \in 0 .. L : i \notin B}
<1>1. SUFFICES ASSUME C # {}
               PROVE  FALSE
  OBVIOUS
<1>2. C \subseteq Nat
  OBVIOUS
<1> HIDE DEF C
<1>3. PICK m \in C : \A n \in C : m <= n
  BY <1>1, <1>2, MinNat
<1>4. m \in 0 .. L /\ m \notin B /\ m # 0
  BY <1>3 DEF C
<1>5. m \in 1 .. L /\ m - 1 \notin B /\ m - 1 \in 0 .. L
  BY <1>4
<1>6. m - 1 \in C
  BY <1>5 DEF C
<1> QED
  BY <1>3, <1>5, <1>6

\* One step of flushing Q, at the i-th node.
FlushStep(Q, w, i, x) ==
    LET n == Used(Q)[i]
    IN  IF sent[Q.Message[n]].hwnd # w THEN x ELSE Unlink(x, n, Prev(x, n))

LEMMA FlushIs ==
    ASSUME NEW Q, NEW w, NEW L \in Nat, L = Len(Used(Q))
    PROVE  \E a : /\ Flushed(Q, w) = a[L] /\ a[0] = Q
                  /\ \A i \in 1 .. L : a[i] = FlushStep(Q, w, i, a[i - 1])
<1> DEFINE step(n, g) == [i \in 0 .. n |-> IF i = 0 THEN Q ELSE FlushStep(Q, w, i, g[i - 1])]
           B == {n \in 0 .. L : \E g : g = step(n, g)}
<1>1. 0 \in B
  <2> DEFINE g == [i \in 0 .. 0 |-> Q]
  <2>1. g = step(0, g)
    OBVIOUS
  <2> HIDE DEF step, g
  <2> QED
    BY <2>1
<1>2. ASSUME NEW n \in 1 .. L, n - 1 \in B
      PROVE  n \in B
  <2>1. PICK g : g = step(n - 1, g)
    BY <1>2
  <2> DEFINE e == [i \in 0 .. n |-> IF i = n THEN FlushStep(Q, w, i, g[i - 1]) ELSE g[i]]
  <2>2. \A i \in 0 .. n - 1 : g[i] = IF i = 0 THEN Q ELSE FlushStep(Q, w, i, g[i - 1])
    BY <2>1
  <2>3. \A i \in 0 .. n : e[i] = IF i = 0 THEN Q ELSE FlushStep(Q, w, i, e[i - 1])
    <3> TAKE i \in 0 .. n
    <3>1. CASE i = n
      <4>1. i # 0 /\ i - 1 \in 0 .. n /\ i - 1 # n
        BY <3>1
      <4>2. e[i - 1] = g[i - 1]
        BY <4>1
      <4> QED
        BY <3>1, <4>1, <4>2
    <3>2. CASE i # n
      <4>1. i \in 0 .. n - 1 /\ e[i] = g[i]
        BY <3>2
      <4>2. i # 0 => i - 1 \in 0 .. n /\ i - 1 # n
        BY <3>2
      <4>3. i # 0 => e[i - 1] = g[i - 1]
        BY <4>2
      <4> QED
        BY <2>2, <4>1, <4>3
    <3> QED
      BY <3>1, <3>2
  <2>4. e = step(n, e)
    <3>1. e = [i \in 0 .. n |-> e[i]]
      OBVIOUS
    <3> HIDE DEF e
    <3> QED
      BY <2>3, <3>1
  <2>5. n \in 0 .. L
    OBVIOUS
  <2> HIDE DEF e, step
  <2> QED
    BY <2>4, <2>5
<1>3. L \in B
  <2> HIDE DEF B
  <2>1. \A i \in 1 .. L : i - 1 \in B => i \in B
    BY <1>2
  <2>2. \A i \in 0 .. L : i \in B
    BY <1>1, <2>1, UpTo
  <2>3. L \in 0 .. L
    OBVIOUS
  <2> QED
    BY <2>2, <2>3
<1> DEFINE a == CHOOSE g : g = step(L, g)
<1>4. a = step(L, a)
  BY <1>3
<1>5. Flushed(Q, w) = a[L]
  BY DEF Flushed, FlushStep, Used
<1> HIDE DEF a
<1>6. a[0] = Q /\ \A i \in 1 .. L : a[i] = FlushStep(Q, w, i, a[i - 1])
  <2>1. \A i \in 0 .. L : a[i] = IF i = 0 THEN Q ELSE FlushStep(Q, w, i, a[i - 1])
    BY <1>4
  <2>2. \A i \in 1 .. L : i \in 0 .. L /\ i # 0
    OBVIOUS
  <2> QED
    BY <2>1, <2>2
<1> QED
  BY <1>5, <1>6

\* v is u without some of its elements: h tells where each of the others was.
Thins(h, v, u) ==
    /\ h \in [1 .. Len(v) -> 1 .. Len(u)]
    /\ \A i, j \in 1 .. Len(v) : i < j => h[i] < h[j]
    /\ \A i \in 1 .. Len(v) : v[i] = u[h[i]]

\* The messages in the nodes of u.
Says(Q, u) == [i \in 1 .. Len(u) |-> sent[Q.Message[u[i]]]]

\* What is so after the first i nodes: c of them are still there, with the messages in the
\* sequence kept, and all those that follow.
FlushedTo(Q, N, w, i, x, kept) ==
    LET u == Used(Q)
        v == Used(x)
        s == Says(Q, u)
    IN  /\ x \in Block(N) /\ Sound(x, N) /\ x.Message = Q.Message
        /\ \E c \in 0 .. i, h \in [1 .. Len(v) -> 1 .. Len(u)] :
              /\ Thins(h, v, u)
              /\ Len(v) = c + Len(u) - i
              /\ \A j \in 1 .. Len(v) : j > c => h[j] = i + j - c
              /\ kept \in Seq(Image(s)) /\ Len(kept) = c
              /\ \A j \in 1 .. c : kept[j] = s[h[j]]

\* What Append does to a sequence of c elements.
LEMMA Appended ==
    ASSUME NEW S, NEW k \in Seq(S), NEW e \in S, NEW c \in Nat, Len(k) = c
    PROVE  /\ Append(k, e) \in Seq(S) /\ Len(Append(k, e)) = c + 1
           /\ \A j \in 1 .. c : Append(k, e)[j] = k[j]
           /\ Append(k, e)[c + 1] = e
BY AppendProperties

LEMMA FlushStepKeeps ==
    ASSUME NEW N \in Nat, NEW Q, Sound(Q, N), NEW w, NEW i \in 1 .. Len(Used(Q)),
           NEW x, NEW k, FlushedTo(Q, N, w, i - 1, x, k)
    PROVE  FlushedTo(Q, N, w, i, FlushStep(Q, w, i, x),
                     IF Says(Q, Used(Q))[i].hwnd # w THEN Append(k, Says(Q, Used(Q))[i]) ELSE k)
<1> DEFINE u == Used(Q)
           v == Used(x)
           s == Says(Q, u)
<1>1. x \in Block(N) /\ Sound(x, N) /\ x.Message = Q.Message
  BY DEF FlushedTo
<1>2. PICK c \in 0 .. i - 1, h \in [1 .. Len(v) -> 1 .. Len(u)] :
         /\ Thins(h, v, u)
         /\ Len(v) = c + Len(u) - (i - 1)
         /\ \A j \in 1 .. Len(v) : j > c => h[j] = (i - 1) + j - c
         /\ k \in Seq(Image(s)) /\ Len(k) = c
         /\ \A j \in 1 .. c : k[j] = s[h[j]]
  BY DEF FlushedTo
<1>3. u \in Seq(1 .. N) /\ v \in Seq(1 .. N) /\ Len(u) \in Nat /\ Len(v) \in Nat
  BY <1>1, ShortList DEF Sound, Lists
<1> HIDE DEF v, u
<1>4. c + 1 \in 1 .. Len(v) /\ h[c + 1] = i /\ v[c + 1] = u[i] /\ i \in 1 .. Len(u)
  <2>1. i \in 1 .. Len(u)
    BY DEF u
  <2>2. c + 1 \in 1 .. Len(v) /\ c + 1 > c /\ (i - 1) + (c + 1) - c = i
    BY <1>2, <1>3, <2>1
  <2> QED
    BY <1>2, <2>1, <2>2 DEF Thins
<1>5. /\ \A j, m \in 1 .. Len(v) : j < m => h[j] < h[m]
      /\ \A j \in 1 .. Len(v) : v[j] = u[h[j]]
  BY <1>2 DEF Thins
<1>6. s[i] = sent[Q.Message[u[i]]] /\ s[i] \in Image(s)
  <2>1. s[i] = sent[Q.Message[u[i]]]
    BY <1>4 DEF Says
  <2>2. s \in [1 .. Len(u) -> {s[j] : j \in 1 .. Len(u)}]
    BY DEF Says
  <2>3. Len(s) = Len(u)
    <3> HIDE DEF s
    <3> QED
      BY <1>3, <2>2, FunSeq
  <2> QED
    BY <1>4, <2>1, <2>3 DEF Image
<1> HIDE DEF s
<1>7. ASSUME s[i].hwnd # w
      PROVE  FlushedTo(Q, N, w, i, x, Append(k, s[i]))
  <2>1. Len(v) = (c + 1) + Len(u) - i /\ c + 1 \in 0 .. i
    BY <1>2, <1>3
  <2>2. \A j \in 1 .. Len(v) : j > c + 1 => h[j] = i + j - (c + 1)
    <3>1. \A j \in 1 .. Len(v) : j > c + 1 => j > c /\ (i - 1) + j - c = i + j - (c + 1)
      BY <1>3
    <3> QED
      BY <1>2, <3>1
  <2>3. /\ Append(k, s[i]) \in Seq(Image(s)) /\ Len(Append(k, s[i])) = c + 1
        /\ \A j \in 1 .. c : Append(k, s[i])[j] = k[j]
        /\ Append(k, s[i])[c + 1] = s[i]
    <3>1. k \in Seq(Image(s)) /\ Len(k) = c /\ c \in Nat
      BY <1>2
    <3>2. s[i] \in Image(s)
      BY <1>6
    <3> QED
      BY <3>1, <3>2, Appended
  <2>4. \A j \in 1 .. c + 1 : Append(k, s[i])[j] = s[h[j]]
    <3> TAKE j \in 1 .. c + 1
    <3>1. CASE j = c + 1
      BY <1>4, <2>3, <3>1
    <3>2. CASE j # c + 1
      <4>1. j \in 1 .. c
        BY <3>2
      <4> QED
        BY <1>2, <2>3, <4>1
    <3> QED
      BY <3>1, <3>2
  <2> QED
    BY <1>1, <1>2, <2>1, <2>2, <2>3, <2>4 DEF FlushedTo, u, v, s
<1>8. ASSUME s[i].hwnd = w
      PROVE  FlushedTo(Q, N, w, i, Unlink(x, u[i], Prev(x, u[i])), k)
  <2> DEFINE y == Unlink(x, u[i], Prev(x, u[i]))
             t == Used(y)
             g == [j \in 1 .. Len(v) - 1 |-> IF j < c + 1 THEN h[j] ELSE h[j + 1]]
  <2>1. y \in Block(N) /\ Sound(y, N) /\ y.Message = Q.Message /\ t = Cut(v, c + 1)
    BY <1>1, <1>4, UnlinkLists DEF v
  <2> HIDE DEF y, t
  <2>2. /\ Len(t) = Len(v) - 1
        /\ \A j \in 1 .. Len(v) - 1 : t[j] = IF j < c + 1 THEN v[j] ELSE v[j + 1]
    BY <1>3, <1>4, <2>1, CutFacts DEF IsCut
  <2>3. \A j \in 1 .. Len(v) - 1 : j \in 1 .. Len(v) /\ j + 1 \in 1 .. Len(v)
    BY <1>3
  <2>4. g \in [1 .. Len(t) -> 1 .. Len(u)]
    BY <2>2, <2>3
  <2>5. \A j \in 1 .. Len(v) - 1 : g[j] = IF j < c + 1 THEN h[j] ELSE h[j + 1]
    OBVIOUS
  <2> HIDE DEF g
  <2>6. \A j, m \in 1 .. Len(t) : j < m => g[j] < g[m]
    <3> TAKE j, m \in 1 .. Len(t)
    <3> HAVE j < m
    <3>1. CASE m < c + 1
      BY <1>5, <2>2, <2>3, <2>5, <3>1
    <3>2. CASE ~ (m < c + 1) /\ j < c + 1
      <4>1. j < m + 1 /\ j \in 1 .. Len(v) /\ m + 1 \in 1 .. Len(v)
        BY <2>2, <2>3
      <4> QED
        BY <1>5, <2>2, <2>5, <3>2, <4>1
    <3>3. CASE ~ (m < c + 1) /\ ~ (j < c + 1)
      <4>1. j + 1 < m + 1 /\ j + 1 \in 1 .. Len(v) /\ m + 1 \in 1 .. Len(v)
        BY <2>2, <2>3
      <4> QED
        BY <1>5, <2>2, <2>5, <3>3, <4>1
    <3> QED
      BY <3>1, <3>2, <3>3
  <2>7. \A j \in 1 .. Len(t) : t[j] = u[g[j]]
    <3> TAKE j \in 1 .. Len(t)
    <3>1. j \in 1 .. Len(v) - 1 /\ j \in 1 .. Len(v) /\ j + 1 \in 1 .. Len(v)
      BY <2>2, <2>3
    <3>2. v[j] = u[h[j]] /\ v[j + 1] = u[h[j + 1]]
      BY <1>5, <3>1
    <3> QED
      BY <2>2, <2>5, <3>1, <3>2
  <2>8. Thins(g, t, u)
    BY <2>4, <2>6, <2>7 DEF Thins
  <2>9. Len(t) = c + Len(u) - i /\ c \in 0 .. i
    BY <1>2, <1>3, <2>2
  <2>10. \A j \in 1 .. Len(t) : j > c => g[j] = i + j - c
    <3> TAKE j \in 1 .. Len(t)
    <3> HAVE j > c
    <3>1. ~ (j < c + 1) /\ j + 1 > c /\ (i - 1) + (j + 1) - c = i + j - c
      OBVIOUS
    <3>2. g[j] = h[j + 1] /\ j + 1 \in 1 .. Len(v)
      BY <2>2, <2>3, <2>5, <3>1
    <3> QED
      BY <1>2, <3>1, <3>2
  <2>11. \A j \in 1 .. c : k[j] = s[g[j]]
    <3> TAKE j \in 1 .. c
    <3>1. j < c + 1 /\ j \in 1 .. Len(v) - 1
      BY <1>3, <1>4
    <3> QED
      BY <1>2, <2>5, <3>1
  <2> QED
    BY <1>2, <2>1, <2>4, <2>8, <2>9, <2>10, <2>11 DEF FlushedTo, t, y, u, s
<1> QED
  BY <1>6, <1>7, <1>8 DEF FlushStep, s, u

\* The nodes for other windows stay in order, and the others are free; k is any function
\* that gathers their messages one by one.
LEMMA FlushedLists ==
    ASSUME NEW N \in Nat, NEW Q \in Block(N), Sound(Q, N), NEW w, NEW k, k[0] = <<>>,
           \A i \in 1 .. Len(Used(Q)) :
               k[i] = IF Says(Q, Used(Q))[i].hwnd # w
                      THEN Append(k[i - 1], Says(Q, Used(Q))[i]) ELSE k[i - 1]
    PROVE  LET R == Flushed(Q, w)
           IN  /\ R \in Block(N) /\ Sound(R, N) /\ R.Message = Q.Message
               /\ \E h : Thins(h, Used(R), Used(Q))
               /\ Says(Q, Used(R)) = k[Len(Used(Q))]
<1> DEFINE u == Used(Q)
           L == Len(u)
           s == Says(Q, u)
<1>1. u \in Seq(1 .. N) /\ L \in Nat
  BY ShortList DEF Sound, Lists
<1>2. PICK a : /\ Flushed(Q, w) = a[L] /\ a[0] = Q
               /\ \A i \in 1 .. L : a[i] = FlushStep(Q, w, i, a[i - 1])
  <2>1. L = Len(Used(Q))
    OBVIOUS
  <2> HIDE DEF L
  <2> QED
    BY <1>1, <2>1, FlushIs
<1>3. FlushedTo(Q, N, w, 0, Q, <<>>)
  <2> DEFINE h == [j \in 1 .. L |-> j]
  <2>1. h \in [1 .. L -> 1 .. L] /\ Thins(h, u, u)
    BY DEF Thins
  <2>2. \A j \in 1 .. L : h[j] = 0 + j - 0
    OBVIOUS
  <2>3. <<>> \in Seq(Image(s)) /\ Len(<<>>) = 0
    BY EmptySeq
  <2>4. L = 0 + L - 0 /\ 0 \in 0 .. 0
    BY <1>1
  <2> HIDE DEF h
  <2> QED
    BY <2>1, <2>2, <2>3, <2>4 DEF FlushedTo
<1> DEFINE B == {i \in 0 .. L : FlushedTo(Q, N, w, i, a[i], k[i])}
<1>4. \A i \in 0 .. L : i \in B
  <2>1. 0 \in B
    BY <1>1, <1>2, <1>3
  <2>2. \A i \in 1 .. L : i - 1 \in B => i \in B
    <3> TAKE i \in 1 .. L
    <3> HAVE i - 1 \in B
    <3>1. FlushedTo(Q, N, w, i - 1, a[i - 1], k[i - 1]) /\ i \in 0 .. L
      OBVIOUS
    <3>2. FlushedTo(Q, N, w, i, FlushStep(Q, w, i, a[i - 1]),
                    IF s[i].hwnd # w THEN Append(k[i - 1], s[i]) ELSE k[i - 1])
      BY <3>1, FlushStepKeeps
    <3> QED
      BY <1>2, <3>1, <3>2
  <2> HIDE DEF B
  <2> QED
    BY <1>1, <2>1, <2>2, UpTo
<1>5. FlushedTo(Q, N, w, L, a[L], k[L])
  <2>1. L \in 0 .. L
    BY <1>1
  <2> QED
    BY <1>4, <2>1
<1> DEFINE R == Flushed(Q, w)
           v == Used(R)
<1>6. R \in Block(N) /\ Sound(R, N) /\ R.Message = Q.Message
  BY <1>2, <1>5 DEF FlushedTo
<1>7. PICK c \in 0 .. L, h \in [1 .. Len(v) -> 1 .. L] :
         /\ Thins(h, v, u)
         /\ Len(v) = c + L - L
         /\ k[L] \in Seq(Image(s)) /\ Len(k[L]) = c
         /\ \A j \in 1 .. c : k[L][j] = s[h[j]]
  <2>1. FlushedTo(Q, N, w, L, R, k[L])
    BY <1>2, <1>5
  <2> HIDE DEF R
  <2> QED
    BY <2>1 DEF FlushedTo
<1>8. Says(Q, v) = k[L]
  <2>1. c = Len(v)
    BY <1>1, <1>7
  <2>2. k[L] = [j \in 1 .. c |-> k[L][j]]
    BY <1>7, LenProperties
  <2>3. \A j \in 1 .. c : h[j] \in 1 .. L /\ v[j] = u[h[j]]
    BY <1>7, <2>1 DEF Thins
  <2>4. \A j \in 1 .. c : k[L][j] = sent[Q.Message[v[j]]]
    BY <1>7, <2>3 DEF Says
  <2> QED
    BY <2>1, <2>2, <2>4 DEF Says
<1> QED
  BY <1>6, <1>7, <1>8

----------------------------------------------------------------------------
\* The lists stay whole

LEMMA Constants == Types
BY NameAssumption, OwnerAssumption, SizeAssumption, ChildAssumption, InputAssumption,
   RequestAssumption
   DEF Types

LEMMA QueueNames ==
    /\ System \in Queue /\ Task \subseteq Queue /\ System \notin Task
    /\ \A w \in Window : Owner[w] \in Task
    /\ \A q \in Queue : Size[q] \in Nat /\ Size[q] # 0
    /\ MaxMsgs \in Nat /\ NoWindow \notin Window /\ Nobody \notin Task
BY Constants DEF Types, NameAssumption, OwnerAssumption, SizeAssumption, Queue

LEMMA Allocated ==
    ASSUME NEW N \in Nat, N # 0
    PROVE  LET Q == AllocQueue(N)
           IN  Q \in Block(N) /\ Sound(Q, N) /\ Used(Q) = <<>>
<1> DEFINE Q == AllocQueue(N)
           f == [n \in 1 .. N |-> n]
           L == [n \in 1 .. N |-> IF n < N THEN n + 1 ELSE Null]
           M == [n \in 1 .. N |-> 0]
<1>1. Q = [lpQueueNext |-> Null, lpQueueFree |-> 1, lpNextMsg |-> L, Message |-> M]
  BY DEF AllocQueue
<1>2. L \in [1 .. N -> 0 .. N] /\ M \in [1 .. N -> 0 .. MaxMsgs] /\ Null \in 0 .. N /\ 1 \in 0 .. N
  <2>1. MaxMsgs \in Nat
    BY QueueNames
  <2> QED
    BY <2>1 DEF Null
<1>3. f \in Seq(1 .. N) /\ Len(f) = N
  <2>1. f \in [1 .. N -> 1 .. N]
    OBVIOUS
  <2> HIDE DEF f
  <2> QED
    BY <2>1, FunSeq
<1>4. Once(f) /\ Image(f) = 1 .. N
  BY <1>3 DEF Once, Image
<1>5. <<>> \in Seq(1 .. N) /\ Len(<<>>) = 0 /\ Once(<<>>) /\ Image(<<>>) = {}
  <2>1. <<>> \in Seq(1 .. N) /\ Len(<<>>) = 0
    BY EmptySeq
  <2>2. 1 .. 0 = {}
    OBVIOUS
  <2> QED
    BY <2>1, <2>2 DEF Once, Image
<1>6. \A i \in 1 .. N : L[f[i]] = Place(f, i + 1)
  BY <1>3 DEF Place
<1>7. Place(f, 1) = 1
  BY <1>3 DEF Place
<1> HIDE DEF f, L, M, Q
<1>8. Q \in Block(N)
  BY <1>1, <1>2 DEF Block
<1>9. Linked(Q, Q.lpQueueNext, <<>>)
  BY <1>1, <1>5 DEF Linked, Place
<1>10. Linked(Q, Q.lpQueueFree, f)
  BY <1>1, <1>3, <1>6, <1>7 DEF Linked
<1>11. Lists(Q, N, <<>>, f)
  BY <1>3, <1>4, <1>5, <1>9, <1>10 DEF Lists
<1> QED
  BY <1>8, <1>11, SoundFrom DEF Q

LEMMA QueueChanges ==
    ASSUME QueuesOK, NEW q \in Queue, NEW R, Sound(R, Size[q]), queue' = [queue EXCEPT ![q] = R]
    PROVE  QueuesOK' /\ queue'[q] = R /\ \A p \in Queue : p # q => queue'[p] = queue[p]
<1>1. DOMAIN queue = Queue /\ \A p \in Queue : Sound(queue[p], Size[p])
  BY DEF QueuesOK
<1>2. DOMAIN queue' = Queue /\ queue'[q] = R /\ \A p \in Queue : p # q => queue'[p] = queue[p]
  BY <1>1
<1>3. \A p \in Queue : Sound(queue'[p], Size[p])
  BY <1>1, <1>2
<1> QED
  BY <1>2, <1>3 DEF QueuesOK

LEMMA SoundBlock == ASSUME NEW N, NEW Q, Sound(Q, N) PROVE Q \in Block(N)
BY DEF Sound

LEMMA LoopOK ==
    ASSUME NEW s, SearchOK(s), NEW q \in Queue, NEW n \in 0 .. Size[q]
    PROVE  LET z == Loop(s, q, n)
           IN  /\ SearchOK(z) /\ z.at = "Loop" /\ z.queue = q /\ z.lpQueueMsg = n
               /\ z.task = s.task /\ z.hwnd = s.hwnd /\ z.kinds = s.kinds /\ z.remove = s.remove
<1>1. 0 \in 0 .. MaxMsgs /\ n \in Nat /\ 0 \in 0 .. Size[q] /\ Null = 0
  BY QueueNames DEF Null
<1>2. s \in Scan
  BY DEF SearchOK
<1>3. Loop(s, q, n) = [at |-> "Loop", task |-> s.task, hwnd |-> s.hwnd, kinds |-> s.kinds,
                       remove |-> s.remove, queue |-> q, lpQueueMsg |-> n,
                       lpQueueNext |-> 0, id |-> 0]
  <2>1. PICK at, task, hwnd, kinds, remove, p, m, next, id :
           s = [at |-> at, task |-> task, hwnd |-> hwnd, kinds |-> kinds, remove |-> remove,
                queue |-> p, lpQueueMsg |-> m, lpQueueNext |-> next, id |-> id]
    <3>1. s = [at |-> s.at, task |-> s.task, hwnd |-> s.hwnd, kinds |-> s.kinds,
               remove |-> s.remove, queue |-> s.queue, lpQueueMsg |-> s.lpQueueMsg,
               lpQueueNext |-> s.lpQueueNext, id |-> s.id]
      BY <1>2 DEF Scan
    <3> QED
      BY <3>1, Zenon
  <2> DEFINE r1 == [s EXCEPT !.at = "Loop"]
             r2 == [r1 EXCEPT !.queue = q]
             r3 == [r2 EXCEPT !.lpQueueMsg = n]
             r4 == [r3 EXCEPT !.lpQueueNext = Null]
             r5 == [r4 EXCEPT !.id = 0]
  <2>2. Loop(s, q, n) = r5
    BY DEF Loop
  <2>3. r1 = [at |-> "Loop", task |-> task, hwnd |-> hwnd, kinds |-> kinds, remove |-> remove,
             queue |-> p, lpQueueMsg |-> m, lpQueueNext |-> next, id |-> id]
    BY <2>1
  <2> HIDE DEF r1
  <2>4. r2 = [at |-> "Loop", task |-> task, hwnd |-> hwnd, kinds |-> kinds, remove |-> remove,
             queue |-> q, lpQueueMsg |-> m, lpQueueNext |-> next, id |-> id]
    BY <2>3
  <2> HIDE DEF r2
  <2>5. r3 = [at |-> "Loop", task |-> task, hwnd |-> hwnd, kinds |-> kinds, remove |-> remove,
             queue |-> q, lpQueueMsg |-> n, lpQueueNext |-> next, id |-> id]
    BY <2>4
  <2> HIDE DEF r3
  <2>6. r4 = [at |-> "Loop", task |-> task, hwnd |-> hwnd, kinds |-> kinds, remove |-> remove,
             queue |-> q, lpQueueMsg |-> n, lpQueueNext |-> Null, id |-> id]
    BY <2>5
  <2> HIDE DEF r4
  <2>7. r5 = [at |-> "Loop", task |-> task, hwnd |-> hwnd, kinds |-> kinds, remove |-> remove,
             queue |-> q, lpQueueMsg |-> n, lpQueueNext |-> Null, id |-> 0]
    BY <2>6
  <2> HIDE DEF r5
  <2>8. s.task = task /\ s.hwnd = hwnd /\ s.kinds = kinds /\ s.remove = remove
    BY <2>1
  <2> QED
    BY <1>1, <2>2, <2>8, <2>7
<1>4. Loop(s, q, n) \in Scan
  BY <1>1, <1>2, <1>3 DEF Scan
<1> QED
  BY <1>1, <1>3, <1>4 DEF SearchOK

LEMMA ScansReplaced ==
    ASSUME ScansOK, scans # <<>>, NEW s, SearchOK(s), scans' = Replaced(s)
    PROVE  ScansOK' /\ Len(scans') = Len(scans) /\ Len(scans) \in 1 .. Len(scans)
           /\ scans'[Len(scans)] = s
           /\ \A i \in 1 .. Len(scans) - 1 : scans'[i] = scans[i]
<1>1. scans \in Seq(Scan) /\ Len(scans) \in Nat /\ Len(scans) # 0 /\ s \in Scan
  BY EmptySeq, LenProperties DEF ScansOK, SearchOK
<1>2. /\ scans' \in Seq(Scan) /\ Len(scans') = Len(scans)
      /\ \A j \in 1 .. Len(scans) : scans'[j] = IF j = Len(scans) THEN s ELSE scans[j]
  <2>1. Len(scans) \in 1 .. Len(scans)
    BY <1>1
  <2> QED
    BY <1>1, <2>1, ExceptSeq DEF Replaced
<1> QED
  BY <1>1, <1>2 DEF ScansOK

LEMMA ScansReturned ==
    ASSUME ScansOK, scans # <<>>, scans' = Returned
    PROVE  ScansOK' /\ Len(scans') = Len(scans) - 1 /\ Len(scans) \in 1 .. Len(scans)
           /\ \A i \in 1 .. Len(scans) - 1 : scans'[i] = scans[i]
<1> DEFINE n == Len(scans) - 1
<1>1. scans \in Seq(Scan) /\ Len(scans) \in Nat /\ Len(scans) # 0
      /\ \A i \in 1 .. Len(scans) : scans[i] \in Scan
  <2>1. scans \in Seq(Scan)
    BY DEF ScansOK
  <2> QED
    BY <2>1, EmptySeq, LenProperties, ElementOfSeq
<1>2. n \in Nat /\ n - 1 + 1 = n /\ (IF 1 <= n THEN n - 1 + 1 ELSE 0) = n
      /\ \A i \in 1 .. n : i \in 1 .. Len(scans) /\ 1 + i - 1 = i
  <2>1. \A m \in Nat \ {0} :
           /\ m - 1 \in Nat /\ (m - 1) - 1 + 1 = m - 1
           /\ (IF 1 <= m - 1 THEN (m - 1) - 1 + 1 ELSE 0) = m - 1
           /\ \A i \in 1 .. m - 1 : i \in 1 .. m /\ 1 + i - 1 = i
    OBVIOUS
  <2> QED
    BY <1>1, <2>1
<1>3. scans' = SubSeq(scans, 1, n)
  BY DEF Returned
<1> HIDE DEF n
<1>4. /\ SubSeq(scans, 1, n) \in Seq(Scan)
      /\ Len(SubSeq(scans, 1, n)) = IF 1 <= n THEN n - 1 + 1 ELSE 0
      /\ \A i \in 1 .. n - 1 + 1 : SubSeq(scans, 1, n)[i] = scans[1 + i - 1]
  <2>1. \A i \in 1 .. n : scans[i] \in Scan
    BY <1>1, <1>2
  <2>2. 1 \in Int /\ n \in Int
    BY <1>2
  <2> QED
    BY <2>1, <2>2, SubSeqProperties
<1>5. scans' \in Seq(Scan) /\ Len(scans') = n /\ \A i \in 1 .. n : scans'[i] = scans[i]
  BY <1>2, <1>3, <1>4
<1>6. n = Len(scans) - 1
  BY DEF n
<1> QED
  BY <1>1, <1>2, <1>5, <1>6 DEF ScansOK

LEMMA TopOK ==
    ASSUME ScansOK, scans # <<>>
    PROVE  SearchOK(Top) /\ Top \in Scan /\ Top.queue \in Queue /\ Top.task \in Task
           /\ Top.remove \in BOOLEAN /\ Top.at \in {"Loop", "Forward"}
<1>1. Len(scans) \in 1 .. Len(scans)
  BY EmptySeq, LenProperties DEF ScansOK
<1>2. SearchOK(Top)
  BY <1>1 DEF ScansOK, Top
<1> QED
  BY <1>2 DEF SearchOK, Scan

\* What may become of a message.
Verdicts == {"flush", "skip", "drop", "take"}

\* What Settle does to the queue: the message at n stays or goes.
LEMMA SettledQueue ==
    ASSUME QueuesOK, NEW s, s.queue \in Queue, NEW n \in 1 .. Size[s.queue], NEW id, NEW next,
           NEW verdict, Settle(s, n, id, next, verdict)
    PROVE  LET q == s.queue
               removed == verdict = "flush" \/ (verdict # "skip" /\ s.remove)
           IN  /\ QueuesOK' /\ \A p \in Queue : p # q => queue'[p] = queue[p]
               /\ queue'[q].Message = queue[q].Message
               /\ \/ /\ ~ (removed /\ n \in Image(Used(queue[q])))
                     /\ queue' = queue
                  \/ /\ removed
                     /\ \E k \in 1 .. Len(Used(queue[q])) :
                           /\ Used(queue[q])[k] = n
                           /\ Used(queue'[q]) = Cut(Used(queue[q]), k)
               /\ crashed' = (removed /\ n \notin Image(Used(queue[q])))
<1> DEFINE q == s.queue
           Q == queue[q]
           removed == verdict = "flush" \/ (verdict # "skip" /\ s.remove)
           found == Q.lpQueueNext = n \/ Before(Q, n) # {}
           R == Unlink(Q, n, Prev(Q, n))
<1>1. Sound(Q, Size[q]) /\ Size[q] \in Nat /\ Q \in Block(Size[q])
  BY QueueNames, SoundBlock DEF QueuesOK
<1>2. found <=> n \in Image(Used(Q))
  BY <1>1, FoundIf
<1>3. /\ queue' = IF removed /\ found THEN [queue EXCEPT ![q] = R] ELSE queue
      /\ crashed' = (removed /\ ~found)
  BY DEF Settle
<1>4. CASE removed /\ n \in Image(Used(Q))
  <2>1. PICK k \in 1 .. Len(Used(Q)) : Used(Q)[k] = n
    BY <1>4 DEF Image
  <2>2. Sound(R, Size[q]) /\ R.Message = Q.Message /\ Used(R) = Cut(Used(Q), k)
    BY <1>1, <2>1, UnlinkLists
  <2>3. queue' = [queue EXCEPT ![q] = R]
    BY <1>2, <1>3, <1>4
  <2>4. crashed' = (removed /\ n \notin Image(Used(Q)))
    BY <1>2, <1>3
  <2> HIDE DEF R, found
  <2>5. QueuesOK' /\ queue'[q] = R /\ \A p \in Queue : p # q => queue'[p] = queue[p]
    BY <2>2, <2>3, QueueChanges
  <2> QED
    BY <1>4, <2>1, <2>2, <2>4, <2>5
<1>5. CASE ~ (removed /\ n \in Image(Used(Q)))
  <2>1. queue' = queue /\ crashed' = (removed /\ n \notin Image(Used(Q)))
    BY <1>2, <1>3, <1>5
  <2>2. QueuesOK'
    BY <2>1 DEF QueuesOK
  <2> QED
    BY <1>5, <2>1, <2>2
<1> QED
  BY <1>4, <1>5

LEMMA SettleLinks ==
    ASSUME LinkInv, scans # <<>>, NEW n \in 1 .. Size[Top.queue], NEW id \in 0 .. MaxMsgs,
           NEW next \in 0 .. Size[Top.queue], NEW verdict, Settle(Top, n, id, next, verdict)
    PROVE  LinkInv'
<1>1. QueuesOK /\ ScansOK /\ RestOK
  BY DEF LinkInv
<1>2. SearchOK(Top) /\ Top.queue \in Queue /\ Top.task \in Task
  BY <1>1, TopOK
<1>3. QueuesOK'
  BY <1>1, <1>2, SettledQueue
<1>4. ScansOK'
  <2>1. CASE verdict = "take"
    <3>1. scans' = Returned
      BY <2>1 DEF Settle
    <3> QED
      BY <1>1, <3>1, ScansReturned
  <2>2. CASE verdict # "take"
    <3>1. scans' = Replaced(Loop(Top, Top.queue, next))
      BY <2>2 DEF Settle
    <3>2. SearchOK(Loop(Top, Top.queue, next))
      BY <1>2, LoopOK
    <3> QED
      BY <1>1, <3>1, <3>2, ScansReplaced
  <2> QED
    BY <2>1, <2>2
<1>5. RestOK'
  <2>1. crashed' \in BOOLEAN /\ window' = window /\ sent' = sent
    BY DEF Settle
  <2>2. taken' \in [1 .. MaxMsgs -> Task \cup {Nobody}]
    <3>1. taken \in [1 .. MaxMsgs -> Task \cup {Nobody}]
      BY <1>1 DEF RestOK
    <3>2. taken' = taken \/ taken' = [taken EXCEPT ![id] = Top.task]
      BY DEF Settle
    <3> HIDE DEF Top
    <3> QED
      BY <1>2, <3>1, <3>2
  <2> QED
    BY <1>1, <2>1, <2>2 DEF RestOK
<1> QED
  BY <1>3, <1>4, <1>5 DEF LinkInv

LEMMA TopNodes ==
    ASSUME QueuesOK, NEW q \in Queue
    PROVE  /\ queue[q].lpQueueNext \in 0 .. Size[q]
           /\ queue[q].Message \in [1 .. Size[q] -> 0 .. MaxMsgs]
           /\ \A n \in 1 .. Size[q] : queue[q].lpNextMsg[n] \in 0 .. Size[q]
                                      /\ queue[q].Message[n] \in 0 .. MaxMsgs
<1>1. queue[q] \in Block(Size[q])
  BY SoundBlock DEF QueuesOK
<1> QED
  BY <1>1 DEF Block

\* The search in the procedures that are asked.
Forwarded(T, next, id) == [T EXCEPT !.at = "Forward", !.lpQueueNext = next, !.id = id]

LEMMA ForwardOK ==
    ASSUME NEW T, SearchOK(T), T.queue \in Queue, T.lpQueueMsg # Null,
           NEW next \in 0 .. Size[T.queue], NEW id \in 0 .. MaxMsgs, NEW s,
           s = Forwarded(T, next, id)
    PROVE  /\ SearchOK(s) /\ s.at = "Forward" /\ s.queue = T.queue
           /\ s.lpQueueMsg = T.lpQueueMsg /\ s.lpQueueNext = next /\ s.id = id
           /\ s.task = T.task /\ s.hwnd = T.hwnd /\ s.kinds = T.kinds
           /\ s.remove = T.remove
<1> DEFINE r == [T EXCEPT !.at = "Forward"]
           z == [r EXCEPT !.lpQueueNext = next]
           Same(x) == /\ x.queue = T.queue /\ x.lpQueueMsg = T.lpQueueMsg /\ x.task = T.task
                      /\ x.hwnd = T.hwnd /\ x.kinds = T.kinds /\ x.remove = T.remove
<1>1. T \in Scan /\ T.lpQueueMsg \in 0 .. Size[T.queue] /\ Size[T.queue] \in Nat
  BY QueueNames DEF SearchOK
<1>2. next \in Nat
  BY <1>1
<1>3. r \in Scan /\ r.at = "Forward" /\ Same(r)
  BY <1>1 DEF Scan
<1> HIDE DEF r
<1>4. z \in Scan /\ z.at = "Forward" /\ z.lpQueueNext = next /\ Same(z)
  BY <1>2, <1>3 DEF Scan
<1>5. s = [z EXCEPT !.id = id]
  BY DEF r, Forwarded
<1> HIDE DEF z
<1>6. s \in Scan /\ s.at = "Forward" /\ s.lpQueueNext = next /\ s.id = id /\ Same(s)
  BY <1>4, <1>5 DEF Scan
<1>7. SearchOK(s)
  BY <1>1, <1>6 DEF SearchOK
<1> QED
  BY <1>6, <1>7

LEMMA ScanMessageLinks == ASSUME LinkInv, ScanMessage PROVE LinkInv'
<1> DEFINE q == Top.queue
           n == Top.lpQueueMsg
           id == queue[q].Message[n]
           next == queue[q].lpNextMsg[n]
           w == sent[id].hwnd
           gone == w # NoWindow /\ window[w] = "gone"
           s == [Top EXCEPT !.at = "Forward", !.lpQueueNext = next, !.id = id]
<1>1. QueuesOK /\ ScansOK /\ RestOK
  BY DEF LinkInv
<1>2. scans # <<>> /\ n # Null
  BY DEF ScanMessage, AtLoop
<1>3. SearchOK(Top) /\ q \in Queue /\ Top \in Scan
  BY <1>1, <1>2, TopOK
<1>4. n \in 1 .. Size[q]
  <2>1. n \in 0 .. Size[q] /\ Size[q] \in Nat
    BY <1>3, QueueNames DEF SearchOK
  <2> QED
    BY <1>2, <2>1 DEF Null
<1>5. id \in 0 .. MaxMsgs /\ next \in 0 .. Size[q] /\ next \in Nat
  BY <1>1, <1>3, <1>4, TopNodes
<1>6. CASE q = System /\ sent[id].kind = "mouse" /\ ~gone
  <2>1. scans' = Replaced(s) /\ UNCHANGED <<queue, window, sent, taken, crashed>>
    BY <1>6 DEF ScanMessage
  <2>2. SearchOK(s)
    <3>1. s = Forwarded(Top, next, id)
      BY DEF Forwarded
    <3> HIDE DEF next, id, s
    <3> QED
      BY <1>2, <1>3, <1>5, <3>1, ForwardOK
  <2> HIDE DEF s
  <2>3. ScansOK'
    BY <1>1, <1>2, <2>1, <2>2, ScansReplaced
  <2> QED
    BY <1>1, <2>1, <2>3 DEF LinkInv, QueuesOK, RestOK
<1>7. CASE ~ (q = System /\ sent[id].kind = "mouse" /\ ~gone)
  <2>1. Settle(Top, n, id, next, Verdict(Top, id, w, gone))
    BY <1>7 DEF ScanMessage
  <2> HIDE DEF n, id, next, w, gone
  <2> QED
    BY <1>2, <1>4, <1>5, <2>1, SettleLinks
<1> QED
  BY <1>6, <1>7

LEMMA ForwardReturnsLinks ==
    ASSUME LinkInv, NEW w, ForwardReturns(w)
    PROVE  LinkInv'
<1>1. scans # <<>> /\ Top.at = "Forward"
  BY DEF ForwardReturns, InProcedure
<1>2. SearchOK(Top) /\ Top \in Scan /\ Top.queue \in Queue /\ Size[Top.queue] \in Nat
  BY <1>1, TopOK, QueueNames DEF LinkInv
<1>3. Top.lpQueueMsg \in 1 .. Size[Top.queue] /\ Top.lpQueueNext \in 0 .. Size[Top.queue]
  BY <1>1, <1>2 DEF SearchOK, Null
<1>4. Top.id \in 0 .. MaxMsgs
  BY <1>2 DEF Scan
<1> DEFINE v == IF w = NoWindow THEN "skip" ELSE Verdict(Top, Top.id, w, FALSE)
<1>5. Settle(Top, Top.lpQueueMsg, Top.id, Top.lpQueueNext, v)
  BY DEF ForwardReturns
<1> HIDE DEF v
<1> QED
  BY <1>1, <1>3, <1>4, <1>5, SettleLinks

LEMMA AddLinks ==
    ASSUME LinkInv, NEW q \in Queue, NEW front \in BOOLEAN, NEW hwnd \in Window \cup {NoWindow},
           NEW kind \in Kind, NEW receiver \in Task, QueueAddMsg(q, front, hwnd, kind, receiver)
    PROVE  LET Q == queue[q]
           IN  /\ LinkInv' /\ \A p \in Queue : p # q => queue'[p] = queue[p]
               /\ Q.lpQueueFree \in 1 .. Size[q] /\ Q.lpQueueFree \notin Image(Used(Q))
               /\ Spot(Q, front) \in 1 .. Len(Used(Q)) + 1
               /\ queue'[q].Message = [Q.Message EXCEPT ![Q.lpQueueFree] = Len(sent) + 1]
               /\ Used(queue'[q]) = Put(Used(Q), Spot(Q, front), Q.lpQueueFree)
<1> DEFINE Q == queue[q]
           R == Inserted(Q, front, Len(sent) + 1)
           m == [id |-> Len(sent) + 1, hwnd |-> hwnd, kind |-> kind, receiver |-> receiver]
<1>1. QueuesOK /\ ScansOK /\ RestOK /\ Size[q] \in Nat /\ Sound(Q, Size[q])
      /\ Q \in Block(Size[q]) /\ MaxMsgs \in Nat
  BY QueueNames, SoundBlock DEF LinkInv, QueuesOK
<1>2. /\ Len(sent) < MaxMsgs /\ Q.lpQueueFree # Null /\ sent' = Append(sent, m)
      /\ queue' = [queue EXCEPT ![q] = R] /\ UNCHANGED <<window, scans, taken, crashed>>
  BY DEF QueueAddMsg
<1>3. sent \in Seq(Sent) /\ Len(sent) \in Nat /\ Len(sent) + 1 \in 0 .. MaxMsgs
      /\ Len(sent) + 1 \in 1 .. MaxMsgs
  <2>1. sent \in Seq(Sent)
    BY <1>1 DEF RestOK
  <2>2. Len(sent) \in Nat
    BY <2>1, LenProperties
  <2> QED
    BY <1>1, <1>2, <2>1, <2>2
<1>4. /\ Sound(R, Size[q]) /\ Q.lpQueueFree \in 1 .. Size[q] /\ Q.lpQueueFree \notin Image(Used(Q))
      /\ Spot(Q, front) \in 1 .. Len(Used(Q)) + 1
      /\ R.Message = [Q.Message EXCEPT ![Q.lpQueueFree] = Len(sent) + 1]
      /\ Used(R) = Put(Used(Q), Spot(Q, front), Q.lpQueueFree)
  BY <1>1, <1>2, <1>3, InsertLists
<1> HIDE DEF R
<1>5. QueuesOK' /\ queue'[q] = R /\ \A p \in Queue : p # q => queue'[p] = queue[p]
  BY <1>1, <1>2, <1>4, QueueChanges
<1>6. RestOK'
  <2>1. m \in Sent
    BY <1>3 DEF Sent
  <2> HIDE DEF m
  <2>2. sent' \in Seq(Sent) /\ Len(sent') = Len(sent) + 1
    BY <1>2, <1>3, <2>1, AppendProperties
  <2> QED
    BY <1>1, <1>2, <1>3, <2>2 DEF RestOK
<1>7. ScansOK'
  BY <1>1, <1>2 DEF ScansOK
<1> QED
  BY <1>4, <1>5, <1>6, <1>7 DEF LinkInv

\* What the senders have in common.
Sends(q, front, m) ==
    /\ q \in Queue /\ front \in BOOLEAN /\ m \in Sent /\ m.id = Len(sent) + 1
    /\ QueueAddMsg(q, front, m.hwnd, m.kind, m.receiver)

\* A message that is put in front or into the system's queue from elsewhere is not posted;
\* a task's queue has what is posted to its own windows.
Fits(q, front, m) ==
    /\ m.kind = "mouse" => m.hwnd # NoWindow
    /\ q \in Task /\ m.hwnd # NoWindow => Owner[m.hwnd] = q
    /\ front => m.kind \notin Ordered

LEMMA SentBy ==
    ASSUME NEW q \in Queue, NEW front \in BOOLEAN, NEW hwnd \in Window \cup {NoWindow},
           NEW kind \in Kind, NEW receiver \in Task, LinkInv,
           QueueAddMsg(q, front, hwnd, kind, receiver),
           kind = "mouse" => hwnd # NoWindow,
           q \in Task /\ hwnd # NoWindow => Owner[hwnd] = q,
           front => kind \notin Ordered
    PROVE  \E m : Sends(q, front, m) /\ Fits(q, front, m)
<1> DEFINE m == [id |-> Len(sent) + 1, hwnd |-> hwnd, kind |-> kind, receiver |-> receiver]
<1>1. Len(sent) + 1 \in 1 .. MaxMsgs
  <2>1. sent \in Seq(Sent) /\ Len(sent) < MaxMsgs /\ MaxMsgs \in Nat
    BY QueueNames DEF LinkInv, RestOK, QueueAddMsg
  <2>2. Len(sent) \in Nat
    BY <2>1, LenProperties
  <2> QED
    BY <2>1, <2>2
<1>2. m \in Sent /\ m.id = Len(sent) + 1 /\ m.hwnd = hwnd /\ m.kind = kind /\ m.receiver = receiver
  BY <1>1 DEF Sent
<1> HIDE DEF m
<1>3. Sends(q, front, m)
  BY <1>2 DEF Sends
<1>4. Fits(q, front, m)
  BY <1>2 DEF Fits
<1> QED
  BY <1>3, <1>4

LEMMA SenderCases ==
    ASSUME LinkInv,
           \/ \E w \in Window : PostMessage(w)
           \/ \E i \in Inputs : DriverEvent(i[1], i[2])
           \/ \E t \in Task : PostToSelf(t) \/ PostAppMessage(t) \/ PostQuitMessage(t)
    PROVE  \E q, front, m : Sends(q, front, m) /\ Fits(q, front, m)
<1>1. {"mouse", "key", "other", "quit"} \subseteq Kind /\ "quit" \notin Ordered
  BY DEF Kind, Ordered
<1>2. TRUE \in BOOLEAN /\ FALSE \in BOOLEAN
  OBVIOUS
<1>3. ASSUME NEW w \in Window, PostMessage(w)
      PROVE  \E q, front, m : Sends(q, front, m) /\ Fits(q, front, m)
  <2> DEFINE q == IF window[w] = "gone" THEN System ELSE Owner[w]
  <2>1. q \in Queue /\ (q \in Task => Owner[w] = q) /\ Owner[w] \in Task
    BY QueueNames
  <2>2. QueueAddMsg(q, FALSE, w, "other", Owner[w]) /\ "other" # "mouse"
    BY <1>3 DEF PostMessage
  <2> HIDE DEF q
  <2>3. \E m : Sends(q, FALSE, m) /\ Fits(q, FALSE, m)
    BY <1>1, <1>2, <2>1, <2>2, SentBy
  <2> QED
    BY <2>3
<1>4. ASSUME NEW i \in Inputs, DriverEvent(i[1], i[2])
      PROVE  \E q, front, m : Sends(q, front, m) /\ Fits(q, front, m)
  <2>1. i[1] \in Window /\ i[2] \in {"mouse", "key"}
    BY Constants DEF Types, InputAssumption
  <2>2. QueueAddMsg(System, FALSE, i[1], i[2], Owner[i[1]])
    BY <1>4 DEF DriverEvent
  <2>3. i[2] \in Kind /\ i[1] # NoWindow /\ Owner[i[1]] \in Task /\ System \in Queue
        /\ System \notin Task
    BY <1>1, <2>1, QueueNames
  <2>4. \E m : Sends(System, FALSE, m) /\ Fits(System, FALSE, m)
    BY <1>2, <2>1, <2>2, <2>3, SentBy
  <2> QED
    BY <2>4
<1>5. ASSUME NEW t \in Task, PostToSelf(t) \/ PostAppMessage(t) \/ PostQuitMessage(t)
      PROVE  \E q, front, m : Sends(q, front, m) /\ Fits(q, front, m)
  <2>1. t \in Queue /\ System \in Queue /\ NoWindow \in Window \cup {NoWindow}
        /\ "other" # "mouse" /\ "quit" # "mouse"
    BY QueueNames
  <2>2. CASE PostToSelf(t)
    <3>1. QueueAddMsg(System, FALSE, NoWindow, "other", t)
      BY <2>2 DEF PostToSelf
    <3>2. \E m : Sends(System, FALSE, m) /\ Fits(System, FALSE, m)
      BY <1>1, <1>2, <2>1, <3>1, SentBy
    <3> QED
      BY <3>2
  <2>3. CASE PostAppMessage(t)
    <3>1. QueueAddMsg(t, FALSE, NoWindow, "other", t)
      BY <2>3 DEF PostAppMessage
    <3>2. \E m : Sends(t, FALSE, m) /\ Fits(t, FALSE, m)
      BY <1>1, <1>2, <2>1, <3>1, SentBy
    <3> QED
      BY <3>2
  <2>4. CASE PostQuitMessage(t)
    <3>1. QueueAddMsg(t, TRUE, NoWindow, "quit", t)
      BY <2>4 DEF PostQuitMessage
    <3>2. \E m : Sends(t, TRUE, m) /\ Fits(t, TRUE, m)
      BY <1>1, <1>2, <2>1, <3>1, SentBy
    <3> QED
      BY <3>2
  <2> QED
    BY <1>5, <2>2, <2>3, <2>4
<1> QED
  BY <1>3, <1>4, <1>5

LEMMA TranslateCase ==
    ASSUME LinkInv, NEW n \in 1 .. Len(sent), TranslateMessage(n)
    PROVE  \E q, front, m : Sends(q, front, m) /\ Fits(q, front, m)
<1>1. sent[n] \in Sent
  BY ElementOfSeq DEF LinkInv, RestOK
<1>2. sent[n].hwnd \in Window \cup {NoWindow} /\ sent[n].receiver \in Task
  BY <1>1 DEF Sent
<1>3. "char" \in Kind /\ "char" \notin Ordered /\ "char" # "mouse" /\ TRUE \in BOOLEAN
  BY DEF Kind, Ordered
<1>4. QueueAddMsg(System, TRUE, sent[n].hwnd, "char", sent[n].receiver)
  BY DEF TranslateMessage
<1>5. System \in Queue /\ System \notin Task
  BY QueueNames
<1>6. \E m : Sends(System, TRUE, m) /\ Fits(System, TRUE, m)
  BY <1>2, <1>3, <1>4, <1>5, SentBy
<1> QED
  BY <1>6

LEMMA SendLinks ==
    ASSUME LinkInv, NEW q, NEW front, NEW m, Sends(q, front, m)
    PROVE  LET Q == queue[q]
           IN  /\ LinkInv' /\ \A p \in Queue : p # q => queue'[p] = queue[p]
               /\ Q.lpQueueFree \in 1 .. Size[q] /\ Q.lpQueueFree \notin Image(Used(Q))
               /\ Spot(Q, front) \in 1 .. Len(Used(Q)) + 1
               /\ queue'[q].Message = [Q.Message EXCEPT ![Q.lpQueueFree] = Len(sent) + 1]
               /\ Used(queue'[q]) = Put(Used(Q), Spot(Q, front), Q.lpQueueFree)
<1>1. /\ q \in Queue /\ front \in BOOLEAN /\ m.hwnd \in Window \cup {NoWindow}
      /\ m.kind \in Kind /\ m.receiver \in Task
      /\ QueueAddMsg(q, front, m.hwnd, m.kind, m.receiver)
  BY DEF Sends, Sent
<1> QED
  BY <1>1, AddLinks

\* The recursion of the abstract specification.
LEMMA KeptIs ==
    ASSUME NEW s, NEW w, NEW L \in Nat, L = Len(s)
    PROVE  \E k : /\ Fifo!Kept(s, w) = k[L] /\ k[0] = <<>>
                  /\ \A i \in 1 .. L : k[i] = IF s[i].hwnd # w THEN Append(k[i - 1], s[i])
                                              ELSE k[i - 1]
<1> DEFINE next(i, x) == IF s[i].hwnd # w THEN Append(x, s[i]) ELSE x
           step(n, g) == [i \in 0 .. n |-> IF i = 0 THEN <<>> ELSE next(i, g[i - 1])]
           B == {n \in 0 .. L : \E g : g = step(n, g)}
<1>1. 0 \in B
  <2> DEFINE g == [i \in 0 .. 0 |-> <<>>]
  <2>1. g = step(0, g)
    OBVIOUS
  <2> HIDE DEF step, g
  <2> QED
    BY <2>1
<1> HIDE DEF next
<1>2. ASSUME NEW n \in 1 .. L, n - 1 \in B
      PROVE  n \in B
  <2>1. PICK g : g = step(n - 1, g)
    BY <1>2
  <2> DEFINE e == [i \in 0 .. n |-> IF i = n THEN next(i, g[i - 1]) ELSE g[i]]
  <2>2. \A i \in 0 .. n - 1 : g[i] = IF i = 0 THEN <<>> ELSE next(i, g[i - 1])
    BY <2>1
  <2>3. \A i \in 0 .. n : e[i] = IF i = 0 THEN <<>> ELSE next(i, e[i - 1])
    <3> TAKE i \in 0 .. n
    <3>1. CASE i = n
      <4>1. i # 0 /\ i - 1 \in 0 .. n /\ i - 1 # n
        BY <3>1
      <4>2. e[i - 1] = g[i - 1]
        BY <4>1
      <4> QED
        BY <3>1, <4>1, <4>2
    <3>2. CASE i # n
      <4>1. i \in 0 .. n - 1 /\ e[i] = g[i]
        BY <3>2
      <4>2. i # 0 => i - 1 \in 0 .. n /\ i - 1 # n
        BY <3>2
      <4>3. i # 0 => e[i - 1] = g[i - 1]
        BY <4>2
      <4> QED
        BY <2>2, <4>1, <4>3
    <3> QED
      BY <3>1, <3>2
  <2>4. e = step(n, e)
    <3>1. e = [i \in 0 .. n |-> e[i]]
      OBVIOUS
    <3> HIDE DEF e
    <3> QED
      BY <2>3, <3>1
  <2>5. n \in 0 .. L
    OBVIOUS
  <2> HIDE DEF e, step
  <2> QED
    BY <2>4, <2>5
<1>3. L \in B
  <2> HIDE DEF B
  <2>1. \A i \in 1 .. L : i - 1 \in B => i \in B
    BY <1>2
  <2>2. \A i \in 0 .. L : i \in B
    BY <1>1, <2>1, UpTo
  <2>3. L \in 0 .. L
    OBVIOUS
  <2> QED
    BY <2>2, <2>3
<1> DEFINE k == CHOOSE g : g = step(L, g)
<1>4. k = step(L, k)
  BY <1>3
<1>5. Fifo!Kept(s, w) = k[L]
  BY DEF Fifo!Kept, next
<1> HIDE DEF k
<1>6. k[0] = <<>> /\ \A i \in 1 .. L : k[i] = next(i, k[i - 1])
  <2>1. \A i \in 0 .. L : k[i] = IF i = 0 THEN <<>> ELSE next(i, k[i - 1])
    BY <1>4
  <2>2. \A i \in 1 .. L : i \in 0 .. L /\ i # 0
    OBVIOUS
  <2> QED
    BY <2>1, <2>2
<1> QED
  BY <1>5, <1>6 DEF next

LEMMA SaysLength ==
    ASSUME NEW Q, NEW u, Len(u) \in Nat
    PROVE  Len(Says(Q, u)) = Len(u) /\ \A i \in 1 .. Len(u) : Says(Q, u)[i] = sent[Q.Message[u[i]]]
<1> DEFINE s == Says(Q, u)
<1>1. s \in [1 .. Len(u) -> {sent[Q.Message[u[j]]] : j \in 1 .. Len(u)}]
  BY DEF Says
<1>2. \A i \in 1 .. Len(u) : s[i] = sent[Q.Message[u[i]]]
  BY DEF Says
<1> HIDE DEF s
<1>3. Len(s) = Len(u)
  BY <1>1, FunSeq
<1> QED
  BY <1>2, <1>3 DEF s

\* What happens to the window's queue.
LEMMA FlushLinks ==
    ASSUME QueuesOK, NEW w \in Window, TWIN_FlushWindowMessages(w)
    PROVE  LET q == Owner[w]
           IN  /\ QueuesOK' /\ \A p \in Queue : p # q => queue'[p] = queue[p]
               /\ queue'[q].Message = queue[q].Message
               /\ \E h : Thins(h, Used(queue'[q]), Used(queue[q]))
               /\ Says(queue[q], Used(queue'[q]))
                      = Fifo!Kept(Says(queue[q], Used(queue[q])), w)
<1> DEFINE q == Owner[w]
           Q == queue[q]
           u == Used(Q)
           s == Says(Q, u)
           R == Flushed(Q, w)
<1>1. q \in Queue /\ Sound(Q, Size[q]) /\ Size[q] \in Nat /\ Q \in Block(Size[q])
  BY QueueNames, SoundBlock DEF QueuesOK
<1>2. Len(u) \in Nat
  BY <1>1, ShortList DEF Sound, Lists
<1>3. Len(s) = Len(u)
  BY <1>2, SaysLength
<1>4. PICK k : /\ Fifo!Kept(s, w) = k[Len(u)] /\ k[0] = <<>>
               /\ \A i \in 1 .. Len(u) : k[i] = IF s[i].hwnd # w THEN Append(k[i - 1], s[i])
                                                ELSE k[i - 1]
  <2> HIDE DEF s, u
  <2> QED
    BY <1>2, <1>3, KeptIs
<1>5. /\ Sound(R, Size[q]) /\ R.Message = Q.Message
      /\ \E h : Thins(h, Used(R), u)
      /\ Says(Q, Used(R)) = k[Len(u)]
  BY <1>1, <1>4, FlushedLists
<1>6. queue' = [queue EXCEPT ![q] = R]
  BY DEF TWIN_FlushWindowMessages
<1> HIDE DEF R
<1>7. QueuesOK' /\ queue'[q] = R /\ \A p \in Queue : p # q => queue'[p] = queue[p]
  BY <1>1, <1>5, <1>6, QueueChanges
<1> QED
  BY <1>4, <1>5, <1>7

LEMMA DestroyLinks ==
    ASSUME LinkInv, NEW w \in Closing, NEW state \in {"dead", "gone"}, DestroyWindow(w, state)
    PROVE  LinkInv'
<1>1. w \in Window
  BY Constants DEF Types, OwnerAssumption
<1>2. QueuesOK' /\ ScansOK'
  BY <1>1, FlushLinks DEF DestroyWindow, LinkInv, ScansOK
<1>3. RestOK'
  BY DEF DestroyWindow, LinkInv, RestOK
<1> QED
  BY <1>2, <1>3 DEF LinkInv

LEMMA EnableLinks ==
    ASSUME LinkInv, NEW w, NEW state \in {"live", "disabled"}, EnableWindow(w, state)
    PROVE  LinkInv'
BY DEF EnableWindow, LinkInv, QueuesOK, ScansOK, RestOK

LEMMA ScanEndLinks == ASSUME LinkInv, ScanEnd PROVE LinkInv'
<1>1. QueuesOK /\ ScansOK /\ scans # <<>>
  BY DEF LinkInv, ScanEnd, AtLoop
<1>2. SearchOK(Top) /\ System \in Queue /\ queue[System].lpQueueNext \in 0 .. Size[System]
  BY <1>1, TopOK, QueueNames, TopNodes
<1>3. QueuesOK' /\ RestOK'
  BY DEF LinkInv, ScanEnd, QueuesOK, RestOK
<1>4. ScansOK'
  <2>1. CASE Top.queue = System
    <3>1. scans' = Returned
      BY <2>1 DEF ScanEnd
    <3> QED
      BY <1>1, <3>1, ScansReturned
  <2>2. CASE Top.queue # System
    <3> DEFINE s == Loop(Top, System, queue[System].lpQueueNext)
    <3>1. scans' = Replaced(s)
      BY <2>2 DEF ScanEnd
    <3>2. SearchOK(s)
      BY <1>2, LoopOK
    <3> HIDE DEF s
    <3> QED
      BY <1>1, <3>1, <3>2, ScansReplaced
  <2> QED
    BY <2>1, <2>2
<1> QED
  BY <1>3, <1>4 DEF LinkInv

\* A search begins at the first node of its queue.
LEMMA GetLinks ==
    ASSUME LinkInv, NEW t \in Task, NEW r \in Requests, GetMessage(t, r)
    PROVE  /\ LinkInv' /\ Len(scans) \in Nat /\ Len(scans') = Len(scans) + 1
           /\ \A i \in 1 .. Len(scans) : scans'[i] = scans[i]
           /\ LET s == scans'[Len(scans) + 1]
              IN  s.at = "Loop" /\ s.queue \in Queue
                  /\ s.lpQueueMsg = queue[s.queue].lpQueueNext
<1> DEFINE asked == IF r.hwnd # NoWindow /\ window[r.hwnd] # "gone" THEN r.hwnd ELSE NoWindow
           q == IF asked # NoWindow THEN Owner[asked] ELSE t
           s == [at |-> "Loop", task |-> t, hwnd |-> asked, kinds |-> r.kinds,
                 remove |-> r.remove, queue |-> q, lpQueueMsg |-> queue[q].lpQueueNext,
                 lpQueueNext |-> Null, id |-> 0]
<1>1. r \in [hwnd : Window \cup {NoWindow}, kinds : SUBSET Kind, remove : BOOLEAN]
  BY Constants DEF Types, RequestAssumption
<1>2. r.hwnd \in Window \cup {NoWindow} /\ r.kinds \in SUBSET Kind /\ r.remove \in BOOLEAN
  BY <1>1
<1>3. asked \in Window \cup {NoWindow}
  BY <1>2
<1> HIDE DEF asked
<1>4. q \in Queue
  BY <1>3, QueueNames
<1>5. scans' = Append(scans, s) /\ UNCHANGED <<queue, window, sent, taken, crashed>>
  BY DEF GetMessage, asked
<1> HIDE DEF q
<1>6. queue[q].lpQueueNext \in 0 .. Size[q] /\ Size[q] \in Nat /\ MaxMsgs \in Nat
  BY <1>4, TopNodes, QueueNames DEF LinkInv
<1>7. s \in Scan /\ SearchOK(s)
  <2> DEFINE n == queue[q].lpQueueNext
  <2>1. n \in 0 .. Size[q] /\ n \in Nat /\ 0 \in 0 .. MaxMsgs /\ 0 \in 0 .. Size[q] /\ Null = 0
    BY <1>6 DEF Null
  <2> HIDE DEF n
  <2>2. s = [at |-> "Loop", task |-> t, hwnd |-> asked, kinds |-> r.kinds,
             remove |-> r.remove, queue |-> q, lpQueueMsg |-> n, lpQueueNext |-> 0, id |-> 0]
    BY <2>1 DEF n
  <2> HIDE DEF s
  <2>3. s \in Scan
    BY <1>2, <1>3, <1>4, <2>1, <2>2 DEF Scan
  <2>4. s.at = "Loop" /\ s.lpQueueMsg = n /\ s.lpQueueNext = 0 /\ s.queue = q
    BY <2>2
  <2> QED
    BY <2>1, <2>3, <2>4 DEF SearchOK
<1>8. s.at = "Loop" /\ s.queue = q /\ s.lpQueueMsg = queue[q].lpQueueNext
  OBVIOUS
<1> HIDE DEF s
<1>9. scans \in Seq(Scan) /\ Len(scans) \in Nat
  BY LenProperties DEF LinkInv, ScansOK
<1>10. /\ scans' \in Seq(Scan) /\ Len(scans') = Len(scans) + 1
       /\ \A i \in 1 .. Len(scans) : scans'[i] = scans[i]
       /\ scans'[Len(scans) + 1] = s
  BY <1>5, <1>7, <1>9, AppendProperties
<1>11. ScansOK'
  <2>1. \A i \in 1 .. Len(scans) + 1 : i \in 1 .. Len(scans) \/ i = Len(scans) + 1
    BY <1>9
  <2>2. \A i \in 1 .. Len(scans) + 1 : SearchOK(scans'[i])
    BY <1>7, <1>10, <2>1 DEF LinkInv, ScansOK
  <2> QED
    BY <1>10, <2>2 DEF ScansOK
<1>12. QueuesOK' /\ RestOK'
  BY <1>5 DEF LinkInv, QueuesOK, RestOK
<1> QED
  BY <1>4, <1>5, <1>8, <1>9, <1>10, <1>11, <1>12 DEF LinkInv

LEMMA InitLinks == ASSUME Init PROVE LinkInv
<1>1. QueuesOK
  <2>1. DOMAIN queue = Queue
    BY DEF Init
  <2>2. \A q \in Queue : Sound(queue[q], Size[q])
    <3> TAKE q \in Queue
    <3>1. Size[q] \in Nat /\ Size[q] # 0 /\ queue[q] = AllocQueue(Size[q])
      BY QueueNames DEF Init
    <3> QED
      BY <3>1, Allocated
  <2> QED
    BY <2>1, <2>2 DEF QueuesOK
<1>2. <<>> \in Seq(Scan) /\ <<>> \in Seq(Sent) /\ Len(<<>>) = 0 /\ MaxMsgs \in Nat
  BY EmptySeq, QueueNames
<1>3. ScansOK
  BY <1>2 DEF Init, ScansOK
<1>4. RestOK
  <2>1. taken \in [1 .. MaxMsgs -> Task \cup {Nobody}]
    BY DEF Init
  <2>2. window \in [Window -> {"live", "disabled", "dead", "gone"}]
    BY DEF Init
  <2>3. sent \in Seq(Sent) /\ Len(sent) <= MaxMsgs /\ crashed \in BOOLEAN
    <3>1. sent = <<>> /\ crashed = FALSE
      BY DEF Init
    <3>2. Len(sent) = 0
      BY <1>2, <3>1
    <3>3. Len(sent) <= MaxMsgs
      BY <3>2, QueueNames
    <3>4. sent \in Seq(Sent)
      BY <1>2, <3>1, Zenon
    <3> QED
      BY <3>1, <3>3, <3>4, Zenon
  <2> QED
    BY <2>1, <2>2, <2>3 DEF RestOK
<1> QED
  BY <1>1, <1>3, <1>4 DEF LinkInv

LEMMA NextLinks == ASSUME LinkInv, [Next]_vars PROVE LinkInv'
<1>1. CASE UNCHANGED vars
  BY <1>1 DEF vars, LinkInv, QueuesOK, ScansOK, RestOK
<1>2. CASE \/ \E w \in Window : PostMessage(w)
           \/ \E i \in Inputs : DriverEvent(i[1], i[2])
           \/ \E t \in Task : PostToSelf(t) \/ PostAppMessage(t) \/ PostQuitMessage(t)
  BY <1>2, SenderCases, SendLinks
<1>3. CASE \E n \in 1 .. Len(sent) : TranslateMessage(n)
  BY <1>3, TranslateCase, SendLinks
<1>4. CASE \E w \in Closing : \/ \E state \in {"live", "disabled"} : EnableWindow(w, state)
                              \/ \E state \in {"dead", "gone"} : DestroyWindow(w, state)
  BY <1>4, EnableLinks, DestroyLinks
<1>5. CASE \E t \in Task, r \in Requests : GetMessage(t, r)
  BY <1>5, GetLinks
<1>6. CASE ScanEnd
  BY <1>6, ScanEndLinks
<1>7. CASE ScanMessage
  BY <1>7, ScanMessageLinks
<1>8. CASE \E w \in Window \cup {NoWindow} : ForwardReturns(w)
  BY <1>8, ForwardReturnsLinks
<1> QED
  BY <1>1, <1>2, <1>3, <1>4, <1>5, <1>6, <1>7, <1>8 DEF Next

THEOREM LinksInductive == Spec => []LinkInv
BY InitLinks, NextLinks, PTL DEF Spec

\* Both lists together have each node once.
LEMMA ListsCount ==
    ASSUME NEW N \in Nat, NEW Q, Sound(Q, N)
    PROVE  LET both == Used(Q) \o Spare(Q)
           IN  Len(both) = N /\ {both[i] : i \in 1 .. Len(both)} = 1 .. N
<1> DEFINE u == Used(Q)
           f == Spare(Q)
           both == u \o f
<1>1. /\ u \in Seq(1 .. N) /\ f \in Seq(1 .. N) /\ Once(u) /\ Once(f)
      /\ Image(u) \cap Image(f) = {} /\ Image(u) \cup Image(f) = 1 .. N
  BY DEF Sound, Lists
<1>2. Len(u) \in Nat /\ Len(f) \in Nat
  BY <1>1, ShortList
<1> HIDE DEF u, f
<1>3. /\ both \in Seq(1 .. N) /\ Len(both) = Len(u) + Len(f)
      /\ \A i \in 1 .. Len(u) + Len(f) : both[i] = IF i <= Len(u) THEN u[i] ELSE f[i - Len(u)]
  BY <1>1, ConcatProperties
<1> HIDE DEF both
<1>4. \A i \in 1 .. Len(both) : i <= Len(u) => i \in 1 .. Len(u) /\ both[i] = u[i]
  BY <1>2, <1>3
<1>5. \A i \in 1 .. Len(both) :
         ~ (i <= Len(u)) => i - Len(u) \in 1 .. Len(f) /\ both[i] = f[i - Len(u)]
  BY <1>2, <1>3
<1>6. Once(both)
  <2>1. SUFFICES ASSUME NEW i \in 1 .. Len(both), NEW j \in 1 .. Len(both), both[i] = both[j]
                 PROVE  i = j
    BY DEF Once
  <2>2. CASE i <= Len(u) /\ j <= Len(u)
    BY <1>1, <1>4, <2>1, <2>2 DEF Once
  <2>3. CASE ~ (i <= Len(u)) /\ ~ (j <= Len(u))
    <3>1. i - Len(u) = j - Len(u)
      BY <1>1, <1>5, <2>1, <2>3 DEF Once
    <3> QED
      BY <1>2, <3>1
  <2>4. CASE i <= Len(u) /\ ~ (j <= Len(u))
    <3>1. both[i] \in Image(u) /\ both[j] \in Image(f)
      BY <1>4, <1>5, <2>4 DEF Image
    <3> QED
      BY <1>1, <2>1, <3>1
  <2>5. CASE ~ (i <= Len(u)) /\ j <= Len(u)
    <3>1. both[i] \in Image(f) /\ both[j] \in Image(u)
      BY <1>4, <1>5, <2>5 DEF Image
    <3> QED
      BY <1>1, <2>1, <3>1
  <2> QED
    BY <2>2, <2>3, <2>4, <2>5
<1>7. Image(both) = 1 .. N
  <2>1. \A x \in Image(both) : x \in 1 .. N
    BY <1>3, ElementOfSeq DEF Image
  <2>2. \A i \in 1 .. Len(u) : i \in 1 .. Len(both) /\ i <= Len(u)
    BY <1>2, <1>3
  <2>3. \A i \in 1 .. Len(f) : /\ i + Len(u) \in 1 .. Len(both) /\ ~ (i + Len(u) <= Len(u))
                               /\ (i + Len(u)) - Len(u) = i
    BY <1>2, <1>3
  <2>4. \A x \in Image(u) : x \in Image(both)
    BY <1>4, <2>2 DEF Image
  <2>5. \A x \in Image(f) : x \in Image(both)
    <3> TAKE x \in Image(f)
    <3>1. PICK i \in 1 .. Len(f) : f[i] = x
      BY DEF Image
    <3>2. i + Len(u) \in 1 .. Len(both) /\ both[i + Len(u)] = x
      BY <1>5, <2>3, <3>1
    <3> QED
      BY <3>2 DEF Image
  <2> QED
    BY <1>1, <2>1, <2>4, <2>5
<1>8. Len(both) = N
  <2>1. Len(both) \in Nat /\ Len(both) <= N
    BY <1>3, <1>6, ShortList
  <2>2. both \in [1 .. Len(both) -> 1 .. N]
    BY <1>3, LenProperties
  <2>3. both \in Surjection(1 .. Len(both), 1 .. N)
    BY <1>7, <2>2 DEF Surjection, Image
  <2>4. /\ IsFiniteSet(1 .. Len(both)) /\ Cardinality(1 .. Len(both)) = Len(both)
        /\ Cardinality(1 .. N) = N
    BY <2>1, CountTo
  <2>5. Cardinality(1 .. N) <= Cardinality(1 .. Len(both))
    BY <2>3, <2>4, FS_Surjection
  <2> QED
    BY <2>1, <2>4, <2>5
<1> QED
  BY <1>7, <1>8 DEF both, u, f, Image

\* No node of any queue is lost and none is used twice, however many nodes the queues have,
\* whatever is sent, taken, flushed and destroyed, and even when window procedures that are
\* asked about the mouse take messages themselves.
THEOREM QueuesStayWhole == Spec => []WellLinked
<1>1. LinkInv => WellLinked
  <2> SUFFICES ASSUME LinkInv PROVE WellLinked
    OBVIOUS
  <2>1. \A q \in Queue : Size[q] \in Nat /\ Sound(queue[q], Size[q]) /\ queue[q] \in Block(Size[q])
    BY QueueNames, SoundBlock DEF LinkInv, QueuesOK
  <2>2. TypeOK
    <3>1. \A q \in Queue :
             /\ DOMAIN queue[q].lpNextMsg = Nodes(q)
             /\ {queue[q].lpQueueNext, queue[q].lpQueueFree} \subseteq Nodes(q) \cup {Null}
             /\ queue[q].lpNextMsg \in [Nodes(q) -> Nodes(q) \cup {Null}]
             /\ queue[q].Message \in [Nodes(q) -> 0 .. MaxMsgs]
      <4> TAKE q \in Queue
      <4>1. 0 .. Size[q] = (1 .. Size[q]) \cup {0}
        BY <2>1
      <4> QED
        BY <2>1, <4>1 DEF Block, Nodes, Null
    <3> QED
      BY <3>1 DEF LinkInv, ScansOK, RestOK, Sent, TypeOK
  <2>3. \A q \in Queue :
           LET both == Used(queue[q]) \o Spare(queue[q])
           IN  Len(both) = Size[q] /\ {both[i] : i \in 1 .. Len(both)} = Nodes(q)
    BY <2>1, ListsCount DEF Nodes
  <2> QED
    BY <2>2, <2>3 DEF WellLinked, Used, Spare
<1> QED
  BY <1>1, LinksInductive, PTL

----------------------------------------------------------------------------
\* What the queues hold

LEMMA QueueFacts ==
    ASSUME QueuesOK, NEW q \in Queue
    PROVE  /\ Size[q] \in Nat /\ Sound(queue[q], Size[q]) /\ queue[q] \in Block(Size[q])
           /\ Len(Used(queue[q])) \in Nat /\ Len(Used(queue[q])) <= Size[q]
           /\ Used(queue[q]) \in Seq(1 .. Size[q]) /\ Once(Used(queue[q]))
           /\ \A i \in Spots(queue[q]) :
                 /\ Used(queue[q])[i] \in 1 .. Size[q] /\ Used(queue[q])[i] # Null
                 /\ Num(queue[q], i) \in 0 .. MaxMsgs
                 /\ queue[q].lpNextMsg[Used(queue[q])[i]] = Place(Used(queue[q]), i + 1)
           /\ queue[q].lpQueueNext = Place(Used(queue[q]), 1)
<1> DEFINE Q == queue[q]
           u == Used(Q)
           N == Size[q]
<1>1. N \in Nat /\ Sound(Q, N) /\ Q \in Block(N)
  BY QueueNames, SoundBlock DEF QueuesOK
<1>2. u \in Seq(1 .. N) /\ Once(u) /\ Linked(Q, Q.lpQueueNext, u)
  BY <1>1 DEF Sound, Lists
<1>3. Len(u) \in Nat /\ Len(u) <= N /\ \A i \in 1 .. Len(u) : u[i] \in 1 .. N
  BY <1>1, <1>2, ShortList
<1>4. Q.Message \in [1 .. N -> 0 .. MaxMsgs]
  BY <1>1 DEF Block
<1>5. \A i \in 1 .. Len(u) : u[i] # Null /\ Q.Message[u[i]] \in 0 .. MaxMsgs
  <2> DEFINE M == Q.Message
  <2>1. M \in [1 .. N -> 0 .. MaxMsgs]
    BY <1>4
  <2> HIDE DEF M, u, N
  <2>2. \A i \in 1 .. Len(u) : u[i] # Null /\ M[u[i]] \in 0 .. MaxMsgs
    BY <1>1, <1>3, <2>1 DEF Null
  <2> QED
    BY <2>2 DEF M
<1>6. Q.lpQueueNext = Place(u, 1) /\ \A i \in 1 .. Len(u) : Q.lpNextMsg[u[i]] = Place(u, i + 1)
  BY <1>2 DEF Linked
<1> HIDE DEF Q, N
<1>7. \A i \in Spots(Q) :
         /\ u[i] \in 1 .. N /\ u[i] # Null
         /\ Num(Q, i) \in 0 .. MaxMsgs
         /\ Q.lpNextMsg[u[i]] = Place(u, i + 1)
  BY <1>3, <1>5, <1>6 DEF Spots, Num
<1> QED
  BY <1>1, <1>2, <1>3, <1>6, <1>7 DEF Q, N

LEMMA CutThins ==
    ASSUME NEW S, NEW s \in Seq(S), NEW k \in 1 .. Len(s)
    PROVE  \E h : Thins(h, Cut(s, k), s) /\ \A i \in 1 .. Len(Cut(s, k)) : h[i] # k
<1> DEFINE v == Cut(s, k)
           h == [i \in 1 .. Len(s) - 1 |-> IF i < k THEN i ELSE i + 1]
<1>1. Len(s) \in Nat
  BY LenProperties
<1>2. /\ Len(v) = Len(s) - 1
      /\ \A i \in 1 .. Len(s) - 1 : v[i] = IF i < k THEN s[i] ELSE s[i + 1]
  BY CutFacts DEF IsCut
<1> HIDE DEF v
<1>3. \A i \in 1 .. Len(s) - 1 : h[i] = (IF i < k THEN i ELSE i + 1)
                                 /\ h[i] \in 1 .. Len(s) /\ h[i] # k
  BY <1>1
<1>4. h \in [1 .. Len(v) -> 1 .. Len(s)]
  BY <1>1, <1>2
<1> HIDE DEF h
<1>5. \A i, j \in 1 .. Len(v) : i < j => h[i] < h[j]
  <2> TAKE i, j \in 1 .. Len(v)
  <2>1. i \in 1 .. Len(s) - 1 /\ j \in 1 .. Len(s) - 1
    BY <1>2
  <2>2. h[i] = (IF i < k THEN i ELSE i + 1) /\ h[j] = (IF j < k THEN j ELSE j + 1)
    BY <1>3, <2>1
  <2> QED
    BY <2>1, <2>2
<1>6. \A i \in 1 .. Len(v) : v[i] = s[h[i]] /\ h[i] # k
  BY <1>2, <1>3
<1>7. Thins(h, v, s)
  BY <1>4, <1>5, <1>6 DEF Thins
<1> QED
  BY <1>6, <1>7 DEF v

LEMMA ItselfThins ==
    ASSUME NEW u, Len(u) \in Nat
    PROVE  \E h : Thins(h, u, u)
<1> DEFINE h == [i \in 1 .. Len(u) |-> i]
<1>1. Thins(h, u, u)
  BY DEF Thins
<1> QED
  BY <1>1

\* R holds what Q does or part of it, in the same order.
Fewer(R, Q) == R.Message = Q.Message /\ \E h : Thins(h, Used(R), Used(Q))

LEMMA FewerNums ==
    ASSUME NEW R, NEW Q, Fewer(R, Q)
    PROVE  \E h \in [Spots(R) -> Spots(Q)] :
              /\ \A i \in Spots(R) : Num(R, i) = Num(Q, h[i])
              /\ \A i, j \in Spots(R) : i < j => h[i] < h[j]
<1>1. R.Message = Q.Message
  BY DEF Fewer
<1>2. PICK h : Thins(h, Used(R), Used(Q))
  BY DEF Fewer
<1>3. h \in [Spots(R) -> Spots(Q)] /\ \A i, j \in Spots(R) : i < j => h[i] < h[j]
  BY <1>2 DEF Thins, Spots
<1>4. \A i \in Spots(R) : Num(R, i) = Num(Q, h[i])
  BY <1>1, <1>2 DEF Thins, Spots, Num
<1> QED
  BY <1>3, <1>4

\* Nothing is wrong with less, as long as what is taken is out of the queues.
LEMMA HeldFewer ==
    ASSUME HeldInv, RestOK, sent' = sent, \A q \in Queue : Fewer(queue'[q], queue[q]),
           \/ taken' = taken
           \/ \E t : \E id \in 1 .. Len(sent) :
              /\ taken' = [taken EXCEPT ![id] = t]
              /\ \A q \in Queue : \A i \in Spots(queue'[q]) :
                    Num(queue'[q], i) # id
    PROVE  HeldInv'
<1> DEFINE Maps(h, q) == /\ h \in [Spots(queue'[q]) -> Spots(queue[q])]
                         /\ \A i \in Spots(queue'[q]) : Num(queue'[q], i) = Num(queue[q], h[i])
                         /\ \A i, j \in Spots(queue'[q]) : i < j => h[i] < h[j]
           H(q) == CHOOSE h : Maps(h, q)
<1>1. \A q \in Queue : Maps(H(q), q)
  <2> TAKE q \in Queue
  <2>1. \E h : Maps(h, q)
    BY FewerNums
  <2> QED
    BY <2>1
<1>2. \A q \in Queue : \A i \in Spots(queue'[q]) :
         H(q)[i] \in Spots(queue[q]) /\ Num(queue'[q], i) = Num(queue[q], H(q)[i])
  BY <1>1
<1>3. \A q \in Queue : \A i, j \in Spots(queue'[q]) : i < j => H(q)[i] < H(q)[j]
  BY <1>1
<1>4. \A q \in Queue : \A i \in Spots(queue'[q]) : i \in Int /\ H(q)[i] \in Int
  BY <1>2 DEF Spots
<1> HIDE DEF H
<1>5. SentOK /\ HeldSent /\ HeldOnce /\ TakenSent /\ OwnQueues /\ InTurn
  BY DEF HeldInv
<1>6. SentOK'
  BY <1>5 DEF SentOK
<1>7. HeldSent'
  <2>1. \A q \in Queue : \A i \in Spots(queue'[q]) :
           Num(queue'[q], i) \in 1 .. Len(sent) /\ taken[Num(queue'[q], i)] = Nobody
    <3> TAKE q \in Queue
    <3> TAKE i \in Spots(queue'[q])
    <3>1. H(q)[i] \in Spots(queue[q]) /\ Num(queue'[q], i) = Num(queue[q], H(q)[i])
      BY <1>2
    <3>2. \A m \in Spots(queue[q]) :
             Num(queue[q], m) \in 1 .. Len(sent) /\ taken[Num(queue[q], m)] = Nobody
      BY <1>5 DEF HeldSent
    <3> QED
      BY <3>1, <3>2
  <2>2. \A q \in Queue : \A i \in Spots(queue'[q]) :
           taken'[Num(queue'[q], i)] = taken[Num(queue'[q], i)]
    <3>1. sent \in Seq(Sent) /\ Len(sent) <= MaxMsgs /\ MaxMsgs \in Nat
          /\ taken \in [1 .. MaxMsgs -> Task \cup {Nobody}]
      BY QueueNames DEF RestOK
    <3>2. Len(sent) \in Nat
      BY <3>1, LenProperties
    <3>3. \A q \in Queue : \A i \in Spots(queue'[q]) : Num(queue'[q], i) \in 1 .. MaxMsgs
      <4>1. \A n \in 1 .. Len(sent) : n \in 1 .. MaxMsgs
        BY <3>1, <3>2
      <4> QED
        BY <2>1, <4>1
    <3> QED
      BY <3>1, <3>3
  <2> QED
    BY <2>1, <2>2 DEF HeldSent
<1>8. HeldOnce'
  <2>1. SUFFICES ASSUME NEW p \in Queue, NEW q \in Queue, NEW i \in Spots(queue'[p]),
                        NEW j \in Spots(queue'[q]), Num(queue'[p], i) = Num(queue'[q], j)
                 PROVE  p = q /\ i = j
    BY DEF HeldOnce
  <2>2. p = q /\ H(p)[i] = H(q)[j]
    <3>1. H(p)[i] \in Spots(queue[p]) /\ H(q)[j] \in Spots(queue[q])
          /\ Num(queue[p], H(p)[i]) = Num(queue[q], H(q)[j])
      BY <1>2, <2>1
    <3> QED
      BY <1>5, <3>1 DEF HeldOnce
  <2>3. ~ (i < j) /\ ~ (j < i)
    BY <1>3, <1>4, <2>2
  <2> QED
    BY <1>4, <2>2, <2>3
<1>9. TakenSent'
  <2>1. \A n \in 1 .. MaxMsgs : taken'[n] # Nobody => taken[n] # Nobody \/ n \in 1 .. Len(sent)
    BY DEF RestOK
  <2> QED
    BY <1>5, <2>1 DEF TakenSent
<1>10. OwnQueues'
  <2>1. Task \subseteq Queue
    BY QueueNames
  <2> QED
    BY <1>2, <1>5, <2>1 DEF OwnQueues
<1>11. InTurn'
  <2>1. SUFFICES ASSUME NEW q \in Queue, NEW i \in Spots(queue'[q]), NEW j \in Spots(queue'[q]),
                        sent[Num(queue'[q], i)].kind \in Ordered,
                        sent[Num(queue'[q], j)].kind \in Ordered, i < j
                 PROVE  Num(queue'[q], i) < Num(queue'[q], j)
    BY DEF InTurn
  <2>2. H(q)[i] < H(q)[j]
    BY <1>3, <2>1
  <2> QED
    BY <1>2, <1>5, <2>1, <2>2 DEF InTurn
<1> QED
  BY <1>6, <1>7, <1>8, <1>9, <1>10, <1>11 DEF HeldInv

\* The new message is at its place; the others moved up or stayed.
Moved(R, Q, k, id) ==
    /\ k \in 1 .. Len(Used(Q)) + 1 /\ Len(Used(R)) = Len(Used(Q)) + 1 /\ Len(Used(Q)) \in Nat
    /\ k \in Spots(R) /\ Num(R, k) = id
    /\ \A i \in Spots(R) : i < k => i \in Spots(Q) /\ Num(R, i) = Num(Q, i)
    /\ \A i \in Spots(R) : i > k => i - 1 \in Spots(Q) /\ Num(R, i) = Num(Q, i - 1)

LEMMA SendMoves ==
    ASSUME LinkInv, NEW q, NEW front, NEW m, Sends(q, front, m)
    PROVE  /\ LinkInv' /\ q \in Queue /\ \A p \in Queue : p # q => queue'[p] = queue[p]
           /\ Moved(queue'[q], queue[q], Spot(queue[q], front), Len(sent) + 1)
           /\ sent' = Append(sent, m) /\ m \in Sent /\ m.id = Len(sent) + 1
           /\ Len(sent') = Len(sent) + 1 /\ Len(sent) \in Nat /\ Len(sent) + 1 \in 1 .. MaxMsgs
           /\ \A n \in 1 .. Len(sent) : sent'[n] = sent[n]
           /\ sent'[Len(sent) + 1] = m
           /\ UNCHANGED <<window, scans, taken, crashed>>
<1> DEFINE Q == queue[q]
           R == queue'[q]
           u == Used(Q)
           v == Used(R)
           k == Spot(Q, front)
           n == Q.lpQueueFree
<1>1. /\ LinkInv' /\ \A p \in Queue : p # q => queue'[p] = queue[p]
      /\ n \in 1 .. Size[q] /\ n \notin Image(u) /\ k \in 1 .. Len(u) + 1
      /\ R.Message = [Q.Message EXCEPT ![n] = Len(sent) + 1]
      /\ v = Put(u, k, n)
  BY SendLinks
<1>2. q \in Queue /\ m \in Sent /\ m.id = Len(sent) + 1
      /\ QueueAddMsg(q, front, m.hwnd, m.kind, m.receiver)
  BY DEF Sends
<1>3. /\ Len(u) \in Nat /\ u \in Seq(1 .. Size[q]) /\ Q \in Block(Size[q])
      /\ \A i \in 1 .. Len(u) : u[i] \in 1 .. Size[q]
  BY <1>2, QueueFacts DEF LinkInv, Spots
<1>4. DOMAIN Q.Message = 1 .. Size[q]
  BY <1>3 DEF Block
<1> HIDE DEF k, n, u
<1>5. /\ Len(v) = Len(u) + 1
      /\ \A i \in 1 .. Len(u) + 1 : v[i] = IF i < k THEN u[i] ELSE IF i = k THEN n ELSE u[i - 1]
  <2>1. IsPut(Put(u, k, n), 1 .. Size[q], u, k, n)
    BY <1>1, <1>3, PutFacts
  <2>2. IsPut(v, 1 .. Size[q], u, k, n)
    BY <1>1, <2>1
  <2> HIDE DEF v, Q, R
  <2> QED
    BY <2>2 DEF IsPut
<1>6. \A i \in 1 .. Len(u) : u[i] # n /\ R.Message[u[i]] = Q.Message[u[i]]
  <2>1. \A i \in 1 .. Len(u) : u[i] # n
    BY <1>1 DEF Image
  <2> HIDE DEF Q, R
  <2> QED
    BY <1>1, <1>3, <1>4, <2>1
<1>7. R.Message[n] = Len(sent) + 1
  <2> HIDE DEF Q, R
  <2> QED
    BY <1>1, <1>4
<1> HIDE DEF Q, R, v
<1>8. \A i \in 1 .. Len(u) + 1 : /\ i < k => i \in 1 .. Len(u)
                                 /\ i > k => i - 1 \in 1 .. Len(u)
  BY <1>1, <1>3
<1>9. Moved(R, Q, k, Len(sent) + 1)
  <2>1. k \in 1 .. Len(v) /\ v[k] = n
    BY <1>1, <1>3, <1>5
  <2>2. \A i \in 1 .. Len(v) : i < k => i \in 1 .. Len(u) /\ v[i] = u[i]
    BY <1>5, <1>8
  <2>3. \A i \in 1 .. Len(v) : i > k => i - 1 \in 1 .. Len(u) /\ v[i] = u[i - 1]
    <3> TAKE i \in 1 .. Len(v)
    <3> HAVE i > k
    <3>1. ~ (i < k) /\ i # k /\ i \in 1 .. Len(u) + 1
      BY <1>1, <1>5
    <3> QED
      BY <1>5, <1>8, <3>1
  <2> QED
    BY <1>1, <1>3, <1>5, <1>6, <1>7, <2>1, <2>2, <2>3 DEF Moved, Spots, Num, v, u
<1>10. sent' = Append(sent, m) /\ UNCHANGED <<window, scans, taken, crashed>>
       /\ Len(sent) < MaxMsgs
  <2>1. sent' = Append(sent, [id |-> Len(sent) + 1, hwnd |-> m.hwnd, kind |-> m.kind,
                              receiver |-> m.receiver])
        /\ UNCHANGED <<window, scans, taken, crashed>> /\ Len(sent) < MaxMsgs
    BY <1>2 DEF QueueAddMsg
  <2>2. m = [id |-> m.id, hwnd |-> m.hwnd, kind |-> m.kind, receiver |-> m.receiver]
    BY <1>2 DEF Sent
  <2> QED
    BY <1>2, <2>1, <2>2
<1>11. sent \in Seq(Sent) /\ MaxMsgs \in Nat
  BY QueueNames DEF LinkInv, RestOK
<1>12. /\ Len(sent') = Len(sent) + 1 /\ \A i \in 1 .. Len(sent) : sent'[i] = sent[i]
       /\ sent'[Len(sent) + 1] = m
  BY <1>2, <1>10, <1>11, AppendProperties
<1>13. Len(sent) \in Nat
  BY <1>11, LenProperties
<1>14. Len(sent) + 1 \in 1 .. MaxMsgs
  BY <1>10, <1>11, <1>13
<1> QED
  BY <1>1, <1>2, <1>9, <1>10, <1>12, <1>13, <1>14 DEF R, Q, k

LEMMA HeldSends ==
    ASSUME LinkInv, HeldInv, NEW q, NEW front, NEW m, Sends(q, front, m), Fits(q, front, m)
    PROVE  HeldInv'
<1> DEFINE Q == queue[q]
           R == queue'[q]
           k == Spot(Q, front)
           L == Len(sent)
           at(i) == IF i < k THEN i ELSE i - 1
<1>1. /\ q \in Queue /\ \A p \in Queue : p # q => queue'[p] = queue[p]
      /\ Moved(R, Q, k, L + 1)
      /\ m \in Sent /\ m.id = L + 1
      /\ Len(sent') = L + 1 /\ L \in Nat /\ L + 1 \in 1 .. MaxMsgs
      /\ \A n \in 1 .. L : sent'[n] = sent[n]
      /\ sent'[L + 1] = m /\ taken' = taken
  BY SendMoves
<1>2. SentOK /\ HeldSent /\ HeldOnce /\ TakenSent /\ OwnQueues /\ InTurn
  BY DEF HeldInv
<1> HIDE DEF L, R, k
<1>3. k \in 1 .. Len(Used(Q)) + 1 /\ k \in Spots(R) /\ Num(R, k) = L + 1 /\ k \in Int
  BY <1>1 DEF Moved
<1>4. \A i \in Spots(R) : i # k => at(i) \in Spots(Q) /\ Num(R, i) = Num(Q, at(i)) /\ i \in Int
  <2> TAKE i \in Spots(R)
  <2> HAVE i # k
  <2>1. i \in Int
    BY DEF Spots
  <2>2. CASE i < k
    BY <1>1, <2>1, <2>2 DEF Moved
  <2>3. CASE i > k
    BY <1>1, <1>3, <2>1, <2>3 DEF Moved
  <2> QED
    BY <1>3, <2>1, <2>2, <2>3
<1>5. \A i, j \in Spots(R) : i # k /\ j # k => (i < j <=> at(i) < at(j))
  <2> TAKE i, j \in Spots(R)
  <2> HAVE i # k /\ j # k
  <2>1. i \in Int /\ j \in Int
    BY DEF Spots
  <2> QED
    BY <1>3, <2>1
<1> HIDE DEF at, Q
<1>6. \A i \in Spots(R) : i # k => Num(R, i) \in 1 .. L /\ taken[Num(R, i)] = Nobody
  BY <1>1, <1>2, <1>4 DEF HeldSent, L, Q
<1>7. \A p \in Queue : p # q =>
         \A i \in Spots(queue'[p]) : /\ queue'[p] = queue[p]
                                     /\ Num(queue'[p], i) \in 1 .. L
                                     /\ taken[Num(queue'[p], i)] = Nobody
  BY <1>1, <1>2 DEF HeldSent, L
<1>8. L + 1 \notin 1 .. L /\ \A n \in 1 .. L : n \in 1 .. L + 1
  BY <1>1
<1>9. taken[L + 1] = Nobody
  BY <1>1, <1>2 DEF TakenSent, L
<1>10. SentOK'
  <2>1. \A n \in 1 .. L : sent'[n].id = n /\ (sent'[n].kind = "mouse" => sent'[n].hwnd # NoWindow)
    BY <1>1, <1>2 DEF SentOK, L
  <2>2. sent'[L + 1].id = L + 1
        /\ (sent'[L + 1].kind = "mouse" => sent'[L + 1].hwnd # NoWindow)
    BY <1>1 DEF Fits
  <2>3. \A n \in 1 .. L + 1 : n \in 1 .. L \/ n = L + 1
    BY <1>1
  <2>4. \A n \in 1 .. L + 1 :
           sent'[n].id = n /\ (sent'[n].kind = "mouse" => sent'[n].hwnd # NoWindow)
    BY <2>1, <2>2, <2>3
  <2> QED
    BY <1>1, <2>4 DEF SentOK
<1>11. HeldSent'
  <2>1. \A p \in Queue : \A i \in Spots(queue'[p]) :
           Num(queue'[p], i) \in 1 .. L + 1 /\ taken[Num(queue'[p], i)] = Nobody
    <3> TAKE p \in Queue
    <3> TAKE i \in Spots(queue'[p])
    <3>1. CASE p # q
      BY <1>7, <1>8, <3>1
    <3>2. CASE p = q /\ i # k
      <4>1. queue'[p] = R
        BY <3>2 DEF R
      <4> QED
        BY <1>6, <1>8, <3>2, <4>1
    <3>3. CASE p = q /\ i = k
      <4>1. queue'[p] = R
        BY <3>3 DEF R
      <4>2. L + 1 \in 1 .. L + 1
        BY <1>1
      <4> QED
        BY <1>3, <1>9, <3>3, <4>1, <4>2
    <3> QED
      BY <3>1, <3>2, <3>3
  <2> QED
    BY <1>1, <2>1 DEF HeldSent
<1>12. HeldOnce'
  <2>1. ASSUME NEW p \in Queue, p # q, NEW i \in Spots(queue'[p]), NEW j \in Spots(R)
        PROVE  Num(queue'[p], i) # Num(R, j)
    <3>1. Num(queue'[p], i) = Num(queue[p], i) /\ i \in Spots(queue[p])
          /\ Num(queue'[p], i) \in 1 .. L
      BY <1>7, <2>1
    <3>2. CASE j = k
      BY <1>3, <1>8, <3>1, <3>2
    <3>3. CASE j # k
      <4>1. at(j) \in Spots(queue[q]) /\ Num(R, j) = Num(queue[q], at(j))
        BY <1>4, <3>3 DEF Q
      <4>2. Num(queue[p], i) # Num(queue[q], at(j))
        BY <1>1, <1>2, <2>1, <3>1, <4>1 DEF HeldOnce
      <4> QED
        BY <3>1, <4>1, <4>2
    <3> QED
      BY <3>2, <3>3
  <2>2. ASSUME NEW i \in Spots(R), NEW j \in Spots(R), Num(R, i) = Num(R, j)
        PROVE  i = j
    <3>1. CASE i = k \/ j = k
      BY <1>3, <1>6, <1>8, <2>2, <3>1
    <3>2. CASE i # k /\ j # k
      <4>1. at(i) = at(j) /\ at(i) \in Spots(Q)
        <5>1. at(i) \in Spots(queue[q]) /\ at(j) \in Spots(queue[q])
              /\ Num(queue[q], at(i)) = Num(queue[q], at(j))
          BY <1>4, <2>2, <3>2 DEF Q
        <5>2. at(i) = at(j)
          BY <1>1, <1>2, <5>1 DEF HeldOnce
        <5> QED
          BY <5>1, <5>2 DEF Q
      <4>2. at(i) \in Int /\ at(j) \in Int /\ i \in Int /\ j \in Int
        BY <4>1 DEF Spots
      <4>3. ~ (i < j) /\ ~ (j < i)
        BY <1>5, <3>2, <4>1, <4>2
      <4> QED
        BY <4>2, <4>3
    <3> QED
      BY <3>1, <3>2
  <2>3. ASSUME NEW p \in Queue, NEW r \in Queue, NEW i \in Spots(queue'[p]),
               NEW j \in Spots(queue'[r]), Num(queue'[p], i) = Num(queue'[r], j)
        PROVE  p = r /\ i = j
    <3>1. CASE p = q /\ r = q
      BY <2>2, <2>3, <3>1 DEF R
    <3>2. CASE p # q /\ r = q
      BY <2>1, <2>3, <3>2 DEF R
    <3>3. CASE p = q /\ r # q
      BY <2>1, <2>3, <3>3 DEF R
    <3>4. CASE p # q /\ r # q
      BY <1>2, <1>7, <2>3, <3>4 DEF HeldOnce
    <3> QED
      BY <3>1, <3>2, <3>3, <3>4
  <2> QED
    BY <2>3 DEF HeldOnce
<1>13. TakenSent'
  BY <1>1, <1>2 DEF TakenSent, L
<1>14. OwnQueues'
  <2>1. ASSUME NEW p \in Task, NEW i \in Spots(queue'[p]),
               sent'[Num(queue'[p], i)].hwnd # NoWindow
        PROVE  Owner[sent'[Num(queue'[p], i)].hwnd] = p
    <3>1. p \in Queue
      BY QueueNames
    <3>2. CASE p # q
      <4>1. sent'[Num(queue'[p], i)] = sent[Num(queue[p], i)] /\ i \in Spots(queue[p])
        BY <1>1, <1>7, <3>1, <3>2
      <4> QED
        BY <1>2, <2>1, <4>1 DEF OwnQueues
    <3>3. CASE p = q /\ i # k
      <4>1. sent'[Num(queue'[p], i)] = sent[Num(Q, at(i))] /\ at(i) \in Spots(Q)
        BY <1>1, <1>4, <1>6, <3>3 DEF R
      <4> QED
        BY <1>2, <2>1, <3>3, <4>1 DEF OwnQueues, Q
    <3>4. CASE p = q /\ i = k
      <4>1. sent'[Num(queue'[p], i)] = m
        BY <1>1, <1>3, <3>4 DEF R
      <4> QED
        BY <2>1, <3>4, <4>1 DEF Fits
    <3> QED
      BY <3>2, <3>3, <3>4
  <2> QED
    BY <2>1 DEF OwnQueues
<1>15. InTurn'
  <2>1. ASSUME NEW p \in Queue, NEW i \in Spots(queue'[p]), NEW j \in Spots(queue'[p]), i < j,
               sent'[Num(queue'[p], i)].kind \in Ordered,
               sent'[Num(queue'[p], j)].kind \in Ordered
        PROVE  Num(queue'[p], i) < Num(queue'[p], j)
    <3>1. CASE p # q
      <4>1. sent'[Num(queue'[p], i)] = sent[Num(queue[p], i)] /\ queue'[p] = queue[p]
            /\ sent'[Num(queue'[p], j)] = sent[Num(queue[p], j)]
        BY <1>1, <1>7, <3>1
      <4> QED
        BY <1>2, <2>1, <4>1 DEF InTurn
    <3>2. CASE p = q /\ i # k /\ j # k
      <4>1. /\ Num(queue'[p], i) = Num(Q, at(i)) /\ at(i) \in Spots(Q)
            /\ Num(queue'[p], j) = Num(Q, at(j)) /\ at(j) \in Spots(Q)
            /\ at(i) < at(j)
        BY <1>4, <1>5, <2>1, <3>2 DEF R
      <4>2. sent'[Num(Q, at(i))] = sent[Num(Q, at(i))] /\ sent'[Num(Q, at(j))] = sent[Num(Q, at(j))]
        BY <1>1, <1>4, <1>6, <2>1, <3>2 DEF R
      <4> QED
        BY <1>1, <1>2, <2>1, <4>1, <4>2 DEF InTurn, Q
    <3>3. CASE p = q /\ (i = k \/ j = k)
      <4>1. m.kind \in Ordered
        BY <1>1, <1>3, <2>1, <3>3 DEF R
      <4>2. k = Len(Used(Q)) + 1
        BY <4>1 DEF Fits, Spot, k
      <4>3. \A x \in Spots(R) : x <= k
        BY <1>1, <4>2 DEF Moved, Spots
      <4>4. i \in Int /\ j \in Int /\ i <= k /\ j <= k
        BY <3>3, <4>3 DEF R, Spots
      <4>5. j = k /\ i # k
        BY <1>3, <2>1, <3>3, <4>4
      <4>6. Num(queue'[p], j) = L + 1 /\ Num(queue'[p], i) \in 1 .. L
        BY <1>3, <1>6, <3>3, <4>5 DEF R
      <4> QED
        BY <1>1, <4>6
    <3> QED
      BY <3>1, <3>2, <3>3
  <2> QED
    BY <2>1 DEF InTurn
<1> QED
  BY <1>10, <1>11, <1>12, <1>13, <1>14, <1>15 DEF HeldInv

\* The queue q has lost its k-th message, or nothing, and no other queue has changed.
Settled(q, k, removed) ==
    /\ \A p \in Queue : p # q => queue'[p] = queue[p]
    /\ queue'[q].Message = queue[q].Message
    /\ Used(queue'[q]) = IF removed THEN Cut(Used(queue[q]), k) ELSE Used(queue[q])
    /\ ~removed => queue' = queue

Removes(s, verdict) == verdict = "flush" \/ (verdict # "skip" /\ s.remove)

\* The search is at the k-th node of its queue.
At(s, k) == k \in Spots(queue[s.queue]) /\ Used(queue[s.queue])[k] = s.lpQueueMsg

LEMMA SettleRemoves ==
    ASSUME LinkInv, scans # <<>>, NEW k, At(Top, k), NEW id, NEW next, NEW verdict,
           Settle(Top, Top.lpQueueMsg, id, next, verdict)
    PROVE  Settled(Top.queue, k, Removes(Top, verdict)) /\ crashed' = FALSE
<1> DEFINE q == Top.queue
           n == Top.lpQueueMsg
           u == Used(queue[q])
<1>1. QueuesOK /\ q \in Queue
  BY TopOK DEF LinkInv
<1>2. n \in 1 .. Size[q] /\ k \in 1 .. Len(u) /\ u[k] = n /\ Once(u)
  BY <1>1, QueueFacts DEF At, Spots
<1>3. n \in Image(u)
  BY <1>2 DEF Image
<1>4. /\ \A p \in Queue : p # q => queue'[p] = queue[p]
      /\ queue'[q].Message = queue[q].Message
      /\ \/ ~ Removes(Top, verdict) /\ queue' = queue
         \/ /\ Removes(Top, verdict)
            /\ \E j \in 1 .. Len(u) : u[j] = n /\ Used(queue'[q]) = Cut(u, j)
      /\ crashed' = FALSE
  <2>1. Settle(Top, n, id, next, verdict)
    OBVIOUS
  <2>2. LET removed == verdict = "flush" \/ (verdict # "skip" /\ Top.remove)
        IN  /\ \A p \in Queue : p # q => queue'[p] = queue[p]
            /\ queue'[q].Message = queue[q].Message
            /\ \/ ~ (removed /\ n \in Image(u)) /\ queue' = queue
               \/ /\ removed
                  /\ \E j \in 1 .. Len(u) : u[j] = n /\ Used(queue'[q]) = Cut(u, j)
            /\ crashed' = (removed /\ n \notin Image(u))
    <3> HIDE DEF n
    <3> QED
      BY <1>1, <1>2, <2>1, SettledQueue
  <2> QED
    BY <1>3, <2>2 DEF Removes
<1>5. CASE ~ Removes(Top, verdict)
  BY <1>4, <1>5 DEF Settled
<1>6. CASE Removes(Top, verdict)
  <2>1. PICK j \in 1 .. Len(u) : u[j] = n /\ Used(queue'[q]) = Cut(u, j)
    BY <1>4, <1>6
  <2>2. j = k
    BY <1>2, <2>1 DEF Once
  <2> QED
    BY <1>4, <1>6, <2>1, <2>2 DEF Settled
<1> QED
  BY <1>5, <1>6

LEMMA SettleHolds ==
    ASSUME LinkInv, HeldInv, scans # <<>>, NEW k, At(Top, k), NEW next, NEW verdict,
           Settle(Top, Top.lpQueueMsg, Num(queue[Top.queue], k), next, verdict)
    PROVE  HeldInv'
<1> DEFINE q == Top.queue
           Q == queue[q]
           R == queue'[q]
           u == Used(Q)
           id == Num(Q, k)
           r == Removes(Top, verdict)
<1>1. QueuesOK /\ RestOK /\ q \in Queue
  BY TopOK DEF LinkInv
<1>2. Settled(q, k, r)
  BY SettleRemoves
<1>3. u \in Seq(1 .. Size[q]) /\ Len(u) \in Nat /\ k \in 1 .. Len(u)
  BY <1>1, QueueFacts DEF At, Spots
<1>4. sent' = sent /\ (taken' = taken \/ (r /\ taken' = [taken EXCEPT ![id] = Top.task]))
  BY DEF Settle, Removes
<1> HIDE DEF r
<1>5. ASSUME r PROVE \E h : Thins(h, Used(R), u) /\ \A i \in 1 .. Len(Used(R)) : h[i] # k
  <2>1. Used(R) = Cut(u, k)
    BY <1>2, <1>5 DEF Settled
  <2> HIDE DEF u, R
  <2> QED
    BY <1>3, <2>1, CutThins
<1>6. \A p \in Queue : Fewer(queue'[p], queue[p])
  <2> TAKE p \in Queue
  <2>1. CASE p = q /\ r
    BY <1>2, <1>5, <2>1 DEF Fewer, Settled
  <2>2. CASE p # q \/ ~r
    <3>1. queue'[p] = queue[p]
      BY <1>2, <2>2 DEF Settled
    <3>2. \E h : Thins(h, Used(queue[p]), Used(queue[p]))
      BY <1>1, QueueFacts, ItselfThins
    <3> QED
      BY <3>1, <3>2 DEF Fewer
  <2> QED
    BY <2>1, <2>2
<1>7. HeldOnce /\ HeldSent
  BY DEF HeldInv
<1>8. id \in 1 .. Len(sent)
  BY <1>1, <1>7 DEF At, HeldSent
<1>9. \A p \in Queue : \A i \in Spots(queue[p]) : Num(queue[p], i) = id => p = q /\ i = k
  <2>1. k \in Spots(queue[q])
    BY DEF At
  <2> HIDE DEF q
  <2> QED
    BY <1>1, <1>7, <2>1 DEF HeldOnce
<1>10. ASSUME r PROVE \A p \in Queue : \A i \in Spots(queue'[p]) : Num(queue'[p], i) # id
  <2> TAKE p \in Queue
  <2> TAKE i \in Spots(queue'[p])
  <2>1. CASE p # q
    <3>1. queue'[p] = queue[p]
      BY <1>2, <2>1 DEF Settled
    <3> QED
      BY <1>9, <2>1, <3>1
  <2>2. CASE p = q
    <3>1. PICK h : Thins(h, Used(R), u) /\ \A j \in 1 .. Len(Used(R)) : h[j] # k
      BY <1>5, <1>10
    <3>2. h[i] \in Spots(Q) /\ Used(R)[i] = u[h[i]] /\ h[i] # k
      BY <2>2, <3>1 DEF Thins, Spots
    <3>3. Num(R, i) = Num(Q, h[i])
      BY <1>2, <3>2 DEF Settled, Num
    <3>4. Num(Q, h[i]) # id
      BY <1>1, <1>9, <3>2
    <3> QED
      BY <2>2, <3>3, <3>4
  <2> QED
    BY <2>1, <2>2
<1> HIDE DEF id
<1>11. \/ taken' = taken
       \/ \E t : \E i \in 1 .. Len(sent) :
              /\ taken' = [taken EXCEPT ![i] = t]
              /\ \A p \in Queue : \A j \in Spots(queue'[p]) : Num(queue'[p], j) # i
  BY <1>4, <1>8, <1>10
<1> QED
  BY <1>1, <1>4, <1>6, <1>11, HeldFewer

LEMMA HeldDestroys ==
    ASSUME LinkInv, HeldInv, NEW w \in Closing, NEW state, DestroyWindow(w, state)
    PROVE  HeldInv' /\ Owner[w] \in Task /\ Owner[w] \in Queue
           /\ \A p \in Queue : p # Owner[w] => queue'[p] = queue[p]
<1>1. w \in Window /\ Owner[w] \in Task /\ Owner[w] \in Queue
  BY Constants, QueueNames DEF Types, OwnerAssumption
<1>2. QueuesOK /\ RestOK /\ TWIN_FlushWindowMessages(w) /\ UNCHANGED <<sent, taken>>
  BY DEF LinkInv, DestroyWindow
<1>3. /\ \A p \in Queue : p # Owner[w] => queue'[p] = queue[p]
      /\ Fewer(queue'[Owner[w]], queue[Owner[w]])
  BY <1>1, <1>2, FlushLinks DEF Fewer
<1>4. \A p \in Queue : Fewer(queue'[p], queue[p])
  <2> TAKE p \in Queue
  <2>1. CASE p = Owner[w]
    BY <1>3, <2>1
  <2>2. CASE p # Owner[w]
    <3>1. queue'[p] = queue[p]
      BY <1>3, <2>2
    <3>2. \E h : Thins(h, Used(queue[p]), Used(queue[p]))
      BY <1>2, QueueFacts, ItselfThins
    <3> QED
      BY <3>1, <3>2 DEF Fewer
  <2> QED
    BY <2>1, <2>2
<1> QED
  BY <1>1, <1>2, <1>3, <1>4, HeldFewer

----------------------------------------------------------------------------
\* Where the search is, as long as window procedures do not take messages

LEMMA OneScan ==
    ASSUME LinkInv, ScanInv, scans # <<>>
    PROVE  /\ Len(scans) = 1 /\ Top = scans[1] /\ SearchOK(Top) /\ Top.queue \in Queue
           /\ Scanning(Top, queue[Top.queue], sent) /\ ~crashed
<1>1. ScansOK /\ Len(scans) <= 1
  BY DEF LinkInv, ScanInv
<1>2. Len(scans) \in Nat /\ Len(scans) # 0
  BY <1>1, EmptySeq, LenProperties DEF ScansOK
<1>3. Len(scans) = 1
  <2> DEFINE L == Len(scans)
  <2>1. L \in Nat /\ L # 0 /\ L <= 1
    BY <1>1, <1>2
  <2> HIDE DEF L
  <2>2. L = 1
    BY <2>1
  <2> QED
    BY <2>2 DEF L
<1>4. SearchOK(Top) /\ Top.queue \in Queue
  BY <1>1, TopOK
<1> QED
  BY <1>3, <1>4 DEF Top, ScanInv

LEMMA NoScan == ASSUME Len(scans') = 0, ~crashed' PROVE ScanInv'
<1>1. 1 .. Len(scans') = {}
  OBVIOUS
<1> QED
  BY <1>1 DEF ScanInv

LEMMA ScanNow ==
    ASSUME Len(scans') = 1, ~crashed', Scanning(scans'[1], queue'[scans'[1].queue], sent')
    PROVE  ScanInv'
<1>1. \A i \in 1 .. Len(scans') : i = 1
  OBVIOUS
<1> QED
  BY <1>1 DEF ScanInv

\* While the program runs a search waits for the procedures.
LEMMA Asks ==
    ASSUME LinkInv, ScanInv, Running, scans # <<>>
    PROVE  /\ Top.at = "Forward" /\ Top.queue = System /\ Top.lpQueueMsg # Null
           /\ Asking(Top, queue[System], sent)
           /\ \E k \in Spots(queue[System]) : AtSpot(Top, queue[System], k, sent)
<1>1. Top.at = "Forward" /\ SearchOK(Top) /\ Scanning(Top, queue[Top.queue], sent)
  BY OneScan DEF Running, InProcedure
<1>2. Asking(Top, queue[Top.queue], sent) /\ Top.lpQueueMsg # Null
  BY <1>1 DEF Scanning, SearchOK
<1>3. Top.queue = System
  BY <1>2 DEF Asking
<1> QED
  BY <1>1, <1>2, <1>3 DEF Scanning

LEMMA Begins ==
    ASSUME QueuesOK, NEW s, s.queue \in Queue, s.at = "Loop",
           s.lpQueueMsg = queue[s.queue].lpQueueNext
    PROVE  Scanning(s, queue[s.queue], sent)
<1> DEFINE Q == queue[s.queue]
           u == Used(Q)
<1>1. s.lpQueueMsg = Place(u, 1) /\ Len(u) \in Nat
  BY QueueFacts
<1>2. ASSUME s.lpQueueMsg # Null PROVE 1 \in Spots(Q) /\ u[1] = s.lpQueueMsg
  BY <1>1, <1>2 DEF Place, Spots
<1>3. 1 .. 1 - 1 = {}
  OBVIOUS
<1> QED
  BY <1>2, <1>3 DEF Scanning, AtSpot

\* A message is put into the system queue while a search is at k in it.
LEMMA SendsBy ==
    ASSUME LinkInv, HeldInv, NEW front, NEW m, Sends(System, front, m), Fits(System, front, m),
           NEW s, NEW k, AtSpot(s, queue[System], k, sent), Asking(s, queue[System], sent)
    PROVE  /\ Asking(s, queue'[System], sent')
           /\ \E j \in Spots(queue'[System]) : AtSpot(s, queue'[System], j, sent')
<1> DEFINE Q == queue[System]
           R == queue'[System]
           u == Used(Q)
           v == Used(R)
           p == Spot(Q, front)
           n == Q.lpQueueFree
           L == Len(sent)
           j == IF k < p THEN k ELSE k + 1
<1>1. /\ Moved(R, Q, p, L + 1) /\ LinkInv'
      /\ L \in Nat /\ \A i \in 1 .. L : sent'[i] = sent[i]
      /\ sent'[L + 1] = m
  BY SendMoves
<1>2. n \in 1 .. Size[System] /\ p \in 1 .. Len(u) + 1 /\ v = Put(u, p, n)
  BY SendLinks
<1>3. System \in Queue /\ QueuesOK /\ QueuesOK'
  BY <1>1, QueueNames DEF LinkInv
<1>4. u \in Seq(1 .. Size[System]) /\ Len(u) \in Nat
      /\ \A i \in 1 .. Len(u) : Q.lpNextMsg[u[i]] = Place(u, i + 1)
  BY <1>3, QueueFacts DEF Spots
<1>5. \A i \in 1 .. Len(v) : R.lpNextMsg[v[i]] = Place(v, i + 1)
  <2>1. Sound(queue'[System], Size[System])
    BY <1>3 DEF QueuesOK
  <2> QED
    BY <2>1 DEF Sound, Lists, Linked
<1>6. k \in 1 .. Len(u) /\ u[k] = s.lpQueueMsg
  BY DEF AtSpot, Spots
<1>7. \A i \in 1 .. Len(u) : Num(Q, i) \in 1 .. L /\ sent'[Num(Q, i)] = sent[Num(Q, i)]
  BY <1>1, <1>3 DEF HeldInv, HeldSent, Spots
<1>8. IsPut(v, 1 .. Size[System], u, p, n)
  <2>1. IsPut(Put(u, p, n), 1 .. Size[System], u, p, n)
    <3> HIDE DEF u, p, n
    <3> QED
      BY <1>2, <1>4, PutFacts
  <2> QED
    BY <1>2, <2>1
<1>9. p <= Len(u) => m.kind \notin Ordered
  <2>1. u # <<>>
    BY <1>4, <1>6, EmptySeq
  <2> QED
    BY <1>4, <2>1 DEF Spot, Fits
<1> HIDE DEF p, n, L, u, v
<1>10. j \in 1 .. Len(v) /\ j \in Nat \ {0} /\ v[j] = u[k] /\ Len(v) = Len(u) + 1
  BY <1>2, <1>4, <1>6, <1>8 DEF IsPut
<1>11. Num(R, j) = Num(Q, k)
  <2>1. CASE k < p
    BY <1>1, <1>10, <2>1 DEF Moved, Spots, v
  <2>2. CASE ~ (k < p)
    <3>1. j > p /\ j - 1 = k
      BY <1>2, <1>4, <1>6, <2>2
    <3> HIDE DEF j
    <3> QED
      BY <1>1, <1>10, <3>1 DEF Moved, Spots, v
  <2> QED
    BY <2>1, <2>2
<1>12. Asking(s, R, sent')
  <2>1. Q.Message[u[k]] = Num(Q, k) /\ R.Message[v[j]] = Num(R, j)
    BY DEF Num, u, v
  <2>2. s.queue = System /\ s.id = Num(Q, k) /\ sent[s.id].kind = "mouse"
        /\ s.lpQueueNext \in {Place(u, k + 1), Null}
    BY <1>4, <1>6, <2>1 DEF Asking
  <2>3. Place(v, j + 1) = Place(u, k + 1) \/ Place(u, k + 1) = Null
    <3>1. j + 1 \in Nat \ {0}
      BY <1>10
    <3>2. Place(v, j + 1) = IF j + 1 < p THEN Place(u, j + 1)
                            ELSE IF j + 1 = p THEN n ELSE Place(u, (j + 1) - 1)
      <4> HIDE DEF j
      <4> QED
        BY <1>8, <3>1 DEF IsPut
    <3>3. CASE k < p /\ j + 1 # p
      BY <1>2, <1>4, <1>6, <3>2, <3>3
    <3>4. CASE j + 1 = p
      <4>1. p # 1 /\ k + 1 = p
        BY <1>2, <1>4, <1>6, <3>4
      <4>2. p = Len(u) + 1
        BY <4>1 DEF Spot, p, u
      <4> QED
        BY <1>4, <4>1, <4>2 DEF Place
    <3>5. CASE ~ (k < p)
      <4>1. ~ (j + 1 < p) /\ j + 1 # p /\ (j + 1) - 1 = k + 1
        BY <1>2, <1>4, <1>6, <3>5
      <4> QED
        BY <3>2, <4>1
    <3> QED
      BY <3>3, <3>4, <3>5
  <2>4. R.Message[s.lpQueueMsg] = s.id /\ R.lpNextMsg[s.lpQueueMsg] = Place(v, j + 1)
    BY <1>5, <1>6, <1>10, <1>11, <2>1, <2>2
  <2>5. sent'[s.id].kind = "mouse"
    BY <1>6, <1>7, <2>2
  <2> HIDE DEF j, Q, R
  <2> QED
    BY <2>2, <2>3, <2>4, <2>5 DEF Asking
<1>13. ASSUME s.remove, NEW i \in 1 .. j - 1, sent'[Num(R, i)].kind \in Ordered
       PROVE  Passes(s, sent'[Num(R, i)])
  <2>1. \A x \in 1 .. k - 1 : /\ sent'[Num(Q, x)] = sent[Num(Q, x)]
                              /\ sent[Num(Q, x)].kind \in Ordered => Passes(s, sent[Num(Q, x)])
    <3>1. \A x \in 1 .. k - 1 : x \in 1 .. Len(u)
      BY <1>4, <1>6
    <3> QED
      BY <1>7, <1>13, <3>1 DEF AtSpot
  <2>2. i \in Spots(R) /\ i \in Int
    BY <1>4, <1>6, <1>10 DEF Spots, v
  <2>3. CASE i < p
    <3>1. Num(R, i) = Num(Q, i)
      BY <1>1, <2>2, <2>3 DEF Moved
    <3>2. i \in 1 .. k - 1
      BY <1>2, <1>4, <1>6, <2>3
    <3> QED
      BY <1>13, <2>1, <3>1, <3>2
  <2>4. CASE i = p
    <3>1. p <= Len(u)
      BY <1>2, <1>4, <1>6, <2>4
    <3>2. Num(R, i) = L + 1
      BY <1>1, <2>4 DEF Moved
    <3> QED
      BY <1>1, <1>9, <1>13, <3>1, <3>2
  <2>5. CASE i > p
    <3>1. Num(R, i) = Num(Q, i - 1)
      BY <1>1, <2>2, <2>5 DEF Moved
    <3>2. i - 1 \in 1 .. k - 1
      BY <1>2, <1>4, <1>6, <2>5
    <3> QED
      BY <1>13, <2>1, <3>1, <3>2
  <2>6. p \in Int
    BY <1>2
  <2> QED
    BY <2>2, <2>3, <2>4, <2>5, <2>6
<1> HIDE DEF j, Q, R
<1>14. AtSpot(s, R, j, sent')
  BY <1>6, <1>10, <1>13 DEF AtSpot, Spots, v
<1>15. j \in Spots(R)
  BY <1>14 DEF AtSpot
<1> QED
  BY <1>12, <1>14, <1>15 DEF R

\* The messages that were sent before say the same.
LEMMA SameSpot ==
    ASSUME LinkInv, HeldInv, NEW s, NEW q \in Queue, NEW k, AtSpot(s, queue[q], k, sent),
           queue'[q] = queue[q], \A n \in 1 .. Len(sent) : sent'[n] = sent[n]
    PROVE  AtSpot(s, queue'[q], k, sent')
<1> DEFINE Q == queue[q]
<1>1. k \in Spots(Q) /\ Used(Q)[k] = s.lpQueueMsg /\ Len(Used(Q)) \in Nat
  BY QueueFacts DEF LinkInv, AtSpot
<1>2. \A i \in 1 .. k - 1 : i \in Spots(Q)
  BY <1>1 DEF Spots
<1>3. \A i \in Spots(Q) : sent'[Num(Q, i)] = sent[Num(Q, i)]
  BY DEF HeldInv, HeldSent
<1> HIDE DEF Q
<1>4. queue'[q] = Q /\ AtSpot(s, Q, k, sent)
  BY DEF Q
<1> QED
  BY <1>1, <1>2, <1>3, <1>4 DEF AtSpot

LEMMA SendScans ==
    ASSUME LinkInv, HeldInv, ScanInv, NEW q, NEW front, NEW m,
           Sends(q, front, m), Fits(q, front, m)
    PROVE  ScanInv'
<1>1. /\ scans' = scans /\ crashed' = crashed /\ q \in Queue /\ System \in Queue
      /\ \A p \in Queue : p # q => queue'[p] = queue[p]
      /\ \A n \in 1 .. Len(sent) : sent'[n] = sent[n]
  BY SendMoves, QueueNames
<1>2. Running
  BY DEF Sends, QueueAddMsg
<1>3. CASE scans = <<>>
  BY <1>1, <1>3, EmptySeq, NoScan DEF ScanInv
<1>4. CASE scans # <<>>
  <2>1. Len(scans) = 1 /\ Top = scans[1] /\ ~crashed
    BY <1>4, OneScan
  <2>2. Top.queue = System /\ Top.lpQueueMsg # Null /\ Asking(Top, queue[System], sent)
    BY <1>2, <1>4, Asks
  <2>3. PICK k \in Spots(queue[System]) : AtSpot(Top, queue[System], k, sent)
    BY <1>2, <1>4, Asks
  <2> DEFINE s == Top
  <2> HIDE DEF s
  <2>4. Asking(s, queue'[System], sent')
        /\ \E j \in Spots(queue'[System]) : AtSpot(s, queue'[System], j, sent')
    <3>1. CASE q = System
      BY <2>2, <2>3, <3>1, SendsBy DEF s
    <3>2. CASE q # System
      <4>1. queue'[System] = queue[System]
        BY <1>1, <3>2
      <4>2. AtSpot(s, queue'[System], k, sent')
        BY <1>1, <2>3, <4>1, SameSpot DEF s
      <4>3. s.id = Num(queue[System], k)
        BY <2>2, <2>3 DEF AtSpot, Asking, Num, s
      <4>4. sent'[s.id] = sent[s.id]
        BY <1>1, <2>3, <4>3 DEF HeldInv, HeldSent
      <4>5. Asking(s, queue[System], sent')
        BY <2>2, <4>4 DEF Asking, s
      <4> QED
        BY <2>3, <4>1, <4>2, <4>5
    <3> QED
      BY <3>1, <3>2
  <2>5. s = scans'[1] /\ s.queue = System /\ Len(scans') = 1 /\ ~crashed'
    BY <1>1, <2>1, <2>2 DEF s
  <2>6. Scanning(s, queue'[System], sent')
    BY <2>4 DEF Scanning
  <2> QED
    BY <2>5, <2>6, ScanNow
<1> QED
  BY <1>3, <1>4

LEMMA DestroyScans ==
    ASSUME LinkInv, HeldInv, ScanInv, NEW w \in Closing, NEW state, DestroyWindow(w, state)
    PROVE  ScanInv'
<1>1. queue'[System] = queue[System]
  BY HeldDestroys, QueueNames
<1>2. UNCHANGED <<scans, sent, taken, crashed>> /\ Running
  BY DEF DestroyWindow
<1>3. CASE scans = <<>>
  BY <1>2, <1>3, EmptySeq, NoScan DEF ScanInv
<1>4. CASE scans # <<>>
  <2>1. Len(scans) = 1 /\ Top = scans[1] /\ ~crashed /\ Scanning(Top, queue[Top.queue], sent)
    BY <1>4, OneScan
  <2>2. Top.queue = System
    BY <1>2, <1>4, Asks
  <2> QED
    BY <1>1, <1>2, <2>1, <2>2, ScanNow
<1> QED
  BY <1>3, <1>4

LEMMA GetScans ==
    ASSUME ~NestedGets, LinkInv, ScanInv, NEW t \in Task, NEW r \in Requests, GetMessage(t, r)
    PROVE  ScanInv'
<1>1. scans = <<>> /\ ~crashed
  BY DEF GetMessage, Running
<1>2. UNCHANGED <<queue, sent, crashed>>
  BY DEF GetMessage
<1>3. Len(scans) = 0
  BY <1>1, EmptySeq
<1>4. Len(scans') = 1 /\ scans'[1].at = "Loop" /\ scans'[1].queue \in Queue
      /\ scans'[1].lpQueueMsg = queue[scans'[1].queue].lpQueueNext
  BY <1>3, GetLinks
<1>5. QueuesOK
  BY DEF LinkInv
<1> DEFINE s == scans'[1]
<1> HIDE DEF s
<1>6. Scanning(s, queue[s.queue], sent)
  BY <1>4, <1>5, Begins DEF s
<1> QED
  BY <1>1, <1>2, <1>4, <1>6, ScanNow DEF s

LEMMA EndScans ==
    ASSUME LinkInv, ScanInv, ScanEnd
    PROVE  ScanInv'
<1>1. scans # <<>> /\ ScansOK /\ QueuesOK /\ UNCHANGED <<queue, sent, crashed>>
  BY DEF ScanEnd, AtLoop, LinkInv
<1>2. Len(scans) = 1 /\ ~crashed /\ SearchOK(Top)
  BY <1>1, OneScan
<1>3. CASE Top.queue = System
  <2>1. scans' = Returned
    BY <1>3 DEF ScanEnd
  <2>2. Len(scans') = 0
    BY <1>1, <1>2, <2>1, ScansReturned
  <2> QED
    BY <1>1, <1>2, <2>2, NoScan
<1>4. CASE Top.queue # System
  <2> DEFINE n == queue[System].lpQueueNext
             s == Loop(Top, System, n)
  <2>1. scans' = Replaced(s)
    BY <1>4 DEF ScanEnd
  <2>2. System \in Queue /\ n \in 0 .. Size[System]
    BY <1>1, QueueNames, TopNodes
  <2>3. SearchOK(s) /\ s.at = "Loop" /\ s.queue = System /\ s.lpQueueMsg = n
    BY <1>2, <2>2, LoopOK
  <2> HIDE DEF s
  <2>4. Len(scans') = 1 /\ scans'[1] = s
    BY <1>1, <1>2, <2>1, <2>3, ScansReplaced
  <2>5. Scanning(s, queue[s.queue], sent)
    BY <1>1, <2>2, <2>3, Begins
  <2> QED
    BY <1>1, <1>2, <2>3, <2>4, <2>5, ScanNow
<1> QED
  BY <1>3, <1>4

\* The search goes on at the node that followed, or at none.
LEMMA SettleScans ==
    ASSUME LinkInv, HeldInv, ScanInv, scans # <<>>, NEW k, AtSpot(Top, queue[Top.queue], k, sent),
           NEW next, next \in {queue[Top.queue].lpNextMsg[Top.lpQueueMsg], Null},
           NEW verdict, Settle(Top, Top.lpQueueMsg, Num(queue[Top.queue], k), next, verdict),
           LET m == sent[Num(queue[Top.queue], k)]
           IN  verdict = "skip" /\ m.kind \in Ordered => Passes(Top, m)
    PROVE  ScanInv'
<1> DEFINE q == Top.queue
           Q == queue[q]
           R == queue'[q]
           u == Used(Q)
           v == Used(R)
           r == Removes(Top, verdict)
           s == Loop(Top, q, next)
<1>1. QueuesOK /\ ScansOK
  BY DEF LinkInv
<1>2. Len(scans) = 1 /\ q \in Queue /\ SearchOK(Top)
  BY OneScan
<1>3. At(Top, k) /\ k \in 1 .. Len(u) /\ u[k] = Top.lpQueueMsg
  BY DEF At, AtSpot, Spots
<1>4. Settled(q, k, r) /\ crashed' = FALSE
  BY <1>3, SettleRemoves
<1>5. sent' = sent /\ scans' = IF verdict = "take" THEN Returned ELSE Replaced(s)
  BY DEF Settle
<1>6. u \in Seq(1 .. Size[q]) /\ Len(u) \in Nat /\ Size[q] \in Nat
      /\ Q.lpNextMsg[u[k]] = Place(u, k + 1) /\ \A i \in 1 .. Len(u) : u[i] \in 1 .. Size[q]
  BY <1>1, <1>2, <1>3, QueueFacts DEF Spots
<1>7. CASE verdict = "take"
  <2>1. Len(scans') = 0
    BY <1>1, <1>2, <1>5, <1>7, ScansReturned
  <2> QED
    BY <1>4, <2>1, NoScan
<1>8. CASE verdict # "take"
  <2>1. next \in 0 .. Size[q]
    <3>1. next \in {Place(u, k + 1), Null}
      BY <1>3, <1>6
    <3> HIDE DEF u, q
    <3> QED
      BY <1>6, <3>1 DEF Place, Null
  <2>2. SearchOK(s) /\ s.at = "Loop" /\ s.queue = q /\ s.lpQueueMsg = next
        /\ s.task = Top.task /\ s.hwnd = Top.hwnd /\ s.kinds = Top.kinds /\ s.remove = Top.remove
    BY <1>2, <2>1, LoopOK
  <2> HIDE DEF s
  <2>3. Len(scans') = 1 /\ scans'[1] = s
    BY <1>1, <1>2, <1>5, <1>8, <2>2, ScansReplaced
  <2>4. \A m : Passes(s, m) <=> Passes(Top, m)
    BY <2>2 DEF Passes
  <2>5. \A i \in 1 .. k - 1 :
           s.remove /\ sent[Num(Q, i)].kind \in Ordered => Passes(s, sent[Num(Q, i)])
    BY <2>2, <2>4 DEF AtSpot
  <2>6. ASSUME next # Null
        PROVE  \E j \in Spots(R) : AtSpot(s, R, j, sent')
    <3>1. next = u[k + 1] /\ k + 1 \in 1 .. Len(u)
      <4>1. next = Place(u, k + 1)
        BY <1>3, <1>6, <2>6
      <4> HIDE DEF u
      <4> QED
        BY <2>6, <4>1 DEF Place
    <3>2. CASE r
      <4>1. v = Cut(u, k) /\ R.Message = Q.Message
        BY <1>4, <3>2 DEF Settled
      <4>2. Len(v) = Len(u) - 1
            /\ \A i \in 1 .. Len(u) - 1 : v[i] = IF i < k THEN u[i] ELSE u[i + 1]
        <5> HIDE DEF u, v
        <5>1. IsCut(v, 1 .. Size[q], u, k)
          BY <1>3, <1>6, <4>1, CutFacts
        <5> QED
          BY <5>1 DEF IsCut
      <4> HIDE DEF u, v
      <4>3. k \in 1 .. Len(v) /\ v[k] = next
        BY <1>3, <1>6, <3>1, <4>2
      <4>4. \A i \in 1 .. k - 1 : v[i] = u[i]
        <5>1. \A i \in 1 .. k - 1 : i \in 1 .. Len(u) - 1 /\ i < k
          BY <1>3, <1>6
        <5> QED
          BY <4>2, <5>1
      <4>5. \A i \in 1 .. k - 1 : Num(R, i) = Num(Q, i)
        BY <4>1, <4>4 DEF Num, u, v
      <4>6. AtSpot(s, R, k, sent')
        BY <1>5, <2>2, <2>5, <4>3, <4>5 DEF AtSpot, Spots, v
      <4> QED
        BY <4>6 DEF AtSpot
    <3>3. CASE ~r
      <4>1. R = Q
        BY <1>4, <3>3 DEF Settled
      <4>2. s.remove => verdict = "skip"
        BY <2>2, <3>3 DEF Removes
      <4>3. s.remove /\ sent[Num(Q, k)].kind \in Ordered => Passes(s, sent[Num(Q, k)])
        BY <2>4, <4>2
      <4>4. \A i \in 1 .. k + 1 - 1 : i \in 1 .. k - 1 \/ i = k
        BY <1>3, <1>6
      <4>5. AtSpot(s, Q, k + 1, sent)
        BY <2>2, <2>5, <3>1, <4>3, <4>4 DEF AtSpot, Spots
      <4> QED
        BY <1>5, <4>1, <4>5 DEF AtSpot
    <3> QED
      BY <3>2, <3>3
  <2>7. Scanning(s, R, sent')
    BY <2>2, <2>6 DEF Scanning
  <2> QED
    BY <1>4, <2>2, <2>3, <2>7, ScanNow
<1> QED
  BY <1>7, <1>8

\* A search that takes a message does not pass it over, and one that passes it over for
\* good has a reason that stays.
LEMMA VerdictPasses ==
    ASSUME NEW s, NEW id, NEW gone, LET w == sent[id].hwnd
                                     IN  gone <=> w # NoWindow /\ window[w] = "gone",
           NEW verdict, verdict = Verdict(s, id, sent[id].hwnd, gone)
    PROVE  /\ verdict = "skip" => Passes(s, sent[id])
           /\ verdict = "take" => ~ Passes(s, sent[id])
<1> DEFINE w == sent[id].hwnd
<1>1. CASE gone
  <2>1. verdict = "flush"
    BY <1>1 DEF Verdict
  <2> QED
    BY <2>1
<1>2. CASE ~gone
  <2>1. CASE \/ sent[id].kind \notin s.kinds
             \/ s.hwnd # NoWindow /\ w \notin {NoWindow, s.hwnd} /\ ~IsChild(w, s.hwnd)
    <3>1. verdict = "skip"
      BY <1>2, <2>1 DEF Verdict
    <3> QED
      BY <1>2, <2>1, <3>1 DEF Passes, IsChild
  <2>2. CASE /\ ~ (sent[id].kind \notin s.kinds)
             /\ ~ (s.hwnd # NoWindow /\ w \notin {NoWindow, s.hwnd} /\ ~IsChild(w, s.hwnd))
    <3>1. CASE w = NoWindow
      <4>1. verdict = "take"
        BY <1>2, <2>2, <3>1 DEF Verdict
      <4> QED
        BY <2>2, <3>1, <4>1 DEF Passes, IsChild
    <3>2. CASE w # NoWindow
      <4>1. /\ verdict = "skip" => Owner[w] # s.task
            /\ verdict = "take" => Owner[w] = s.task
        BY <1>2, <2>2, <3>2 DEF Verdict
      <4> QED
        BY <2>2, <3>2, <4>1 DEF Passes, IsChild
    <3> QED
      BY <3>1, <3>2
  <2> QED
    BY <2>1, <2>2
<1> QED
  BY <1>1, <1>2

\* What every settling of a message is: the search is at the k-th node of its queue.
Settles(k, next, verdict) ==
    LET q == Top.queue
        m == sent[Num(queue[q], k)]
    IN  /\ scans # <<>> /\ AtSpot(Top, queue[q], k, sent)
        /\ next \in {queue[q].lpNextMsg[Top.lpQueueMsg], Null} /\ verdict \in Verdicts
        /\ Settle(Top, Top.lpQueueMsg, Num(queue[q], k), next, verdict)
        /\ m.kind \in Ordered =>
               /\ verdict = "skip" => Passes(Top, m)
               /\ verdict = "take" => ~ Passes(Top, m)
        /\ verdict \in {"drop", "flush"} => m.hwnd # NoWindow
        /\ verdict \in {"drop", "flush"} =>
               \/ window[m.hwnd] = "gone"
               \/ q = System /\ (m.kind = "mouse" \/ window[m.hwnd] = "disabled")
        /\ verdict = "take" /\ m.hwnd # NoWindow /\ window[m.hwnd] = "gone" =>
               q = System /\ m.kind = "mouse"

LEMMA ForwardSettles ==
    ASSUME LinkInv, HeldInv, ScanInv, NEW w \in Window \cup {NoWindow}, ForwardReturns(w)
    PROVE  \E k, next, verdict : Settles(k, next, verdict)
<1> DEFINE q == Top.queue
           v == IF w = NoWindow THEN "skip" ELSE Verdict(Top, Top.id, w, FALSE)
<1>1. scans # <<>> /\ InProcedure /\ Running
  BY DEF ForwardReturns, InProcedure, Running
<1>2. /\ Top.at = "Forward" /\ q = System /\ Top.lpQueueMsg # Null
      /\ Asking(Top, queue[System], sent)
  BY <1>1, Asks
<1>3. PICK k \in Spots(queue[System]) : AtSpot(Top, queue[System], k, sent)
  BY <1>1, Asks
<1>4. Top.id = Num(queue[q], k)
  BY <1>2, <1>3 DEF AtSpot, Asking, Num
<1>5. Settle(Top, Top.lpQueueMsg, Num(queue[q], k), Top.lpQueueNext, v)
  BY <1>4 DEF ForwardReturns
<1>6. Top.lpQueueNext \in {queue[q].lpNextMsg[Top.lpQueueMsg], Null}
  BY <1>2 DEF Asking
<1>7. sent[Num(queue[q], k)].kind = "mouse"
  BY <1>2, <1>4 DEF Asking
<1>8. sent[Num(queue[q], k)].hwnd # NoWindow
  <2>1. Num(queue[q], k) \in 1 .. Len(sent)
    BY <1>2, <1>3, QueueNames DEF HeldInv, HeldSent
  <2> QED
    BY <1>7, <2>1 DEF HeldInv, SentOK
<1>9. v \in Verdicts
  BY DEF Verdict, Verdicts
<1> HIDE DEF v
<1>10. Settles(k, Top.lpQueueNext, v)
  BY <1>1, <1>2, <1>3, <1>9, <1>5, <1>6, <1>7, <1>8 DEF Settles, Ordered
<1> QED
  BY <1>10

LEMMA MessageSettles ==
    ASSUME LinkInv, HeldInv, ScanInv, ScanMessage
    PROVE  \/ \E k, next, verdict : Settles(k, next, verdict)
           \/ UNCHANGED <<queue, window, sent, taken>> /\ ScanInv'
<1> DEFINE q == Top.queue
           Q == queue[q]
           n == Top.lpQueueMsg
           id == Q.Message[n]
           next == Q.lpNextMsg[n]
           w == sent[id].hwnd
           gone == w # NoWindow /\ window[w] = "gone"
           v == Verdict(Top, id, w, gone)
<1>1. scans # <<>> /\ ScansOK /\ QueuesOK /\ n # Null
  BY DEF ScanMessage, AtLoop, LinkInv
<1>2. /\ Len(scans) = 1 /\ SearchOK(Top) /\ q \in Queue /\ ~crashed
      /\ Scanning(Top, Q, sent)
  BY <1>1, OneScan
<1>3. PICK k \in Spots(Q) : AtSpot(Top, Q, k, sent)
  BY <1>1, <1>2 DEF Scanning
<1>4. Num(Q, k) = id
  BY <1>3 DEF AtSpot, Num
<1>5. CASE q = System /\ sent[id].kind = "mouse" /\ ~gone
  <2> DEFINE s == [Top EXCEPT !.at = "Forward", !.lpQueueNext = next, !.id = id]
  <2>1. scans' = Replaced(s) /\ UNCHANGED <<queue, window, sent, taken, crashed>>
    BY <1>5 DEF ScanMessage
  <2>2. next \in 0 .. Size[q] /\ id \in 0 .. MaxMsgs
    <3>1. n \in 1 .. Size[q]
      BY <1>1, <1>2, QueueNames DEF SearchOK, Null
    <3> HIDE DEF q, n
    <3> QED
      BY <1>1, <1>2, <3>1, TopNodes
  <2>3. /\ SearchOK(s) /\ s.at = "Forward" /\ s.queue = q /\ s.lpQueueMsg = n
        /\ s.lpQueueNext = next /\ s.id = id
        /\ s.task = Top.task /\ s.hwnd = Top.hwnd /\ s.kinds = Top.kinds /\ s.remove = Top.remove
    <3>1. SearchOK(Top) /\ Top.queue \in Queue /\ Top.lpQueueMsg # Null
          /\ next \in 0 .. Size[Top.queue] /\ id \in 0 .. MaxMsgs
      BY <1>1, <1>2, <2>2
    <3>2. s = Forwarded(Top, next, id)
      BY DEF Forwarded
    <3> HIDE DEF next, id, s
    <3> QED
      BY <3>1, <3>2, ForwardOK
  <2> HIDE DEF s
  <2>4. Len(scans') = 1 /\ scans'[1] = s
    BY <1>1, <1>2, <2>1, <2>3, ScansReplaced
  <2>5. AtSpot(s, Q, k, sent)
    <3>1. \A m : Passes(s, m) <=> Passes(Top, m)
      BY <2>3 DEF Passes
    <3> QED
      BY <1>3, <2>3, <3>1 DEF AtSpot
  <2>6. Asking(s, Q, sent)
    BY <1>5, <2>3 DEF Asking
  <2>7. Scanning(s, Q, sent)
    BY <1>3, <2>5, <2>6 DEF Scanning
  <2>8. Q = queue'[s.queue] /\ sent' = sent /\ ~crashed'
    BY <1>2, <2>1, <2>3
  <2> HIDE DEF Q
  <2>9. ScanInv'
    BY <2>4, <2>7, <2>8, ScanNow
  <2> QED
    BY <2>1, <2>9
<1>6. CASE ~ (q = System /\ sent[id].kind = "mouse" /\ ~gone)
  <2>1. Settle(Top, n, id, next, v)
    BY <1>6 DEF ScanMessage
  <2>2. /\ v = "skip" => Passes(Top, sent[id])
        /\ v = "take" => ~ Passes(Top, sent[id])
    <3> HIDE DEF id
    <3> QED
      BY VerdictPasses
  <2>3. v \in {"drop", "flush"} => w # NoWindow
    BY DEF Verdict
  <2>4. v \in {"drop", "flush"} => window[w] = "gone" \/ (q = System /\ window[w] = "disabled")
    BY DEF Verdict
  <2>5. v \in Verdicts
    BY DEF Verdict, Verdicts
  <2>6. v = "take" => ~gone
    BY DEF Verdict
  <2> HIDE DEF v
  <2>7. Settles(k, next, v)
    BY <1>1, <1>3, <1>4, <2>1, <2>2, <2>3, <2>4, <2>5, <2>6 DEF Settles
  <2> QED
    BY <2>7
<1> QED
  BY <1>5, <1>6

LEMMA StepKinds ==
    ASSUME IInv, ~NestedGets, [Next]_vars
    PROVE  \/ \E q, front, m : Sends(q, front, m) /\ Fits(q, front, m)
           \/ \E w \in Closing, state \in {"dead", "gone"} : DestroyWindow(w, state)
           \/ \E k, next, verdict : Settles(k, next, verdict)
           \/ /\ UNCHANGED <<queue, sent, taken>> /\ ScanInv'
              /\ \/ UNCHANGED window
                 \/ \E w \in Closing, state \in {"live", "disabled"} : EnableWindow(w, state)
<1>0. LinkInv /\ HeldInv /\ ScanInv
  BY DEF IInv
<1>1. CASE UNCHANGED vars
  BY <1>0, <1>1 DEF vars, ScanInv
<1>2. CASE \/ \E w \in Window : PostMessage(w)
           \/ \E i \in Inputs : DriverEvent(i[1], i[2])
           \/ \E t \in Task : PostToSelf(t) \/ PostAppMessage(t) \/ PostQuitMessage(t)
  BY <1>0, <1>2, SenderCases
<1>3. CASE \E n \in 1 .. Len(sent) : TranslateMessage(n)
  BY <1>0, <1>3, TranslateCase
<1>4. CASE \E w \in Closing, state \in {"live", "disabled"} : EnableWindow(w, state)
  <2>1. UNCHANGED <<queue, scans, sent, taken, crashed>>
    BY <1>4 DEF EnableWindow
  <2> QED
    BY <1>0, <1>4, <2>1 DEF ScanInv
<1>5. CASE \E w \in Closing, state \in {"dead", "gone"} : DestroyWindow(w, state)
  BY <1>5
<1>6. CASE \E t \in Task, r \in Requests : GetMessage(t, r)
  <2>1. ScanInv'
    BY <1>0, <1>6, GetScans
  <2>2. UNCHANGED <<queue, window, sent, taken>>
    BY <1>6 DEF GetMessage
  <2> QED
    BY <2>1, <2>2
<1>7. CASE ScanEnd
  <2>1. ScanInv'
    BY <1>0, <1>7, EndScans
  <2>2. UNCHANGED <<queue, window, sent, taken>>
    BY <1>7 DEF ScanEnd
  <2> QED
    BY <2>1, <2>2
<1>8. CASE ScanMessage
  BY <1>0, <1>8, MessageSettles
<1>9. CASE \E w \in Window \cup {NoWindow} : ForwardReturns(w)
  BY <1>0, <1>9, ForwardSettles
<1> QED
  BY <1>1, <1>2, <1>3, <1>4, <1>5, <1>6, <1>7, <1>8, <1>9 DEF Next

LEMMA InitHeld == ASSUME Init PROVE HeldInv /\ ScanInv
<1>1. \A q \in Queue : Spots(queue[q]) = {}
  <2> TAKE q \in Queue
  <2>1. Size[q] \in Nat /\ Size[q] # 0 /\ queue[q] = AllocQueue(Size[q])
    BY QueueNames DEF Init
  <2>2. Used(queue[q]) = <<>> /\ Len(<<>>) = 0
    BY <2>1, Allocated, EmptySeq
  <2>3. 1 .. 0 = {}
    OBVIOUS
  <2> QED
    BY <2>2, <2>3 DEF Spots
<1>2. Len(sent) = 0 /\ Len(scans) = 0 /\ crashed = FALSE
      /\ \A n \in 1 .. MaxMsgs : taken[n] = Nobody
  BY EmptySeq DEF Init
<1>3. 1 .. Len(sent) = {} /\ 1 .. Len(scans) = {}
  BY <1>2
<1>4. SentOK /\ TakenSent
  BY <1>2, <1>3 DEF SentOK, TakenSent
<1>5. HeldSent /\ HeldOnce /\ InTurn
  BY <1>1 DEF HeldSent, HeldOnce, InTurn
<1>6. OwnQueues
  BY <1>1, QueueNames DEF OwnQueues
<1>7. ScanInv
  BY <1>2, <1>3 DEF ScanInv
<1> QED
  BY <1>4, <1>5, <1>6, <1>7 DEF HeldInv

LEMMA NextInv == ASSUME IInv, ~NestedGets, [Next]_vars PROVE IInv'
<1>0. LinkInv /\ HeldInv /\ ScanInv /\ LinkInv'
  BY NextLinks DEF IInv
<1>1. ASSUME NEW q, NEW front, NEW m, Sends(q, front, m), Fits(q, front, m)
      PROVE  HeldInv' /\ ScanInv'
  BY <1>0, <1>1, HeldSends, SendScans
<1>2. ASSUME NEW w \in Closing, NEW state \in {"dead", "gone"}, DestroyWindow(w, state)
      PROVE  HeldInv' /\ ScanInv'
  BY <1>0, <1>2, HeldDestroys, DestroyScans
<1>3. ASSUME NEW k, NEW next, NEW verdict, Settles(k, next, verdict)
      PROVE  HeldInv' /\ ScanInv'
  <2>1. /\ scans # <<>> /\ AtSpot(Top, queue[Top.queue], k, sent)
        /\ next \in {queue[Top.queue].lpNextMsg[Top.lpQueueMsg], Null}
        /\ Settle(Top, Top.lpQueueMsg, Num(queue[Top.queue], k), next, verdict)
        /\ LET m == sent[Num(queue[Top.queue], k)]
           IN  verdict = "skip" /\ m.kind \in Ordered => Passes(Top, m)
    BY <1>3 DEF Settles
  <2>2. At(Top, k)
    BY <2>1 DEF At, AtSpot
  <2>3. HeldInv'
    BY <1>0, <2>1, <2>2, SettleHolds
  <2>4. ScanInv'
    BY <1>0, <2>1, SettleScans
  <2> QED
    BY <2>3, <2>4
<1>4. ASSUME UNCHANGED <<queue, sent, taken>> /\ ScanInv'
      PROVE  HeldInv' /\ ScanInv'
  <2>1. queue' = queue /\ sent' = sent /\ taken' = taken
    BY <1>4
  <2>2. SentOK' /\ TakenSent'
    BY <1>0, <2>1 DEF HeldInv, SentOK, TakenSent
  <2>3. HeldSent' /\ HeldOnce'
    BY <1>0, <2>1 DEF HeldInv, HeldSent, HeldOnce
  <2>4. OwnQueues'
    BY <1>0, <2>1 DEF HeldInv, OwnQueues
  <2>5. InTurn'
    BY <1>0, <2>1 DEF HeldInv, InTurn
  <2> QED
    BY <1>4, <2>2, <2>3, <2>4, <2>5 DEF HeldInv
<1>5. HeldInv' /\ ScanInv'
  <2>1. \/ \E q, front, m : Sends(q, front, m) /\ Fits(q, front, m)
        \/ \E w \in Closing, state \in {"dead", "gone"} : DestroyWindow(w, state)
        \/ \E k, next, verdict : Settles(k, next, verdict)
        \/ UNCHANGED <<queue, sent, taken>> /\ ScanInv'
    BY StepKinds
  <2> QED
    BY <1>1, <1>2, <1>3, <1>4, <2>1
<1> QED
  BY <1>0, <1>5 DEF IInv

\* The inductive invariant, as long as window procedures that are asked about the mouse do
\* not take messages themselves.
THEOREM SearchesInductive == ASSUME ~NestedGets PROVE Spec => []IInv
<1>1. Init => IInv
  BY InitLinks, InitHeld DEF IInv
<1>2. IInv /\ [Next]_vars => IInv'
  BY NextInv
<1> QED
  BY <1>1, <1>2, PTL DEF Spec

\* While window procedures are asked about a mouse message the search that waits for them
\* keeps its place, and no search runs off its list, for every queue and every program,
\* as long as those procedures do not take messages themselves.
THEOREM SearchesKeepTheirPlace == ASSUME ~NestedGets PROVE Spec => []ScanAnchored
<1>1. IInv => ScanAnchored
  <2> SUFFICES ASSUME IInv PROVE ScanAnchored
    OBVIOUS
  <2>1. ~crashed /\ LinkInv /\ ScanInv
    BY DEF IInv, ScanInv
  <2>2. ASSUME NEW i \in 1 .. Len(scans), scans[i].at = "Forward"
        PROVE  LET s == scans[i]
                   Q == queue[s.queue]
                   used == Chain(Q, Q.lpQueueNext)
               IN  /\ \E k \in 1 .. Len(used) : used[k] = s.lpQueueMsg
                   /\ Q.Message[s.lpQueueMsg] = s.id
                   /\ s.lpQueueNext \in {Q.lpNextMsg[s.lpQueueMsg], Null}
    <3> DEFINE s == scans[i]
               Q == queue[s.queue]
    <3>1. Scanning(s, Q, sent) /\ s.at = "Forward" /\ s.lpQueueMsg # Null
      BY <2>1, <2>2 DEF ScanInv, LinkInv, ScansOK, SearchOK
    <3> HIDE DEF s, Q
    <3>2. Asking(s, Q, sent)
      BY <3>1 DEF Scanning
    <3>3. PICK k \in Spots(Q) : AtSpot(s, Q, k, sent)
      BY <3>1 DEF Scanning
    <3>4. \E x \in 1 .. Len(Used(Q)) : Used(Q)[x] = s.lpQueueMsg
      BY <3>3 DEF AtSpot, Spots
    <3> QED
      BY <3>2, <3>4 DEF Asking, Used, s, Q
  <2> QED
    BY <2>1, <2>2 DEF ScanAnchored
<1> QED
  BY <1>1, SearchesInductive, PTL

LEMMA ContentsAre ==
    ASSUME LinkInv, NEW q \in Queue
    PROVE  /\ Contents(q) = Says(queue[q], Used(queue[q]))
           /\ Len(Contents(q)) = Len(Used(queue[q])) /\ 1 .. Len(Contents(q)) = Spots(queue[q])
           /\ \A i \in Spots(queue[q]) : Contents(q)[i] = sent[Num(queue[q], i)]
<1>1. Contents(q) = Says(queue[q], Used(queue[q]))
  BY DEF Contents, Says, Used
<1>2. Len(Used(queue[q])) \in Nat
  BY QueueFacts DEF LinkInv
<1> DEFINE u == Used(queue[q])
<1> HIDE DEF u
<1>3. Len(Says(queue[q], u)) = Len(u)
      /\ \A i \in 1 .. Len(u) : Says(queue[q], u)[i] = sent[queue[q].Message[u[i]]]
  BY <1>2, SaysLength DEF u
<1> QED
  BY <1>1, <1>3 DEF Spots, Num, u

\* A search that takes a key or a posted message has passed over all that came before it in
\* the same queue: none of them was for the same window and of the same kind.
LEMMA TakesInOrder ==
    ASSUME IInv, NEW k, NEW next, NEW verdict, Settles(k, next, verdict),
           NEW n \in 1 .. Len(sent), taken[n] = Nobody, taken'[n] # Nobody,
           sent[n].kind \in Ordered,
           NEW q \in Queue, NEW i \in Spots(queue[q]), NEW j \in Spots(queue[q]),
           Contents(q)[i] = sent[n], Contents(q)[j].id < n
    PROVE  Contents(q)[j].kind # sent[n].kind \/ Contents(q)[j].hwnd # sent[n].hwnd
<1> DEFINE p == Top.queue
           id == Num(queue[p], k)
<1>1. LinkInv /\ HeldInv /\ ScanInv /\ SentOK /\ HeldSent /\ HeldOnce /\ InTurn
  BY DEF IInv, HeldInv
<1>2. /\ scans # <<>> /\ AtSpot(Top, queue[p], k, sent)
      /\ Settle(Top, Top.lpQueueMsg, id, next, verdict)
      /\ sent[id].kind \in Ordered /\ verdict = "take" => ~ Passes(Top, sent[id])
  BY DEF Settles
<1>3. p \in Queue
  BY <1>1, <1>2, OneScan
<1>4. k \in Spots(queue[p]) /\ \A x \in 1 .. k - 1 :
         Top.remove /\ sent[Num(queue[p], x)].kind \in Ordered
         => Passes(Top, sent[Num(queue[p], x)])
  BY <1>2 DEF AtSpot
<1>5. verdict = "take" /\ Top.remove /\ taken' = [taken EXCEPT ![id] = Top.task]
  BY <1>2 DEF Settle
<1> HIDE DEF id, p
<1>6. n = id
  BY <1>5
<1>7. Contents(q)[i] = sent[Num(queue[q], i)] /\ Contents(q)[j] = sent[Num(queue[q], j)]
  BY <1>1, ContentsAre
<1>8. Num(queue[q], i) \in 1 .. Len(sent) /\ Num(queue[q], j) \in 1 .. Len(sent)
  BY <1>1 DEF HeldSent
<1>9. Num(queue[q], i) = n /\ Num(queue[q], j) < n
  BY <1>1, <1>7, <1>8 DEF SentOK
<1>10. q = p /\ i = k
  <2>1. Num(queue[q], i) = Num(queue[p], k)
    BY <1>6, <1>9 DEF id
  <2>2. \A b \in Queue : \A y \in Spots(queue[b]) :
           Num(queue[q], i) = Num(queue[b], y) => q = b /\ i = y
    BY <1>1 DEF HeldOnce
  <2>3. k \in Spots(queue[p])
    BY <1>4
  <2> QED
    BY <1>3, <2>1, <2>2, <2>3
<1>11. SUFFICES ASSUME sent[Num(queue[q], j)].kind = sent[n].kind,
                       sent[Num(queue[q], j)].hwnd = sent[n].hwnd
                PROVE  FALSE
  BY <1>7
<1>12. i \in Int /\ j \in Int /\ i >= 1 /\ j >= 1 /\ n \in Int
       /\ Num(queue[q], j) \in Int
  BY <1>8 DEF Spots
<1>13. ~ (i < j)
  <2>1. i < j => Num(queue[q], i) < Num(queue[q], j)
    BY <1>1, <1>9, <1>11 DEF InTurn
  <2> QED
    BY <1>9, <1>12, <2>1
<1>14. i # j
  BY <1>9, <1>12
<1>15. j \in 1 .. k - 1
  BY <1>10, <1>12, <1>13, <1>14
<1>16. Passes(Top, sent[Num(queue[q], j)])
  BY <1>4, <1>5, <1>10, <1>11, <1>15
<1>17. Passes(Top, sent[n])
  BY <1>11, <1>16 DEF Passes
<1> QED
  BY <1>2, <1>5, <1>6, <1>17 DEF id

\* Keys and posted messages for the same window are taken in the order they came, for every
\* number of tasks, windows and messages, as long as window procedures that are asked about
\* the mouse do not take messages themselves.
THEOREM TakenInOrder == ASSUME ~NestedGets PROVE Spec => InOrder
<1> DEFINE A == \A n \in 1 .. Len(sent) :
                   taken[n] = Nobody /\ taken'[n] # Nobody /\ sent[n].kind \in {"key", "other"}
                   => \A q \in Queue :
                         LET c == Contents(q)
                         IN  \A i, j \in 1 .. Len(c) :
                                 c[i] = sent[n] /\ c[j].id < n
                                     => c[j].kind # sent[n].kind \/ c[j].hwnd # sent[n].hwnd
<1>1. ASSUME IInv, [Next]_vars PROVE A
  <2> SUFFICES ASSUME NEW n \in 1 .. Len(sent), taken[n] = Nobody, taken'[n] # Nobody,
                      sent[n].kind \in Ordered,
                      NEW q \in Queue, NEW i \in 1 .. Len(Contents(q)),
                      NEW j \in 1 .. Len(Contents(q)),
                      Contents(q)[i] = sent[n], Contents(q)[j].id < n
               PROVE  Contents(q)[j].kind # sent[n].kind \/ Contents(q)[j].hwnd # sent[n].hwnd
    BY DEF Ordered
  <2>1. LinkInv
    BY <1>1 DEF IInv
  <2>2. i \in Spots(queue[q]) /\ j \in Spots(queue[q])
    BY <2>1, ContentsAre
  <2>3. taken' # taken
    OBVIOUS
  <2>4. CASE \E p, front, m : Sends(p, front, m) /\ Fits(p, front, m)
    BY <2>3, <2>4 DEF Sends, QueueAddMsg
  <2>5. CASE \E w \in Closing, state \in {"dead", "gone"} : DestroyWindow(w, state)
    BY <2>3, <2>5 DEF DestroyWindow
  <2>6. CASE \E k, next, verdict : Settles(k, next, verdict)
    BY <1>1, <2>2, <2>6, TakesInOrder
  <2> QED
    BY <1>1, <2>3, <2>4, <2>5, <2>6, StepKinds
<1>2. IInv /\ [Next]_vars => [A]_vars
  BY <1>1
<1>3. InOrder <=> [][A]_vars
  BY DEF InOrder
<1> QED
  BY <1>2, <1>3, SearchesInductive, PTL DEF Spec

----------------------------------------------------------------------------
\* The queues as sequences of messages

\* The message at i is out of s, or a new one is at an end of it.
LEMMA WithoutIs ==
    ASSUME NEW S, NEW s \in Seq(S), NEW t \in Seq(S), NEW k \in 1 .. Len(s),
           Len(t) = Len(s) - 1,
           \A i \in 1 .. Len(t) : t[i] = IF i < k THEN s[i] ELSE s[i + 1]
    PROVE  t = Fifo!Without(s, k)
<1> DEFINE L == Len(s)
           a == SubSeq(s, 1, k - 1)
           b == SubSeq(s, k + 1, L)
<1>1. L \in Nat /\ \A i \in 1 .. L : s[i] \in S
  BY LenProperties, ElementOfSeq
<1> HIDE DEF L
<1>2. k \in 1 .. L /\ k \in Int /\ k - 1 \in Int /\ k + 1 \in Int /\ L \in Int /\ 1 \in Int
  BY <1>1 DEF L
<1>3. /\ \A i \in 1 .. k - 1 : i \in 1 .. L
      /\ \A i \in k + 1 .. L : i \in 1 .. L
  BY <1>1, <1>2
<1>4. /\ a \in Seq(S) /\ Len(a) = IF 1 <= k - 1 THEN (k - 1) - 1 + 1 ELSE 0
      /\ \A i \in 1 .. (k - 1) - 1 + 1 : a[i] = s[1 + i - 1]
  BY <1>1, <1>2, <1>3, SubSeqProperties
<1>5. /\ b \in Seq(S) /\ Len(b) = IF k + 1 <= L THEN L - (k + 1) + 1 ELSE 0
      /\ \A i \in 1 .. L - (k + 1) + 1 : b[i] = s[(k + 1) + i - 1]
  BY <1>1, <1>2, <1>3, SubSeqProperties
<1> HIDE DEF a, b
<1>6. Len(a) = k - 1 /\ Len(b) = L - k
  BY <1>2, <1>4, <1>5
<1>7. /\ a \o b \in Seq(S) /\ Len(a \o b) = Len(a) + Len(b)
      /\ \A i \in 1 .. Len(a) + Len(b) :
            (a \o b)[i] = IF i <= Len(a) THEN a[i] ELSE b[i - Len(a)]
  BY <1>4, <1>5, ConcatProperties
<1> DEFINE c == a \o b
<1> HIDE DEF c
<1>8. c \in Seq(S) /\ Len(c) = L - 1
      /\ \A i \in 1 .. L - 1 : c[i] = IF i <= k - 1 THEN a[i] ELSE b[i - (k - 1)]
  <2>1. Len(a) + Len(b) = L - 1
    BY <1>2, <1>6
  <2> QED
    BY <1>6, <1>7, <2>1 DEF c
<1>9. \A i \in 1 .. L - 1 : c[i] = IF i < k THEN s[i] ELSE s[i + 1]
  <2> TAKE i \in 1 .. L - 1
  <2>1. CASE i < k
    <3>1. i <= k - 1 /\ i \in 1 .. (k - 1) - 1 + 1 /\ 1 + i - 1 = i
      BY <1>2, <2>1
    <3> QED
      BY <1>4, <1>8, <2>1, <3>1
  <2>2. CASE ~ (i < k)
    <3>1. ~ (i <= k - 1) /\ i - (k - 1) \in 1 .. L - (k + 1) + 1
          /\ (k + 1) + (i - (k - 1)) - 1 = i + 1
      BY <1>2, <2>2
    <3> QED
      BY <1>5, <1>8, <2>2, <3>1
  <2> QED
    BY <2>1, <2>2
<1>10. Len(t) = L - 1
  BY DEF L
<1>11. t = c
  <2>1. \A i \in 1 .. Len(t) : t[i] = c[i]
    BY <1>9, <1>10
  <2> QED
    BY <1>8, <1>10, <2>1, SeqEqual
<1> QED
  BY <1>11 DEF c, a, b, L, Fifo!Without

LEMMA AppendIs ==
    ASSUME NEW S, NEW s \in Seq(S), NEW t \in Seq(S), Len(t) = Len(s) + 1,
           \A i \in 1 .. Len(s) : t[i] = s[i]
    PROVE  t = Append(s, t[Len(t)])
<1> DEFINE x == t[Len(t)]
           a == Append(s, x)
<1>1. Len(s) \in Nat
  BY LenProperties
<1>2. Len(t) \in 1 .. Len(t)
  BY <1>1
<1>3. x \in S
  BY <1>2, ElementOfSeq
<1>4. x = t[Len(s) + 1]
  OBVIOUS
<1> HIDE DEF x
<1>5. /\ a \in Seq(S) /\ Len(a) = Len(s) + 1 /\ \A i \in 1 .. Len(s) : a[i] = s[i]
      /\ a[Len(s) + 1] = x
  BY <1>3, AppendProperties
<1> HIDE DEF a
<1>6. \A i \in 1 .. Len(s) + 1 : i \in 1 .. Len(s) \/ i = Len(s) + 1
  BY <1>1
<1>7. \A i \in 1 .. Len(t) : t[i] = a[i]
  BY <1>4, <1>5, <1>6
<1>8. t = a
  BY <1>5, <1>7, SeqEqual
<1> QED
  BY <1>8 DEF a, x

LEMMA PrependIs ==
    ASSUME NEW S, NEW s \in Seq(S), NEW t \in Seq(S), Len(t) = Len(s) + 1,
           \A i \in 1 .. Len(s) : t[i + 1] = s[i]
    PROVE  t = <<t[1]>> \o s
<1> DEFINE x == t[1]
           o == <<x>>
           a == o \o s
<1>1. Len(s) \in Nat
  BY LenProperties
<1>2. x \in S
  <2>1. 1 \in 1 .. Len(t)
    BY <1>1
  <2> QED
    BY <2>1, ElementOfSeq
<1> HIDE DEF x
<1>3. o \in Seq(S) /\ Len(o) = 1 /\ o[1] = x
  BY <1>2
<1> HIDE DEF o
<1>4. /\ a \in Seq(S) /\ Len(a) = 1 + Len(s)
      /\ \A i \in 1 .. 1 + Len(s) : a[i] = IF i <= 1 THEN o[i] ELSE s[i - 1]
  <2>1. /\ o \o s \in Seq(S) /\ Len(o \o s) = Len(o) + Len(s)
        /\ \A i \in 1 .. Len(o) + Len(s) :
              (o \o s)[i] = IF i <= Len(o) THEN o[i] ELSE s[i - Len(o)]
    BY <1>3, ConcatProperties
  <2> HIDE DEF a
  <2>2. /\ a \in Seq(S) /\ Len(a) = Len(o) + Len(s)
        /\ \A i \in 1 .. Len(o) + Len(s) : a[i] = IF i <= Len(o) THEN o[i] ELSE s[i - Len(o)]
    BY <2>1 DEF a
  <2> QED
    BY <1>3, <2>2
<1> HIDE DEF a
<1>5. \A i \in 1 .. Len(t) : t[i] = a[i]
  <2> TAKE i \in 1 .. Len(t)
  <2>1. i \in 1 .. 1 + Len(s) /\ (i <= 1 => i = 1)
    BY <1>1
  <2>2. CASE i <= 1
    BY <1>3, <1>4, <2>1, <2>2 DEF x
  <2>3. CASE ~ (i <= 1)
    <3>1. i - 1 \in 1 .. Len(s) /\ (i - 1) + 1 = i
      BY <1>1, <2>3
    <3>2. t[i] = s[i - 1]
      BY <3>1
    <3> QED
      BY <1>4, <2>1, <2>3, <3>2
  <2> QED
    BY <2>2, <2>3
<1>6. t = a
  BY <1>1, <1>4, <1>5, SeqEqual
<1> QED
  BY <1>6 DEF a, o, x

LEMMA KeptAll ==
    ASSUME NEW S, NEW s \in Seq(S), NEW w, \A i \in 1 .. Len(s) : s[i].hwnd # w
    PROVE  Fifo!Kept(s, w) = s
<1> DEFINE L == Len(s)
<1>1. L \in Nat /\ \A i \in 1 .. L : s[i] \in S
  BY LenProperties, ElementOfSeq
<1>2. PICK k : /\ Fifo!Kept(s, w) = k[L] /\ k[0] = <<>>
               /\ \A i \in 1 .. L : k[i] = Append(k[i - 1], s[i])
  <2>1. PICK k : /\ Fifo!Kept(s, w) = k[L] /\ k[0] = <<>>
                 /\ \A i \in 1 .. L : k[i] = IF s[i].hwnd # w THEN Append(k[i - 1], s[i])
                                             ELSE k[i - 1]
    BY <1>1, KeptIs
  <2> QED
    BY <2>1
<1> DEFINE Is(i) == k[i] \in Seq(S) /\ Len(k[i]) = i /\ \A j \in 1 .. i : k[i][j] = s[j]
           B == {i \in 0 .. L : Is(i)}
<1> HIDE DEF L
<1>3. 0 \in B
  <2>1. k[0] \in Seq(S) /\ Len(k[0]) = 0 /\ 1 .. 0 = {} /\ 0 \in 0 .. L
    BY <1>1, <1>2, EmptySeq
  <2> QED
    BY <2>1
<1>4. ASSUME NEW i \in 1 .. L, i - 1 \in B PROVE i \in B
  <2> DEFINE h == k[i - 1]
  <2>1. h \in Seq(S) /\ Len(h) = i - 1 /\ \A j \in 1 .. i - 1 : h[j] = s[j]
    BY <1>4
  <2>2. k[i] = Append(h, s[i]) /\ s[i] \in S
    BY <1>1, <1>2
  <2> DEFINE g == k[i]
             n == i - 1
  <2>3. n \in Nat /\ n + 1 = i /\ \A j \in 1 .. i : j \in 1 .. n \/ j = i
    BY <1>1
  <2> HIDE DEF h, n
  <2>4. g \in Seq(S) /\ Len(g) = n + 1 /\ g[n + 1] = s[i] /\ \A j \in 1 .. n : g[j] = s[j]
    <3>1. h \in Seq(S) /\ Len(h) = n /\ \A j \in 1 .. n : h[j] = s[j]
      BY <2>1 DEF n
    <3>2. g = Append(h, s[i])
      BY <2>2
    <3> HIDE DEF g
    <3> QED
      BY <2>2, <3>1, <3>2, AppendProperties
  <2> HIDE DEF g
  <2>5. g \in Seq(S) /\ Len(g) = i /\ \A j \in 1 .. i : g[j] = s[j]
    BY <2>3, <2>4
  <2>6. i \in 0 .. L
    BY <1>1
  <2> QED
    BY <2>5, <2>6 DEF g
<1>5. L \in B
  <2> HIDE DEF B
  <2>1. \A i \in 0 .. L : i \in B
    BY <1>1, <1>3, <1>4, UpTo
  <2> QED
    BY <1>1, <2>1
<1>6. k[L] \in Seq(S) /\ Len(k[L]) = L /\ \A j \in 1 .. L : k[L][j] = s[j]
  BY <1>5
<1>7. k[L] = s
  <2>1. Len(s) = L
    BY DEF L
  <2> QED
    BY <1>6, <2>1, SeqEqual
<1> QED
  BY <1>2, <1>7

\* The messages in a queue, in order, when msgs were sent.
Holds(Q, msgs) == [i \in Spots(Q) |-> msgs[Num(Q, i)]]

Pending == [q \in Queue |-> Contents(q)]
Took == {sent[n] : n \in {k \in 1 .. Len(sent) : taken[k] # Nobody}}

AllSent(Q, msgs) == Len(Used(Q)) \in Nat /\ \A i \in Spots(Q) : msgs[Num(Q, i)] \in Sent
IsHeld(h, Q, msgs) == /\ h \in Seq(Sent) /\ Len(h) = Len(Used(Q))
                      /\ \A i \in 1 .. Len(Used(Q)) : h[i] = msgs[Num(Q, i)]

LEMMA HoldsSeq ==
    ASSUME NEW Q, NEW msgs, AllSent(Q, msgs)
    PROVE  IsHeld(Holds(Q, msgs), Q, msgs)
<1> DEFINE n == Len(Used(Q))
           h == Holds(Q, msgs)
<1>1. h \in [1 .. n -> Sent] /\ \A i \in 1 .. n : h[i] = msgs[Num(Q, i)]
  BY DEF Holds, Spots, AllSent
<1> HIDE DEF h, n
<1>2. n \in Nat
  BY DEF n, AllSent
<1>3. h \in Seq(Sent) /\ Len(h) = n
  BY <1>1, <1>2, FunSeq
<1> QED
  BY <1>1, <1>3 DEF h, n, IsHeld

LEMMA PendingIs ==
    /\ Pending = [q \in Queue |-> Holds(queue[q], sent)]
    /\ Pending' = [q \in Queue |-> Holds(queue'[q], sent')]
BY DEF Pending, Contents, Holds, Spots, Num, Used

LEMMA PendingNow ==
    ASSUME LinkInv, HeldInv, NEW q \in Queue
    PROVE  /\ Pending[q] \in Seq(Sent) /\ Len(Pending[q]) = Len(Used(queue[q]))
           /\ 1 .. Len(Pending[q]) = Spots(queue[q])
           /\ Len(Used(queue[q])) \in Nat /\ Len(Used(queue[q])) <= Size[q]
           /\ \A i \in Spots(queue[q]) : Pending[q][i] = sent[Num(queue[q], i)]
           /\ \A i \in Spots(queue[q]) : Num(queue[q], i) \in 1 .. Len(sent)
<1> DEFINE Q == queue[q]
<1>1. Len(Used(Q)) \in Nat /\ Len(Used(Q)) <= Size[q]
  BY QueueFacts DEF LinkInv
<1>2. \A i \in Spots(Q) : Num(Q, i) \in 1 .. Len(sent)
  BY DEF HeldInv, HeldSent
<1>3. \A i \in Spots(Q) : sent[Num(Q, i)] \in Sent
  BY <1>2, ElementOfSeq DEF LinkInv, RestOK
<1> HIDE DEF Q
<1>4. /\ Holds(Q, sent) \in Seq(Sent) /\ Len(Holds(Q, sent)) = Len(Used(Q))
      /\ \A i \in 1 .. Len(Used(Q)) : Holds(Q, sent)[i] = sent[Num(Q, i)]
  <2>1. AllSent(Q, sent)
    BY <1>1, <1>3 DEF AllSent
  <2>2. IsHeld(Holds(Q, sent), Q, sent)
    BY <2>1, HoldsSeq
  <2> QED
    BY <2>2 DEF IsHeld
<1>5. Pending[q] = Holds(Q, sent)
  BY PendingIs DEF Q
<1> QED
  BY <1>1, <1>2, <1>4, <1>5 DEF Spots, Q

\* A queue that does not change holds what it held.
LEMMA PendingSame ==
    ASSUME LinkInv, HeldInv, NEW q \in Queue, queue'[q] = queue[q],
           \A n \in 1 .. Len(sent) : sent'[n] = sent[n]
    PROVE  Pending'[q] = Pending[q]
<1>1. \A i \in Spots(queue[q]) : sent'[Num(queue[q], i)] = sent[Num(queue[q], i)]
  BY DEF HeldInv, HeldSent
<1>2. Holds(queue[q], sent') = Holds(queue[q], sent)
  BY <1>1 DEF Holds
<1> QED
  BY <1>2, PendingIs

LEMMA TookSame ==
    ASSUME LinkInv, HeldInv, UNCHANGED <<sent, taken>>
    PROVE  Took' = Took
BY DEF Took

\* Sending is Post.
LEMMA SendPosts ==
    ASSUME LinkInv, HeldInv, NEW q, NEW front, NEW m, Sends(q, front, m), Fits(q, front, m)
    PROVE  \E p \in Queue : Fifo!Post(p)
<1> DEFINE L == Len(sent)
           R == queue'[q]
           a == Pending[q]
           b == Pending'[q]
           k == Spot(queue[q], front)
<1>1. /\ LinkInv' /\ q \in Queue /\ \A p \in Queue : p # q => queue'[p] = queue[p]
      /\ Moved(R, queue[q], k, L + 1)
      /\ m \in Sent /\ m.id = L + 1 /\ Len(sent') = L + 1 /\ L \in Nat /\ L + 1 \in 1 .. MaxMsgs
      /\ \A n \in 1 .. L : sent'[n] = sent[n]
      /\ sent'[L + 1] = m
      /\ UNCHANGED <<window, taken>>
  BY SendMoves
<1>2. /\ a \in Seq(Sent) /\ Len(a) = Len(Used(queue[q])) /\ Len(a) \in Nat
      /\ \A i \in 1 .. Len(a) : a[i] = sent[Num(queue[q], i)]
      /\ \A i \in Spots(queue[q]) : Num(queue[q], i) \in 1 .. L
  BY <1>1, PendingNow DEF Spots
<1>3. HeldSent'
  BY HeldSends DEF HeldInv
<1>4. Len(Used(R)) = Len(a) + 1 /\ Len(Used(R)) <= Size[q]
  <2>1. Sound(R, Size[q]) /\ Size[q] \in Nat
    BY <1>1, QueueNames DEF LinkInv, QueuesOK
  <2>2. Used(R) \in Seq(1 .. Size[q]) /\ Once(Used(R))
    BY <2>1 DEF Sound, Lists
  <2>3. Len(Used(R)) <= Size[q]
    BY <2>1, <2>2, ShortList
  <2> QED
    BY <1>1, <1>2, <2>3 DEF Moved
<1>5. /\ b \in Seq(Sent) /\ Len(b) = Len(a) + 1
      /\ \A i \in 1 .. Len(a) + 1 : b[i] = sent'[Num(R, i)]
  <2>1. b = Holds(R, sent')
    BY <1>1, PendingIs
  <2>2. \A i \in Spots(R) : Num(R, i) \in 1 .. Len(sent')
    BY <1>1, <1>3 DEF HeldSent
  <2>3. \A i \in Spots(R) : sent'[Num(R, i)] \in Sent
    BY <1>1, <2>2, ElementOfSeq DEF LinkInv, RestOK
  <2> HIDE DEF a, b, R
  <2>4. Len(Used(R)) \in Nat
    BY <1>2, <1>4
  <2> QED
    <3>1. AllSent(R, sent')
      BY <2>3, <2>4 DEF AllSent
    <3>2. IsHeld(b, R, sent')
      BY <2>1, <3>1, HoldsSeq
    <3> QED
      BY <1>4, <3>2 DEF IsHeld
<1>6. \A p \in Queue : p # q => Pending'[p] = Pending[p]
  BY <1>1, PendingSame
<1>7. Pending' = [Pending EXCEPT ![q] = b]
  <2>1. /\ Pending = [p \in Queue |-> Holds(queue[p], sent)]
        /\ Pending' = [p \in Queue |-> Holds(queue'[p], sent')]
    BY PendingIs
  <2> DEFINE P == Pending
             P1 == Pending'
  <2>2. P = [p \in Queue |-> P[p]] /\ P1 = [p \in Queue |-> P1[p]]
    BY <2>1
  <2>3. \A p \in Queue : p # q => P1[p] = P[p]
    BY <1>6
  <2> HIDE DEF P, P1
  <2>4. P1 = [P EXCEPT ![q] = P1[q]]
    BY <2>2, <2>3
  <2> QED
    BY <2>4 DEF P, P1
<1>8. Took' = Took
  <2>1. taken[L + 1] = Nobody
    BY <1>1 DEF HeldInv, TakenSent
  <2>2. \A n \in 1 .. L + 1 : n \in 1 .. L \/ n = L + 1
    BY <1>1
  <2>3. \A n \in 1 .. L : n \in 1 .. L + 1
    BY <1>1
  <2>4. {n \in 1 .. Len(sent') : taken'[n] # Nobody} = {n \in 1 .. L : taken[n] # Nobody}
    BY <1>1, <2>1, <2>2, <2>3
  <2> DEFINE N == {n \in 1 .. L : taken[n] # Nobody}
  <2>5. \A n \in N : sent'[n] = sent[n]
    BY <1>1
  <2>6. Took = {sent[n] : n \in N} /\ Took' = {sent'[n] : n \in N}
    BY <2>4 DEF Took
  <2> HIDE DEF N
  <2> QED
    BY <2>5, <2>6
<1>9. /\ m \notin Took
      /\ \A p \in Queue : \A i \in 1 .. Len(Pending[p]) : Pending[p][i] # m
  <2>1. \A n \in 1 .. L : sent[n] # m
    BY <1>1 DEF HeldInv, SentOK
  <2>2. m \notin Took
    BY <2>1 DEF Took
  <2>3. \A p \in Queue : \A i \in 1 .. Len(Pending[p]) : Pending[p][i] # m
    BY <2>1, PendingNow
  <2> QED
    BY <2>2, <2>3
<1>10. Fifo!IsNew(m)
  BY <1>1, <1>9 DEF Fifo!IsNew, Sent, Pending, Took
<1>11. \/ b = Append(a, b[Len(b)]) /\ b[Len(b)] = m
       \/ b = <<b[1]>> \o a /\ b[1] = m
  <2> DEFINE N == Len(a)
  <2>1. N \in Nat /\ N = Len(Used(queue[q])) /\ Len(b) = N + 1
    BY <1>2, <1>5
  <2>2. k \in 1 .. N + 1 /\ Num(R, k) = L + 1
        /\ \A i \in 1 .. N + 1 : /\ i < k => i \in Spots(queue[q]) /\ Num(R, i) = Num(queue[q], i)
                                 /\ i > k => i - 1 \in Spots(queue[q])
                                             /\ Num(R, i) = Num(queue[q], i - 1)
    BY <1>1, <2>1 DEF Moved, Spots
  <2>3. b[k] = m
    BY <1>1, <1>5, <2>2
  <2>4. CASE k = N + 1
    <3>1. \A i \in 1 .. N : i \in 1 .. N + 1 /\ i < k
      BY <2>1, <2>4
    <3>2. \A i \in 1 .. N : b[i] = a[i]
      BY <1>1, <1>2, <1>5, <2>2, <3>1
    <3> HIDE DEF a, b, k
    <3>3. b = Append(a, b[Len(b)])
      BY <1>2, <1>5, <3>2, AppendIs
    <3> QED
      BY <2>1, <2>3, <2>4, <3>3
  <2>5. CASE k = 1
    <3>1. \A i \in 1 .. N : i + 1 \in 1 .. N + 1 /\ i + 1 > k /\ (i + 1) - 1 = i
      BY <2>1, <2>5
    <3>2. \A i \in 1 .. N : b[i + 1] = a[i]
      <4> TAKE i \in 1 .. N
      <4>1. i \in Spots(queue[q]) /\ Num(R, i + 1) = Num(queue[q], i)
        BY <2>2, <3>1
      <4> QED
        <5>1. b[i + 1] = sent'[Num(R, i + 1)]
          BY <1>5, <3>1
        <5>2. a[i] = sent[Num(queue[q], i)] /\ Num(queue[q], i) \in 1 .. L
          BY <1>2, <4>1
        <5> HIDE DEF a, b, R, L
        <5> QED
          BY <1>1, <4>1, <5>1, <5>2
    <3> HIDE DEF a, b, k
    <3>3. b = <<b[1]>> \o a
      BY <1>2, <1>5, <3>2, PrependIs
    <3> QED
      BY <2>3, <2>5, <3>3
  <2> QED
    BY <2>1, <2>4, <2>5 DEF Spot
<1>12. Fifo!Post(q)
  <2>1. Len(b) = Len(Pending[q]) + 1 /\ Len(b) <= Size[q]
    BY <1>4, <1>5
  <2>2. \/ b = Append(Pending[q], b[Len(b)]) /\ Fifo!IsNew(b[Len(b)])
        \/ b = <<b[1]>> \o Pending[q] /\ Fifo!IsNew(b[1])
    BY <1>10, <1>11
  <2>3. UNCHANGED <<Took, window>>
    BY <1>1, <1>8
  <2> QED
    BY <1>7, <2>1, <2>2, <2>3 DEF Fifo!Post, Pending, Took
<1> QED
  BY <1>1, <1>12

LEMMA PendingChanges ==
    ASSUME NEW q \in Queue, NEW b, Pending'[q] = b,
           \A p \in Queue : p # q => Pending'[p] = Pending[p]
    PROVE  Pending' = [Pending EXCEPT ![q] = b]
<1> DEFINE P == Pending
           P1 == Pending'
<1>1. P = [p \in Queue |-> P[p]] /\ P1 = [p \in Queue |-> P1[p]]
  BY PendingIs
<1>2. P1[q] = b /\ \A p \in Queue : p # q => P1[p] = P[p]
  OBVIOUS
<1> HIDE DEF P, P1
<1>3. P1 = [P EXCEPT ![q] = b]
  BY <1>1, <1>2
<1> QED
  BY <1>3 DEF P, P1

\* A search that takes a message is Take, one that removes it for another reason is Drop;
\* otherwise nothing is different.
LEMMA SettleTakes ==
    ASSUME LinkInv, HeldInv, ScanInv, NEW k, NEW next, NEW verdict, Settles(k, next, verdict)
    PROVE  \/ \E q \in Queue : \E i \in 1 .. Len(Pending[q]) : Fifo!Take(q, i) \/ Fifo!Drop(q, i)
           \/ UNCHANGED <<Pending, Took, window>>
<1> DEFINE q == Top.queue
           Q == queue[q]
           R == queue'[q]
           id == Num(Q, k)
           a == Pending[q]
           b == Pending'[q]
           r == Removes(Top, verdict)
<1>1. /\ scans # <<>> /\ AtSpot(Top, Q, k, sent) /\ verdict \in Verdicts
      /\ Settle(Top, Top.lpQueueMsg, id, next, verdict)
      /\ verdict \in {"drop", "flush"} =>
             /\ sent[id].hwnd # NoWindow
             /\ \/ window[sent[id].hwnd] = "gone"
                \/ q = System /\ (sent[id].kind = "mouse" \/ window[sent[id].hwnd] = "disabled")
      /\ verdict = "take" /\ sent[id].hwnd # NoWindow /\ window[sent[id].hwnd] = "gone" =>
             q = System /\ sent[id].kind = "mouse"
  BY DEF Settles
<1>2. q \in Queue
  BY <1>1, OneScan
<1>3. At(Top, k) /\ k \in Spots(Q)
  BY <1>1 DEF At, AtSpot
<1>4. Settled(q, k, r)
  BY <1>1, <1>3, SettleRemoves
<1>5. /\ UNCHANGED <<window, sent>>
      /\ taken' = IF verdict = "take" /\ Top.remove
                  THEN [taken EXCEPT ![id] = Top.task] ELSE taken
  BY <1>1 DEF Settle
<1>6. /\ a \in Seq(Sent) /\ Len(a) = Len(Used(Q)) /\ 1 .. Len(a) = Spots(Q) /\ Len(a) \in Nat
      /\ \A i \in Spots(Q) : a[i] = sent[Num(Q, i)] /\ Num(Q, i) \in 1 .. Len(sent)
  BY <1>2, PendingNow
<1>7. CASE ~r
  <2>1. queue' = queue /\ taken' = taken
    BY <1>4, <1>5, <1>7 DEF Settled, Removes
  <2>2. Took' = Took
    BY <1>5, <2>1, TookSame
  <2>3. Pending' = Pending
    BY <1>5, <2>1, PendingIs
  <2> QED
    BY <1>5, <2>2, <2>3
<1>8. CASE r
  <2>1. Used(R) = Cut(Used(Q), k) /\ R.Message = Q.Message
    BY <1>4, <1>8 DEF Settled
  <2>2. b = Fifo!Without(a, k)
    <3> DEFINE u == Used(Q)
               v == Used(R)
    <3>1. u \in Seq(1 .. Size[q]) /\ k \in 1 .. Len(u) /\ Len(u) \in Nat
      BY <1>2, <1>3, QueueFacts DEF Spots, LinkInv
    <3>2. b = Holds(R, sent)
      BY <1>2, <1>5, PendingIs
    <3> HIDE DEF u, a, b
    <3>3. IsCut(Cut(u, k), 1 .. Size[q], u, k)
      BY <3>1, CutFacts
    <3>4. v = Cut(u, k)
      BY <2>1 DEF u
    <3> HIDE DEF v
    <3>5. Len(v) = Len(u) - 1
          /\ \A i \in 1 .. Len(u) - 1 : v[i] = IF i < k THEN u[i] ELSE u[i + 1]
      BY <3>3, <3>4 DEF IsCut
    <3>6. \A i \in 1 .. Len(u) - 1 :
             /\ i < k => Num(R, i) = Num(Q, i) /\ i \in Spots(Q)
             /\ ~ (i < k) => Num(R, i) = Num(Q, i + 1) /\ i + 1 \in Spots(Q)
      <4> TAKE i \in 1 .. Len(u) - 1
      <4>1. i \in 1 .. Len(u) /\ i + 1 \in 1 .. Len(u)
        BY <3>1
      <4>2. Num(R, i) = Q.Message[v[i]] /\ Num(Q, i) = Q.Message[u[i]]
            /\ Num(Q, i + 1) = Q.Message[u[i + 1]]
        BY <2>1 DEF Num, u, v
      <4>3. v[i] = IF i < k THEN u[i] ELSE u[i + 1]
        BY <3>5
      <4> HIDE DEF Q, R
      <4> QED
        BY <4>1, <4>2, <4>3 DEF Spots, u
    <3>7. \A i \in 1 .. Len(u) - 1 :
             sent[Num(R, i)] = IF i < k THEN a[i] ELSE a[i + 1]
      BY <1>6, <3>6
    <3>8. AllSent(R, sent)
      <4>1. Len(v) \in Nat
        BY <3>1, <3>5
      <4>2. \A i \in 1 .. Len(v) : Num(R, i) \in 1 .. Len(sent)
        BY <1>6, <3>5, <3>6
      <4>3. \A i \in 1 .. Len(v) : sent[Num(R, i)] \in Sent
        BY <4>2, ElementOfSeq DEF LinkInv, RestOK
      <4> QED
        BY <4>1, <4>3 DEF AllSent, Spots, v
    <3>9. b \in Seq(Sent) /\ Len(b) = Len(v) /\ \A i \in 1 .. Len(v) : b[i] = sent[Num(R, i)]
      <4>1. IsHeld(b, R, sent)
        BY <3>2, <3>8, HoldsSeq
      <4> QED
        BY <4>1 DEF IsHeld, v
    <3>10. Len(a) = Len(u)
      BY <1>6 DEF u
    <3>11. Len(b) = Len(a) - 1 /\ \A i \in 1 .. Len(b) : b[i] = IF i < k THEN a[i] ELSE a[i + 1]
      BY <3>5, <3>7, <3>9, <3>10
    <3> HIDE DEF Q, R
    <3> QED
      BY <1>6, <3>1, <3>9, <3>10, <3>11, WithoutIs
  <2>3. \A p \in Queue : p # q => Pending'[p] = Pending[p]
    <3> TAKE p \in Queue
    <3> HAVE p # q
    <3>1. queue'[p] = queue[p] /\ sent' = sent
      BY <1>4, <1>5 DEF Settled
    <3> QED
      BY <3>1, PendingIs
  <2> HIDE DEF q
  <2>4. Pending' = [Pending EXCEPT ![q] = Fifo!Without(Pending[q], k)]
    BY <1>2, <2>2, <2>3, PendingChanges
  <2>5. k \in 1 .. Len(Pending[q]) /\ Pending[q][k] = sent[id] /\ id \in 1 .. Len(sent)
    BY <1>3, <1>6
  <2> HIDE DEF id
  <2>6. CASE verdict = "take"
    <3>1. Top.remove /\ taken' = [taken EXCEPT ![id] = Top.task]
      BY <1>5, <1>8, <2>6 DEF Removes
    <3>2. Top.task # Nobody /\ taken \in [1 .. MaxMsgs -> Task \cup {Nobody}]
          /\ Len(sent) <= MaxMsgs /\ Len(sent) \in Nat /\ MaxMsgs \in Nat
      <4>1. Top.task \in Task
        BY <1>1, TopOK DEF LinkInv
      <4>2. sent \in Seq(Sent) /\ Len(sent) <= MaxMsgs
            /\ taken \in [1 .. MaxMsgs -> Task \cup {Nobody}]
        BY DEF LinkInv, RestOK
      <4> QED
        BY <4>1, <4>2, LenProperties, QueueNames
    <3>3. id \in 1 .. MaxMsgs
      BY <2>5, <3>2
    <3>4. \A n \in 1 .. Len(sent) : taken'[n] # Nobody <=> taken[n] # Nobody \/ n = id
      <4>1. \A n \in 1 .. Len(sent) : n \in 1 .. MaxMsgs
        BY <3>2
      <4> QED
        BY <3>1, <3>2, <3>3, <4>1
    <3>5. Took' = Took \cup {Pending[q][k]}
      BY <1>5, <2>5, <3>4 DEF Took
    <3>6. LET m == Pending[q][k]
          IN  m.hwnd # NoWindow /\ window[m.hwnd] = "gone" => q = System /\ m.kind = "mouse"
      BY <1>1, <2>5, <2>6 DEF id, q
    <3>7. Fifo!Take(q, k)
      BY <1>5, <2>4, <3>5, <3>6 DEF Fifo!Take, Pending, Took
    <3> QED
      BY <1>2, <2>5, <3>7
  <2>7. CASE verdict # "take"
    <3>1. verdict \in {"drop", "flush"}
      BY <1>1, <1>8, <2>7 DEF Removes, Verdicts
    <3>2. Took' = Took
      BY <1>5, <2>7, TookSame
    <3>3. LET m == Pending[q][k]
          IN  /\ m.hwnd # NoWindow
              /\ \/ window[m.hwnd] = "gone"
                 \/ q = System /\ (m.kind = "mouse" \/ window[m.hwnd] = "disabled")
      BY <1>1, <2>5, <3>1 DEF id, q
    <3>4. Fifo!Drop(q, k)
      BY <1>5, <2>4, <3>2, <3>3 DEF Fifo!Drop, Pending, Took
    <3> QED
      BY <1>2, <2>5, <3>4
  <2> QED
    BY <2>6, <2>7
<1> QED
  BY <1>7, <1>8

\* A window that goes takes the messages posted to it along, and no others: what is in the
\* queue of another task is not for it.
LEMMA DestroyFlushes ==
    ASSUME LinkInv, HeldInv, NEW w \in Closing, NEW state \in {"dead", "gone"},
           DestroyWindow(w, state)
    PROVE  Fifo!Destroy(w, state) /\ w \in Window
<1> DEFINE o == Owner[w]
<1>1. w \in Window /\ o \in Task /\ o \in Queue /\ o # System /\ System \in Queue
  BY Constants, QueueNames DEF Types, OwnerAssumption
<1>2. /\ \/ state = "dead" /\ window[w] \in {"live", "disabled"}
         \/ state = "gone" /\ window[w] # "gone"
      /\ window' = [window EXCEPT ![w] = state]
      /\ TWIN_FlushWindowMessages(w) /\ UNCHANGED <<sent, taken>>
  BY DEF DestroyWindow
<1>3. QueuesOK
  BY DEF LinkInv
<1>4. /\ \A p \in Queue : p # o => queue'[p] = queue[p]
      /\ queue'[o].Message = queue[o].Message
      /\ Says(queue[o], Used(queue'[o])) = Fifo!Kept(Says(queue[o], Used(queue[o])), w)
  BY <1>1, <1>2, <1>3, FlushLinks
<1>5. Pending'[o] = Fifo!Kept(Pending[o], w)
  <2>1. Pending[o] = Holds(queue[o], sent) /\ Pending'[o] = Holds(queue'[o], sent)
    BY <1>1, <1>2, PendingIs
  <2>2. Says(queue[o], Used(queue[o])) = Holds(queue[o], sent)
    BY DEF Says, Holds, Spots, Num
  <2>3. Says(queue[o], Used(queue'[o])) = Holds(queue'[o], sent)
    BY <1>4 DEF Says, Holds, Spots, Num
  <2> QED
    BY <1>4, <2>1, <2>2, <2>3
<1>6. \A p \in Queue : p # o => Pending'[p] = Pending[p]
  <2> TAKE p \in Queue
  <2> HAVE p # o
  <2>1. queue'[p] = queue[p] /\ sent' = sent
    BY <1>2, <1>4
  <2> QED
    BY <2>1, PendingIs
<1>7. \A p \in Queue : p # o /\ p # System => Fifo!Kept(Pending[p], w) = Pending[p]
  <2> TAKE p \in Queue
  <2> HAVE p # o /\ p # System
  <2>1. p \in Task
    BY DEF Queue
  <2>2. Pending[p] \in Seq(Sent) /\ 1 .. Len(Pending[p]) = Spots(queue[p])
        /\ \A i \in Spots(queue[p]) : Pending[p][i] = sent[Num(queue[p], i)]
    BY PendingNow
  <2>3. \A i \in Spots(queue[p]) : sent[Num(queue[p], i)].hwnd # w
    <3>1. w # NoWindow
      BY <1>1, QueueNames
    <3> QED
      BY <2>1, <3>1 DEF HeldInv, OwnQueues
  <2>4. \A i \in 1 .. Len(Pending[p]) : Pending[p][i].hwnd # w
    BY <2>2, <2>3
  <2> QED
    BY <2>2, <2>4, KeptAll
<1>8. Pending' = [p \in Queue |-> IF p = System THEN Pending[p] ELSE Fifo!Kept(Pending[p], w)]
  <2> DEFINE P1 == Pending'
  <2>1. P1 = [p \in Queue |-> P1[p]]
    BY PendingIs
  <2>2. \A p \in Queue : P1[p] = IF p = System THEN Pending[p] ELSE Fifo!Kept(Pending[p], w)
    BY <1>1, <1>5, <1>6, <1>7
  <2> HIDE DEF P1
  <2>3. P1 = [p \in Queue |-> IF p = System THEN Pending[p] ELSE Fifo!Kept(Pending[p], w)]
    BY <2>1, <2>2
  <2> QED
    BY <2>3 DEF P1
<1>9. Took' = Took
  BY <1>2, TookSame
<1>10. window[w] # "gone"
  BY <1>2
<1> QED
  BY <1>1, <1>2, <1>8, <1>9, <1>10 DEF Fifo!Destroy, Pending, Took

LEMMA InitEmpty == ASSUME Init PROVE Fifo!Init
<1>1. \A q \in Queue : Holds(queue[q], sent) = <<>>
  <2> TAKE q \in Queue
  <2>1. Size[q] \in Nat /\ Size[q] # 0 /\ queue[q] = AllocQueue(Size[q])
    BY QueueNames DEF Init
  <2>2. Used(queue[q]) = <<>> /\ Len(<<>>) = 0 /\ 1 .. 0 = {}
    BY <2>1, Allocated, EmptySeq
  <2>3. Len(Used(queue[q])) \in Nat /\ Spots(queue[q]) = {}
    BY <2>2 DEF Spots
  <2>4. AllSent(queue[q], sent)
    BY <2>3 DEF AllSent
  <2>5. IsHeld(Holds(queue[q], sent), queue[q], sent)
    BY <2>4, HoldsSeq
  <2>6. Holds(queue[q], sent) \in Seq(Sent) /\ Len(Holds(queue[q], sent)) = 0
    BY <2>2, <2>5 DEF IsHeld
  <2> QED
    BY <2>6, EmptySeq
<1>2. Pending = [q \in Queue |-> <<>>]
  BY <1>1, PendingIs
<1>3. Took = {}
  <2>1. Len(sent) = 0
    BY EmptySeq DEF Init
  <2>2. 1 .. Len(sent) = {}
    BY <2>1
  <2> QED
    BY <2>2 DEF Took
<1> QED
  BY <1>2, <1>3 DEF Init, Fifo!Init, Pending, Took

\* The queues implement those of MsgFifo, for every number of tasks, windows, nodes and
\* messages: what the nodes hold is a bounded sequence, no message is taken twice or loses
\* its place, and none is lost but with its window, as long as window procedures that are
\* asked about the mouse do not take messages themselves.
THEOREM QueuesAreFifo == ASSUME ~NestedGets PROVE Spec => ImplementsFifo
<1>1. Init => Fifo!Init
  BY InitEmpty
<1>2. IInv /\ [Next]_vars => [Fifo!Next]_(Fifo!vars)
  <2> SUFFICES ASSUME IInv, [Next]_vars PROVE [Fifo!Next]_(Fifo!vars)
    OBVIOUS
  <2>0. LinkInv /\ HeldInv /\ ScanInv
    BY DEF IInv
  <2>1. CASE \E q, front, m : Sends(q, front, m) /\ Fits(q, front, m)
    <3>1. \E q \in Queue : Fifo!Post(q)
      BY <2>0, <2>1, SendPosts
    <3> QED
      BY <3>1 DEF Fifo!Next
  <2>2. CASE \E w \in Closing, state \in {"dead", "gone"} : DestroyWindow(w, state)
    <3>1. \E w \in Window, state \in {"dead", "gone"} : Fifo!Destroy(w, state)
      BY <2>0, <2>2, DestroyFlushes
    <3> QED
      BY <3>1 DEF Fifo!Next
  <2>3. CASE \E k, next, verdict : Settles(k, next, verdict)
    <3>1. CASE \E q \in Queue : \E i \in 1 .. Len(Pending[q]) : Fifo!Take(q, i) \/ Fifo!Drop(q, i)
      BY <3>1 DEF Fifo!Next, Pending
    <3>2. CASE UNCHANGED <<Pending, Took, window>>
      BY <3>2 DEF Fifo!vars, Pending, Took
    <3> QED
      BY <2>0, <2>3, <3>1, <3>2, SettleTakes
  <2>4. CASE /\ UNCHANGED <<queue, sent, taken>>
             /\ \/ UNCHANGED window
                \/ \E w \in Closing, state \in {"live", "disabled"} : EnableWindow(w, state)
    <3>1. Pending' = Pending /\ Took' = Took
      BY <2>0, <2>4, TookSame, PendingIs
    <3>2. CASE UNCHANGED window
      BY <3>1, <3>2 DEF Fifo!vars, Pending, Took
    <3>3. ASSUME NEW w \in Closing, NEW state \in {"live", "disabled"}, EnableWindow(w, state)
          PROVE  Fifo!Next
      <4>1. w \in Window
        BY Constants DEF Types, OwnerAssumption
      <4>2. window[w] \in {"live", "disabled"} /\ window' = [window EXCEPT ![w] = state]
        BY <3>3 DEF EnableWindow
      <4>3. Fifo!Enable(w, state)
        BY <3>1, <4>2 DEF Fifo!Enable, Pending, Took
      <4> QED
        BY <4>1, <4>3 DEF Fifo!Next
    <3> QED
      BY <2>4, <3>2, <3>3
  <2> QED
    BY <2>1, <2>2, <2>3, <2>4, StepKinds
<1> QED
  BY <1>1, <1>2, SearchesInductive, PTL DEF Spec, ImplementsFifo, Fifo!Spec
=============================================================================
