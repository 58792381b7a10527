---------------------------- MODULE TasksProofs -----------------------------
(***************************************************************************)
(* Sends between tasks, for every number of tasks, sends and messages: the *)
(* inductive invariant and the theorems that follow from it, where no      *)
(* window procedure replies before it returns.                             *)
(***************************************************************************)
EXTENDS Tasks, FiniteSetsExt, FiniteSetTheorems, TLAPS, SequenceTheorems

----------------------------------------------------------------------------
(* Sets of numbers *)

\* A set of natural numbers that is not empty has a smallest element.
LEMMA MinNat ==
    ASSUME NEW S, S \subseteq Nat, S # {}
    PROVE  Min(S) \in S /\ \A y \in S : Min(S) <= y
<1>1. PICK x \in S : \A y \in S : ~ (<<y, x>> \in OpToRel(<, Nat))
  BY NatLessThanWellFounded, WFMin
<1>2. \A y \in S : ~ (y < x)
  BY <1>1, Zenon DEF OpToRel
<1>3. \A y \in S : x <= y
  BY <1>2
<1> QED
  BY <1>3 DEF Min

\* In a finite set of natural numbers there is a first, a second, and so on, up to
\* as many as it has: the one after the last that there is, is the smallest above it.
LEMMA KthNat ==
    ASSUME NEW S, S \subseteq Nat, IsFiniteSet(S), NEW k \in 1 .. Cardinality(S)
    PROVE  \E i \in S : Cardinality({j \in S : j <= i}) = k
<1> DEFINE UpTo(i) == {j \in S : j <= i}
           B == {m \in 1 .. Cardinality(S) : \A i \in S : Cardinality(UpTo(i)) # m}
<1>1. Cardinality(S) \in Nat
  BY FS_CardinalityType
<1>2. \A i : UpTo(i) \subseteq S /\ IsFiniteSet(UpTo(i)) /\ Cardinality(UpTo(i)) \in Nat
  BY FS_Subset, FS_CardinalityType
<1>3. SUFFICES ASSUME B # {}
               PROVE  FALSE
  <2>1. k \notin B => \E i \in S : Cardinality(UpTo(i)) = k
    OBVIOUS
  <2> QED
    BY <1>3, <2>1
<1>4. PICK m \in B : \A n \in B : m <= n
  <2>1. B \subseteq Nat
    BY <1>1
  <2> HIDE DEF B
  <2> QED
    BY <1>3, <2>1, MinNat
<1>5. CASE m = 1
  <2>1. S # {}
    <3>1. Cardinality(S) # 0
      BY <1>1, <1>4
    <3> QED
      BY <3>1, FS_EmptySet
  <2>2. PICK x \in S : \A y \in S : x <= y
    BY <2>1, MinNat
  <2>3. \A y \in S : y <= x <=> y = x
    BY <2>2
  <2>4. UpTo(x) = {x}
    BY <2>3
  <2>5. Cardinality(UpTo(x)) = 1
    BY <2>4, FS_Singleton
  <2> QED
    BY <1>4, <1>5, <2>5
<1>6. CASE m # 1
  <2>1. m \in Nat /\ m - 1 \in 1 .. Cardinality(S) /\ m <= Cardinality(S)
    BY <1>1, <1>4, <1>6
  <2>2. m - 1 \notin B
    BY <1>4, <2>1
  <2>3. PICK i \in S : Cardinality(UpTo(i)) = m - 1
    BY <2>1, <2>2
  <2>4. S \ UpTo(i) # {} /\ S \ UpTo(i) \subseteq Nat
    <3>1. UpTo(i) # S
      BY <2>1, <2>3
    <3> QED
      BY <3>1, <1>2
  <2> DEFINE n == Min(S \ UpTo(i))
  <2>5. n \in S \ UpTo(i) /\ \A y \in S \ UpTo(i) : n <= y
    BY <2>4, MinNat
  <2>6. UpTo(n) = UpTo(i) \cup {n}
    <3>1. n \in Int /\ i \in Int /\ n \in S /\ ~ (n <= i)
      <4> HIDE DEF n
      <4> QED
        BY <2>5
    <3>2. \A y \in S : y <= n <=> y <= i \/ y = n
      <4> TAKE y \in S
      <4>1. y \in Int /\ (~ (y <= i) => n <= y)
        BY <2>5
      <4> HIDE DEF n
      <4> QED
        BY <3>1, <4>1
    <3> HIDE DEF n
    <3> QED
      BY <3>1, <3>2
  <2>7. Cardinality(UpTo(n)) = m
    <3>1. Cardinality(UpTo(i) \cup {n}) = Cardinality(UpTo(i)) + 1
      <4> HIDE DEF n, UpTo
      <4>1. n \notin UpTo(i)
        BY <2>5
      <4> QED
        BY <1>2, <4>1, FS_AddElement
    <3> HIDE DEF n, UpTo
    <3> QED
      BY <2>1, <2>3, <2>6, <3>1
  <2> QED
    BY <1>4, <2>5, <2>7
<1> QED
  BY <1>5, <1>6

----------------------------------------------------------------------------
\* The i-th frame of the stack s waits at this place.
OnStack(s, i, place) == i \in 1 .. Len(s) /\ s[i].at = place

\* The task whose stack is s can still come back to its i-th frame: no DeleteTask,
\* which does not return, is above it.
Alive(s, i) == \A j \in Nat : OnStack(s, j, "Delete") => j <= i

Info == [lpPrev : Address \cup {Null}, hSendingTask : Task, hReceivingTask : Task,
         bSendReceived : BOOLEAN, bSendCompleted : BOOLEAN,
         lResult : 0 .. MaxSends, send : 0 .. MaxSends]

Types ==
    /\ lpTaskHead \in Seq(Task)
    /\ hCurrentTask \in Task
    /\ frames \in [Task -> Seq(Frame)]
    /\ smse \in [Address -> Info]
    /\ lpSendMessageStack \in Address \cup {Null}
    /\ bInSendMessage \in BOOLEAN
    /\ sends \in 0 .. MaxSends
    /\ handled \in [1 .. MaxSends -> {0, 1}]

\* A task that was switched away from does nothing before it is switched back to, and
\* above the wait loop of SendMessage there is such a wait or a window procedure.
StackOK(s) ==
    \A i \in 1 .. Len(s) :
        /\ s[i].at = "Switch" => i = Len(s)
        /\ s[i].at = "Send" => /\ i <= MaxDepth
                               /\ i < Len(s) => s[i + 1].at \in {"Handle", "Switch"}

StacksOK ==
    \A t \in Task : /\ StackOK(frames[t])
                    /\ \A i \in Nat : OnStack(frames[t], i, "Delete") => t \in TASK_DELETE_PENDING

\* The smse of a send in progress says who sent and, with handled, whether it was taken;
\* each send has its own.
InfosOK ==
    /\ \A a \in SendFrames :
          /\ smse[a].send \in 1 .. sends
          /\ smse[a].hSendingTask = a[1] /\ smse[a].hReceivingTask # a[1]
          /\ handled[smse[a].send] = (IF smse[a].bSendReceived THEN 1 ELSE 0)
    /\ \A a, b \in SendFrames : smse[a].send = smse[b].send => a = b
    /\ \A n \in sends + 1 .. MaxSends : handled[n] = 0

\* SendsNest without a choice: a is the newest of the sends in progress before the n-th,
\* or Null if there is none.
LastBefore(a, n) ==
    \/ a = Null /\ \A b \in SendFrames : smse[b].send >= n
    \/ /\ a \in SendFrames /\ smse[a].send < n
       /\ \A b \in SendFrames : smse[b].send < n => smse[b].send <= smse[a].send

Nested ==
    /\ LastBefore(lpSendMessageStack, sends + 1)
    /\ \A a \in SendFrames : LastBefore(smse[a].lpPrev, smse[a].send)

\* A window procedure under way handles a send in progress that is not answered yet and
\* that no other handles; if its task waits in SendMessage itself, a newer one than that.
HandlesOK ==
    \A t \in Task, i \in Nat :
        OnStack(frames[t], i, "Handle") /\ Alive(frames[t], i) =>
            LET h == frames[t][i]
                a == h.saved_ptr
            IN  /\ a \in SendFrames
                /\ smse[a].send = h.send
                /\ smse[a].bSendReceived /\ ~smse[a].bSendCompleted
                /\ smse[a].hReceivingTask = t
                /\ OnStack(frames[t], i - 1, "Send") => smse[<<t, i - 1>>].send < h.send
                /\ \A j \in Nat : /\ OnStack(frames[t], j, "Handle") /\ Alive(frames[t], j)
                                  /\ frames[t][j].saved_ptr = a
                                  => j = i

\* A send that was answered is on top of the chain, and its sender, if it can still come
\* back, is the one that runs, and does nothing before its SendMessage returns.
CompletedOK ==
    \A a \in SendFrames :
        smse[a].bSendCompleted /\ Alive(frames[a[1]], a[2]) =>
            /\ a = lpSendMessageStack
            /\ hCurrentTask = a[1]
            /\ \A j \in a[2] + 1 .. Len(frames[a[1]]) : frames[a[1]][j].at = "Switch"

IInv == Types /\ StacksOK /\ InfosOK /\ Nested /\ HandlesOK /\ CompletedOK /\ RightReply

Assumptions == TaskAssumption /\ SendAssumption /\ HabitAssumption

----------------------------------------------------------------------------
\* Frames and stacks

LEMMA FrameTypes ==
    /\ Switch \in Frame /\ Get \in Frame
    /\ \A y \in BOOLEAN : Delete(y) \in Frame
    /\ \A b \in BOOLEAN : Send(b) \in Frame
    /\ \A a \in Address, n \in 1 .. MaxSends, b \in BOOLEAN, y \in BOOLEAN :
          Handle(a, n, b, y) \in Frame
BY DEF Frame

LEMMA FrameFields ==
    ASSUME NEW f \in Frame
    PROVE  /\ f.at \in {"Switch", "Get", "Delete", "Send", "Handle"}
           /\ f.at = "Send" => f.cInSendMessage \in BOOLEAN
           /\ f.at = "Handle" => /\ f.saved_ptr \in Address /\ f.send \in 1 .. MaxSends
                                 /\ f.cInSendMessage \in BOOLEAN /\ f.yield \in BOOLEAN
<1>1. CASE f \in {Switch, Get} \cup {Delete(y) : y \in BOOLEAN}
  BY <1>1 DEF Switch, Get, Delete
<1>2. CASE f \in {Send(b) : b \in BOOLEAN}
  BY <1>2 DEF Send
<1>3. CASE f \in {Handle(a, n, b, y) : a \in Address, n \in 1 .. MaxSends,
                                       b \in BOOLEAN, y \in BOOLEAN}
  BY <1>3 DEF Handle
<1> QED
  BY <1>1, <1>2, <1>3 DEF Frame

LEMMA Constructors ==
    /\ Switch.at = "Switch" /\ Get.at = "Get"
    /\ \A y : Delete(y).at = "Delete" /\ Send(y).at = "Send"
    /\ \A a, n, b, y : /\ Handle(a, n, b, y).at = "Handle"
                       /\ Handle(a, n, b, y).saved_ptr = a /\ Handle(a, n, b, y).send = n
BY DEF Switch, Get, Delete, Send, Handle

\* What most steps do to a stack: its sends stay where they are, no window procedure is
\* called and no DeleteTask returns.
Keeps(old, new) ==
    /\ \A i \in Nat : OnStack(new, i, "Send") <=> OnStack(old, i, "Send")
    /\ \A i \in Nat : OnStack(new, i, "Handle") => OnStack(old, i, "Handle") /\ new[i] = old[i]
    /\ \A i \in Nat : OnStack(old, i, "Delete") => OnStack(new, i, "Delete")

\* Nothing waits above this stack to be switched back to.
Awake(s) == s = <<>> \/ s[Len(s)].at # "Switch"

LEMMA KeepsSelf ==
    ASSUME NEW s \in Seq(Frame)
    PROVE  Keeps(s, s)
BY DEF Keeps, OnStack

LEMMA Push ==
    ASSUME SendAssumption, NEW s \in Seq(Frame), NEW f \in Frame, StackOK(s), Awake(s),
           f.at = "Send" => Len(s) + 1 <= MaxDepth,
           s = <<>> \/ s[Len(s)].at # "Send" \/ f.at \in {"Handle", "Switch"}
    PROVE  /\ Append(s, f) \in Seq(Frame) /\ Len(Append(s, f)) = Len(s) + 1
           /\ Append(s, f)[Len(s) + 1] = f
           /\ \A i \in 1 .. Len(s) : Append(s, f)[i] = s[i]
           /\ StackOK(Append(s, f))
<1>1. /\ Append(s, f) \in Seq(Frame) /\ Len(Append(s, f)) = Len(s) + 1
      /\ Append(s, f)[Len(s) + 1] = f /\ Len(s) \in Nat
      /\ \A i \in 1 .. Len(s) : Append(s, f)[i] = s[i]
  OBVIOUS
<1>2. ASSUME NEW i \in 1 .. Len(s) + 1
      PROVE  /\ Append(s, f)[i].at = "Switch" => i = Len(s) + 1
             /\ Append(s, f)[i].at = "Send" =>
                   /\ i <= MaxDepth
                   /\ i < Len(s) + 1 => Append(s, f)[i + 1].at \in {"Handle", "Switch"}
  <2>1. CASE i = Len(s) + 1
    BY <1>1, <2>1
  <2>2. CASE i = Len(s)
    <3>1. s # <<>> /\ i \in 1 .. Len(s)
      BY <2>2, <1>1
    <3> QED
      BY <1>1, <2>2, <3>1 DEF StackOK, Awake
  <2>3. CASE i < Len(s)
    <3>1. i \in 1 .. Len(s) /\ i + 1 \in 1 .. Len(s)
      BY <2>3, <1>1
    <3> QED
      BY <1>1, <2>3, <3>1 DEF StackOK
  <2> QED
    BY <1>1, <2>1, <2>2, <2>3
<1> QED
  BY <1>1, <1>2 DEF StackOK

LEMMA KeepsPush ==
    ASSUME NEW old \in Seq(Frame), NEW s \in Seq(Frame), NEW f \in Frame,
           Keeps(old, s), f.at \notin {"Send", "Handle"}
    PROVE  Keeps(old, Append(s, f))
<1>1. /\ Len(Append(s, f)) = Len(s) + 1 /\ Len(s) \in Nat
      /\ Append(s, f)[Len(s) + 1] = f
      /\ \A i \in 1 .. Len(s) : Append(s, f)[i] = s[i]
  OBVIOUS
<1>2. \A i \in Nat, place \in {"Send", "Handle"} :
          OnStack(Append(s, f), i, place) <=> OnStack(s, i, place)
  BY <1>1 DEF OnStack
<1>3. \A i \in Nat : OnStack(s, i, "Delete") => OnStack(Append(s, f), i, "Delete")
  BY <1>1 DEF OnStack
<1>4. \A i \in Nat : OnStack(s, i, "Handle") => Append(s, f)[i] = s[i]
  BY <1>1 DEF OnStack
<1> QED
  BY <1>2, <1>3, <1>4 DEF Keeps

Below(s) == SubSeq(s, 1, Len(s) - 1)

LEMMA Pop ==
    ASSUME NEW s \in Seq(Frame), s # <<>>, StackOK(s)
    PROVE  /\ Below(s) \in Seq(Frame) /\ Len(Below(s)) = Len(s) - 1
           /\ \A i \in 1 .. Len(s) - 1 : Below(s)[i] = s[i]
           /\ StackOK(Below(s)) /\ Awake(Below(s))
           /\ s[Len(s)].at \notin {"Send", "Delete"} => Keeps(s, Below(s))
<1>1. /\ Below(s) \in Seq(Frame) /\ Len(Below(s)) = Len(s) - 1
      /\ \A i \in 1 .. Len(s) - 1 : Below(s)[i] = s[i]
      /\ Len(s) \in Nat \ {0}
  <2>1. Len(s) \in Nat \ {0}
    BY EmptySeq
  <2>2. \A i \in 1 .. Len(s) - 1 : s[i] \in Frame
    BY <2>1, ElementOfSeq
  <2> DEFINE n == Len(s) - 1
  <2>3. n \in Nat /\ Len(s) = n + 1
    BY <2>1
  <2> HIDE DEF n
  <2>4. /\ SubSeq(s, 1, n) \in Seq(Frame)
        /\ Len(SubSeq(s, 1, n)) = n
        /\ \A i \in 1 .. n : SubSeq(s, 1, n)[i] = s[i]
    <3>1. 1 \in Int /\ n \in Int /\ \A i \in 1 .. n : s[i] \in Frame
      BY <2>2, <2>3
    <3>2. /\ SubSeq(s, 1, n) \in Seq(Frame)
          /\ Len(SubSeq(s, 1, n)) = IF 1 <= n THEN n - 1 + 1 ELSE 0
          /\ \A i \in 1 .. n - 1 + 1 : SubSeq(s, 1, n)[i] = s[1 + i - 1]
      BY <3>1, SubSeqProperties
    <3> QED
      BY <2>3, <3>2
  <2> QED
    BY <2>1, <2>4 DEF Below, n
<1>2. Awake(Below(s))
  <2>1. CASE Len(s) = 1
    BY <1>1, <2>1 DEF Awake
  <2>2. CASE Len(s) # 1
    <3>1. Len(s) - 1 \in 1 .. Len(s) /\ Len(s) - 1 # Len(s)
      BY <1>1, <2>2
    <3> QED
      BY <1>1, <2>2, <3>1 DEF Awake, StackOK
  <2> QED
    BY <2>1, <2>2
<1>3. StackOK(Below(s))
  <2>1. ASSUME NEW i \in 1 .. Len(s) - 1
        PROVE  /\ Below(s)[i].at = "Switch" => i = Len(s) - 1
               /\ Below(s)[i].at = "Send" =>
                     /\ i <= MaxDepth
                     /\ i < Len(s) - 1 => Below(s)[i + 1].at \in {"Handle", "Switch"}
    <3>1. i \in 1 .. Len(s) /\ Below(s)[i] = s[i] /\ i < Len(s)
      BY <1>1
    <3>2. i < Len(s) - 1 => Below(s)[i + 1] = s[i + 1]
      BY <1>1
    <3> QED
      BY <1>1, <3>1, <3>2 DEF StackOK
  <2> QED
    BY <1>1, <2>1 DEF StackOK
<1>4. s[Len(s)].at \notin {"Send", "Delete"} => Keeps(s, Below(s))
  <2> SUFFICES ASSUME s[Len(s)].at \notin {"Send", "Delete"}
               PROVE  Keeps(s, Below(s))
    OBVIOUS
  <2>1. \A i \in Nat, place \in {"Send", "Delete"} :
            OnStack(Below(s), i, place) <=> OnStack(s, i, place)
    BY <1>1 DEF OnStack
  <2>2. \A i \in Nat : OnStack(Below(s), i, "Handle") =>
                           OnStack(s, i, "Handle") /\ Below(s)[i] = s[i]
    BY <1>1 DEF OnStack
  <2> QED
    BY <2>1, <2>2 DEF Keeps
<1> QED
  BY <1>1, <1>2, <1>3, <1>4

LEMMA Addresses ==
    ASSUME SendAssumption, NEW a \in Address
    PROVE  a[1] \in Task /\ a[2] \in 1 .. MaxDepth /\ a[2] \in Nat /\ a = <<a[1], a[2]>> /\ a # Null
<1>1. PICK t \in Task, i \in 1 .. MaxDepth : a = <<t, i>>
  BY DEF Address
<1>2. <<t, i>> # <<>>
  OBVIOUS
<1> QED
  BY <1>1, <1>2 DEF MaxDepth, Null, SendAssumption

----------------------------------------------------------------------------
\* What a new stack of the current task does to the sends

LEMMA SendsOn ==
    ASSUME SendAssumption
    PROVE  SendFrames = {a \in Address : OnStack(frames[a[1]], a[2], "Send")}
BY Addresses DEF SendFrames, OnStack, Address

LEMMA NewStack ==
    ASSUME Types, NEW s \in Seq(Frame), frames' = [frames EXCEPT ![c] = s]
    PROVE  /\ frames' \in [Task -> Seq(Frame)] /\ frames'[c] = s
           /\ \A t \in Task \ {c} : frames'[t] = frames[t]
BY DEF Types, c

LEMMA SameSends ==
    ASSUME SendAssumption, Types, NEW s \in Seq(Frame), frames' = [frames EXCEPT ![c] = s],
           \A i \in Nat : OnStack(s, i, "Send") <=> OnStack(Here, i, "Send")
    PROVE  SendFrames' = SendFrames
<1>1. SendFrames' = {a \in Address : OnStack(frames'[a[1]], a[2], "Send")}
  BY Addresses DEF SendFrames, OnStack, Address
<1>2. \A a \in Address : OnStack(frames'[a[1]], a[2], "Send")
                            <=> OnStack(frames[a[1]], a[2], "Send")
  BY NewStack, Addresses DEF Here
<1> QED
  BY <1>1, <1>2, SendsOn

LEMMA KeptStack ==
    ASSUME SendAssumption, Types, NEW s \in Seq(Frame), frames' = [frames EXCEPT ![c] = s],
           Keeps(Here, s)
    PROVE  /\ SendFrames' = SendFrames
           /\ \A t \in Task : Keeps(frames[t], frames'[t])
           /\ \A t \in Task, i \in Nat : Alive(frames'[t], i) => Alive(frames[t], i)
<1>1. \A t \in Task : Keeps(frames[t], frames'[t])
  <2> TAKE t \in Task
  <2>1. CASE t = c
    BY <2>1, NewStack DEF Here
  <2>2. CASE t # c
    <3>1. frames'[t] = frames[t] /\ frames[t] \in Seq(Frame)
      BY <2>2, NewStack DEF Types
    <3> QED
      BY <3>1, KeepsSelf
  <2> QED
    BY <2>1, <2>2
<1>2. \A t \in Task, i \in Nat : Alive(frames'[t], i) => Alive(frames[t], i)
  BY <1>1 DEF Keeps, Alive
<1>3. SendFrames' = SendFrames
  BY SameSends DEF Keeps
<1> QED
  BY <1>1, <1>2, <1>3

\* No task has been answered that can still come back.
NoneAnswered ==
    \A a \in SendFrames : smse[a].bSendCompleted => ~ Alive(frames[a[1]], a[2])

LEMMA Initially ==
    ASSUME Assumptions, Init
    PROVE  IInv
<1>1. NoInfo \in Info
  BY DEF NoInfo, Info, Null, Assumptions, TaskAssumption, SendAssumption
<1>2. Types
  <2>1. <<>> \in Seq(Frame) /\ <<Native>> \in Seq(Task) /\ Native \in Task
    BY DEF Assumptions, TaskAssumption
  <2>2. /\ frames \in [Task -> Seq(Frame)] /\ smse \in [Address -> Info]
        /\ handled \in [1 .. MaxSends -> {0, 1}]
    BY <1>1, <2>1 DEF Init
  <2>3. sends \in 0 .. MaxSends /\ lpTaskHead \in Seq(Task) /\ hCurrentTask \in Task
    BY <2>1 DEF Init, Assumptions, SendAssumption
  <2> QED
    BY <2>2, <2>3 DEF Types, Init
<1>3. \A t \in Task : frames[t] = <<>>
  BY DEF Init
<1>4. SendFrames = {}
  BY <1>3, SendsOn DEF OnStack, Assumptions, Address
<1>5. StacksOK
  BY <1>3 DEF StacksOK, StackOK, OnStack
<1>6. InfosOK
  BY <1>4 DEF InfosOK, Init
<1>7. Nested
  BY <1>4 DEF Nested, LastBefore, Init
<1>8. HandlesOK
  BY <1>3 DEF HandlesOK, OnStack
<1>9. CompletedOK /\ RightReply
  BY <1>4, SendAssumption DEF CompletedOK, RightReply, HandledOnce, Init
<1> QED
  BY <1>2, <1>5, <1>6, <1>7, <1>8, <1>9 DEF IInv

\* Where the current task does anything but wait for an answer it has, nobody else has one.
LEMMA Busy ==
    ASSUME SendAssumption, IInv,
           \/ Here = <<>>
           \/ Top.at \in {"Handle", "Get", "Delete"}
           \/ Top.at = "Send" /\ ~ smse[<<c, Len(Here)>>].bSendCompleted
    PROVE  NoneAnswered
<1> SUFFICES ASSUME NEW a \in SendFrames, smse[a].bSendCompleted, Alive(frames[a[1]], a[2])
             PROVE  FALSE
  BY DEF NoneAnswered
<1>1. /\ a[1] = c /\ a \in Address /\ OnStack(Here, a[2], "Send") /\ a = <<c, a[2]>>
      /\ \A j \in a[2] + 1 .. Len(Here) : Here[j].at = "Switch"
  BY SendsOn, Addresses DEF IInv, CompletedOK, Here, c
<1>2. Here \in Seq(Frame) /\ Len(Here) \in Nat /\ Here # <<>> /\ a[2] \in 1 .. Len(Here)
  BY <1>1 DEF IInv, Types, Here, c, OnStack
<1>3. CASE a[2] = Len(Here)
  BY <1>1, <1>2, <1>3 DEF OnStack, Top
<1>4. CASE a[2] # Len(Here)
  <2>1. Len(Here) \in a[2] + 1 .. Len(Here)
    BY <1>2, <1>4
  <2> QED
    BY <1>1, <1>2, <2>1 DEF Top
<1> QED
  BY <1>3, <1>4

----------------------------------------------------------------------------
\* Steps that send, take and answer nothing

LEMMA NoneAnsweredAfter ==
    ASSUME SendAssumption, Types, NoneAnswered, UNCHANGED smse,
           NEW s \in Seq(Frame), frames' = [frames EXCEPT ![c] = s], Keeps(Here, s)
    PROVE  CompletedOK'
<1>1. \A a \in SendFrames : a[1] \in Task /\ a[2] \in Nat
  BY SendsOn, Addresses
<1> QED
  BY <1>1, KeptStack DEF NoneAnswered, CompletedOK

LEMMA Quiet ==
    ASSUME SendAssumption, IInv, Types', CompletedOK',
           NEW s \in Seq(Frame), frames' = [frames EXCEPT ![c] = s],
           Keeps(Here, s), StackOK(s),
           TASK_DELETE_PENDING \subseteq TASK_DELETE_PENDING',
           \A i \in Nat : OnStack(s, i, "Delete") => c \in TASK_DELETE_PENDING',
           UNCHANGED <<smse, lpSendMessageStack, sends, handled>>
    PROVE  IInv'
<1>1. /\ SendFrames' = SendFrames
      /\ \A t \in Task : Keeps(frames[t], frames'[t])
      /\ \A t \in Task, i \in Nat : Alive(frames'[t], i) => Alive(frames[t], i)
  BY KeptStack DEF IInv
<1>2. StacksOK'
  <2>1. /\ frames'[c] = s
        /\ \A t \in Task \ {c} : frames'[t] = frames[t]
    BY NewStack DEF IInv
  <2> QED
    BY <2>1 DEF IInv, StacksOK
<1>3. InfosOK' /\ Nested'
  BY <1>1 DEF IInv, InfosOK, Nested, LastBefore
<1>4. HandlesOK'
  <2> SUFFICES ASSUME NEW t \in Task, NEW i \in Nat,
                      OnStack(frames'[t], i, "Handle"), Alive(frames'[t], i)
               PROVE  LET h == frames'[t][i]
                          a == h.saved_ptr
                      IN  /\ a \in SendFrames
                          /\ smse[a].send = h.send
                          /\ smse[a].bSendReceived /\ ~smse[a].bSendCompleted
                          /\ smse[a].hReceivingTask = t
                          /\ OnStack(frames'[t], i - 1, "Send") => smse[<<t, i - 1>>].send < h.send
                          /\ \A j \in Nat : /\ OnStack(frames'[t], j, "Handle")
                                            /\ Alive(frames'[t], j)
                                            /\ frames'[t][j].saved_ptr = a
                                            => j = i
    BY <1>1 DEF HandlesOK
  <2>1. /\ OnStack(frames[t], i, "Handle") /\ Alive(frames[t], i) /\ frames'[t][i] = frames[t][i]
        /\ OnStack(frames'[t], i - 1, "Send") => OnStack(frames[t], i - 1, "Send")
    <3>1. i - 1 \in Nat
      BY DEF OnStack
    <3> QED
      BY <1>1, <3>1 DEF Keeps
  <2>2. \A j \in Nat : OnStack(frames'[t], j, "Handle") /\ Alive(frames'[t], j) =>
            /\ OnStack(frames[t], j, "Handle") /\ Alive(frames[t], j)
            /\ frames'[t][j] = frames[t][j]
    BY <1>1 DEF Keeps
  <2> QED
    BY <2>1, <2>2 DEF IInv, HandlesOK
<1>5. RightReply'
  BY <1>1 DEF IInv, RightReply, HandledOnce
<1> QED
  BY <1>2, <1>3, <1>4, <1>5 DEF IInv

----------------------------------------------------------------------------
\* The scheduler

LEMMA FirstIn ==
    ASSUME NEW S, S \subseteq Nat, S # {}
    PROVE  First(S) \in S
<1>1. \E x \in S : \A y \in S : x <= y
  BY MinNat
<1> QED
  BY <1>1 DEF First

\* Whom the scheduler finds is in the list, or the current task.
LEMMA NextInTask ==
    ASSUME Types, NEW ready
    PROVE  /\ ScheduleTask(ready).next \in Task
           /\ ScheduleTask(ready).next \in TasksIn(lpTaskHead) \cup {c}
<1>1. /\ Places \subseteq Nat /\ \A i \in Places : lpTaskHead[i] \in Task
      /\ hCurrentTask \in Task
  BY ElementOfSeq DEF Types, Places
<1>2. \A S \in SUBSET Places : RoundRobin(S).found \subseteq S
  <2> TAKE S \in SUBSET Places
  <2> DEFINE after == {i \in S : Passed(i) /\ c \notin TASK_DELETE_PENDING}
  <2>1. RoundRobin(S).found = IF after # {} THEN {First(after)}
                              ELSE IF S # {} THEN {First(S)} ELSE {}
    BY DEF RoundRobin
  <2>2. (after # {} => First(after) \in after) /\ (S # {} => First(S) \in S)
    BY <1>1, FirstIn
  <2> QED
    BY <2>1, <2>2
<1> DEFINE all    == TasksIn(lpTaskHead)
           woken  == ready \cup {t \in all : input[t] > 0}
           flags  == IF c \in TASK_DELETE_PENDING \cap all THEN woken \cup all ELSE woken
           isReady(i) ==
               LET t == lpTaskHead[i]
               IN  /\ t \notin TASK_DELETE_PENDING
                   /\ posted[t] > 0 \/ t \in (IF Passed(i) THEN flags ELSE woken)
           S == {i \in Places : isReady(i)}
<1>3. ScheduleTask(ready).next = IF RoundRobin(S).found = {} THEN c
                                 ELSE lpTaskHead[CHOOSE i \in RoundRobin(S).found : TRUE]
  BY DEF ScheduleTask
<1>4. S \in SUBSET Places
  OBVIOUS
<1> HIDE DEF S
<1>5. RoundRobin(S).found # {} =>
          (CHOOSE i \in RoundRobin(S).found : TRUE) \in Places
  BY <1>2, <1>4
<1>6. \A i \in Places : lpTaskHead[i] \in TasksIn(lpTaskHead)
  BY DEF TasksIn, Places
<1> QED
  BY <1>1, <1>3, <1>5, <1>6 DEF c

LEMMA RestTyped ==
    ASSUME Types, NEW freed
    PROVE  Rest(freed) \in Seq(Task)
<1> DEFINE left == {i \in Places : lpTaskHead[i] \notin freed}
           place(k) == CHOOSE i \in left : Cardinality({j \in left : j <= i}) = k
<1>1. /\ left \subseteq Nat /\ IsFiniteSet(left) /\ \A i \in left : lpTaskHead[i] \in Task
  <2>1. Len(lpTaskHead) \in Nat /\ \A i \in Places : lpTaskHead[i] \in Task
    BY ElementOfSeq DEF Types, Places
  <2>2. IsFiniteSet(Places)
    BY <2>1, FS_Interval DEF Places
  <2>3. IsFiniteSet(left)
    BY <2>2, FS_Subset
  <2> QED
    BY <2>1, <2>3 DEF Places
<1>2. Cardinality(left) \in Nat
  BY <1>1, FS_CardinalityType
<1>3. \A k \in 1 .. Cardinality(left) : place(k) \in left
  <2> HIDE DEF left
  <2> TAKE k \in 1 .. Cardinality(left)
  <2>1. \E i \in left : Cardinality({j \in left : j <= i}) = k
    BY <1>1, KthNat
  <2> QED
    BY <2>1
<1>4. Rest(freed) = IF freed = {} THEN lpTaskHead
                    ELSE [k \in 1 .. Cardinality(left) |-> lpTaskHead[place(k)]]
  BY DEF Rest
<1> HIDE DEF left, place
<1>5. \A k \in 1 .. Cardinality(left) : lpTaskHead[place(k)] \in Task
  BY <1>1, <1>3
<1>6. lpTaskHead \in Seq(Task)
  BY DEF Types
<1> QED
  BY <1>2, <1>4, <1>5, <1>6

\* After a switch the stack of the task that was running is s, or waits above s.
LEMMA Switched ==
    ASSUME SendAssumption, Types, NEW t \in Task, NEW ready, NEW s \in Seq(Frame),
           StackOK(s), Awake(s),
           SwitchTo(t, [frames EXCEPT ![c] = s], ready)
    PROVE  /\ hCurrentTask' = t
           /\ \E n \in Seq(Frame) :
                 /\ frames' = [frames EXCEPT ![c] = n] /\ StackOK(n)
                 /\ \A old \in Seq(Frame) : Keeps(old, s) => Keeps(old, n)
                 /\ \A i \in Nat : OnStack(n, i, "Delete") => OnStack(s, i, "Delete")
                 /\ n = s \/ n = Append(s, Switch)
<1>1. CASE t = c
  BY <1>1 DEF SwitchTo, c
<1>2. CASE t # c
  <2>1. /\ Append(s, Switch) \in Seq(Frame) /\ StackOK(Append(s, Switch))
        /\ Len(Append(s, Switch)) = Len(s) + 1 /\ Append(s, Switch)[Len(s) + 1] = Switch
        /\ \A i \in 1 .. Len(s) : Append(s, Switch)[i] = s[i]
    BY Push, FrameTypes, Constructors
  <2>2. \A old \in Seq(Frame) : Keeps(old, s) => Keeps(old, Append(s, Switch))
    BY KeepsPush, FrameTypes, Constructors
  <2>3. \A i \in Nat : OnStack(Append(s, Switch), i, "Delete") => OnStack(s, i, "Delete")
    BY <2>1, Constructors DEF OnStack
  <2>4. frames' = [frames EXCEPT ![c] = Append(s, Switch)] /\ hCurrentTask' = t
    BY <1>2 DEF SwitchTo, Types, c
  <2> QED
    BY <2>1, <2>2, <2>3, <2>4
<1> QED
  BY <1>1, <1>2

\* A step that ends in a switch, or might.
LEMMA QuietSwitch ==
    ASSUME SendAssumption, IInv, NoneAnswered, NEW t \in Task, NEW ready, NEW s \in Seq(Frame),
           Keeps(Here, s), StackOK(s), Awake(s),
           \/ SwitchTo(t, [frames EXCEPT ![c] = s], ready)
           \/ frames' = [frames EXCEPT ![c] = s] /\ UNCHANGED hCurrentTask,
           lpTaskHead' \in Seq(Task), bInSendMessage' \in BOOLEAN,
           TASK_DELETE_PENDING \subseteq TASK_DELETE_PENDING',
           \A i \in Nat : OnStack(s, i, "Delete") => c \in TASK_DELETE_PENDING',
           UNCHANGED <<smse, lpSendMessageStack, sends, handled>>
    PROVE  IInv'
<1>1. Types /\ hCurrentTask \in Task /\ Here \in Seq(Frame)
  BY DEF IInv, Types, Here, c
<1>2. PICK n \in Seq(Frame) :
          /\ frames' = [frames EXCEPT ![c] = n] /\ StackOK(n) /\ Keeps(Here, n)
          /\ \A i \in Nat : OnStack(n, i, "Delete") => OnStack(s, i, "Delete")
          /\ hCurrentTask' \in Task
  BY <1>1, Switched
<1>3. Types'
  <2>1. frames' \in [Task -> Seq(Frame)]
    BY <1>1, <1>2, NewStack
  <2> QED
    BY <1>2, <2>1 DEF IInv, Types
<1>4. CompletedOK'
  BY <1>1, <1>2, NoneAnsweredAfter
<1> QED
  BY <1>2, <1>3, <1>4, Quiet

LEMMA QuietYield ==
    ASSUME SendAssumption, IInv, NoneAnswered, NEW ready, NEW s \in Seq(Frame),
           Keeps(Here, s), StackOK(s), Awake(s),
           InternalYield([frames EXCEPT ![c] = s], ready),
           bInSendMessage' \in BOOLEAN,
           TASK_DELETE_PENDING \subseteq TASK_DELETE_PENDING',
           \A i \in Nat : OnStack(s, i, "Delete") => c \in TASK_DELETE_PENDING',
           UNCHANGED <<smse, lpSendMessageStack, sends, handled>>
    PROVE  IInv'
<1>1. /\ ScheduleTask(ready).next \in Task
      /\ SwitchTo(ScheduleTask(ready).next, [frames EXCEPT ![c] = s], ScheduleTask(ready).ready)
      /\ lpTaskHead' \in Seq(Task)
  BY NextInTask, RestTyped DEF InternalYield, IInv
<1> QED
  BY <1>1, QuietSwitch

----------------------------------------------------------------------------
\* Taking a message

\* The send on top of the chain, and that it is the newest.
LEMMA TopSend ==
    ASSUME SendAssumption, IInv, lpSendMessageStack # Null
    PROVE  /\ lpSendMessageStack \in SendFrames /\ lpSendMessageStack \in Address
           /\ smse[lpSendMessageStack].send \in 1 .. sends
           /\ smse[lpSendMessageStack].hSendingTask = lpSendMessageStack[1]
           /\ \A b \in SendFrames : smse[b].send <= smse[lpSendMessageStack].send
           /\ \A b \in SendFrames \ {lpSendMessageStack} :
                  smse[b].send < smse[lpSendMessageStack].send
<1>1. sends \in Nat /\ \A b \in SendFrames : smse[b].send \in 1 .. sends
  BY DEF IInv, Types, InfosOK
<1>2. lpSendMessageStack \in SendFrames
  BY DEF IInv, Nested, LastBefore
<1>3. \A b \in SendFrames : smse[b].send <= smse[lpSendMessageStack].send
  BY <1>1 DEF IInv, Nested, LastBefore
<1>4. \A b \in SendFrames : smse[b].send = smse[lpSendMessageStack].send => b = lpSendMessageStack
  BY <1>2 DEF IInv, InfosOK
<1> QED
  BY <1>1, <1>2, <1>3, <1>4, SendsOn DEF IInv, InfosOK

LEMMA WaitsOnStack ==
    ASSUME SendAssumption, IInv, NEW t \in Task, NEW i \in Nat, OnStack(frames[t], i, "Send")
    PROVE  <<t, i>> \in SendFrames /\ <<t, i>> \in Address
<1>1. i \in 1 .. MaxDepth
  BY DEF IInv, StacksOK, StackOK, OnStack
<1>2. <<t, i>> \in Address
  BY <1>1 DEF Address
<1> QED
  BY <1>2, SendsOn

LEMMA HandleFacts ==
    ASSUME IInv, NEW t \in Task, NEW i \in Nat,
           OnStack(frames[t], i, "Handle"), Alive(frames[t], i)
    PROVE  /\ frames[t][i].saved_ptr \in SendFrames
           /\ smse[frames[t][i].saved_ptr].send = frames[t][i].send
           /\ smse[frames[t][i].saved_ptr].bSendReceived
           /\ ~ smse[frames[t][i].saved_ptr].bSendCompleted
           /\ smse[frames[t][i].saved_ptr].hReceivingTask = t
<1>1. HandlesOK
  BY DEF IInv
<1> DEFINE d == frames[t][i].saved_ptr
<1>2. /\ d \in SendFrames /\ smse[d].send = frames[t][i].send
      /\ smse[d].bSendReceived /\ ~ smse[d].bSendCompleted /\ smse[d].hReceivingTask = t
  BY <1>1, ZenonT(60) DEF HandlesOK
<1> QED
  BY <1>2

LEMMA HandleOver ==
    ASSUME IInv, NEW t \in Task, NEW i \in Nat, OnStack(frames[t], i, "Send"),
           OnStack(frames[t], i + 1, "Handle"), Alive(frames[t], i + 1)
    PROVE  smse[<<t, i>>].send < frames[t][i + 1].send
<1>1. i + 1 \in Nat /\ (i + 1) - 1 = i
  OBVIOUS
<1> QED
  BY <1>1 DEF IInv, HandlesOK

LEMMA HandleAlone ==
    ASSUME IInv, NEW t \in Task, NEW i \in Nat, NEW j \in Nat,
           OnStack(frames[t], i, "Handle"), Alive(frames[t], i),
           OnStack(frames[t], j, "Handle"), Alive(frames[t], j),
           frames[t][i].saved_ptr = frames[t][j].saved_ptr
    PROVE  i = j
BY DEF IInv, HandlesOK

LEMMA ReceiveStep ==
    ASSUME SendAssumption, IInv, Pending, NEW s \in Seq(Frame), NEW y \in BOOLEAN,
           Keeps(Here, s), StackOK(s), Awake(s),
           \A i \in Nat : OnStack(s, i, "Delete") => OnStack(Here, i, "Delete"),
           Receive([frames EXCEPT ![c] = s], y)
    PROVE  IInv'
<1> DEFINE a == lpSendMessageStack
           n == smse[a].send
           h == Handle(a, n, bInSendMessage, y)
           s2 == Append(s, h)
<1>1. /\ a \in SendFrames /\ a \in Address /\ n \in 1 .. sends /\ n \in 1 .. MaxSends
      /\ smse[a].hReceivingTask = c /\ ~ smse[a].bSendReceived /\ ~ smse[a].bSendCompleted
      /\ c \in Task /\ c # a[1] /\ Here \in Seq(Frame) /\ Here = frames[c]
      /\ \A b \in SendFrames \ {a} : smse[b].send < n
      /\ handled[n] = 0
  BY TopSend DEF IInv, Types, InfosOK, Pending, Sent, ForMe, c, Here
<1>2. NoneAnswered
  BY <1>1 DEF IInv, CompletedOK, NoneAnswered
<1>3. h \in Frame /\ h.at = "Handle" /\ h.saved_ptr = a /\ h.send = n
  BY <1>1, FrameTypes, Constructors DEF IInv, Types
<1> HIDE DEF h
<1>4. /\ s2 \in Seq(Frame) /\ StackOK(s2) /\ Len(s) \in Nat /\ Len(s2) = Len(s) + 1
      /\ s2[Len(s) + 1] = h /\ \A i \in 1 .. Len(s) : s2[i] = s[i]
  BY <1>3, Push
<1> HIDE DEF s2
<1>5. frames' = [frames EXCEPT ![c] = s2]
  BY <1>1 DEF Receive, h, s2, IInv, Types
<1>6. /\ frames' \in [Task -> Seq(Frame)] /\ frames'[c] = s2
      /\ \A t \in Task \ {c} : frames'[t] = frames[t]
  BY <1>4, <1>5, NewStack DEF IInv
<1>7. /\ \A i \in Nat : OnStack(s2, i, "Send") <=> OnStack(Here, i, "Send")
      /\ \A i \in Nat : OnStack(s2, i, "Handle") =>
            \/ i = Len(s) + 1 /\ s2[i] = h
            \/ OnStack(Here, i, "Handle") /\ s2[i] = Here[i]
      /\ \A i \in Nat : OnStack(s2, i, "Delete") <=> OnStack(Here, i, "Delete")
  <2>1. \A i \in Nat, place \in {"Send", "Delete"} : OnStack(s2, i, place) <=> OnStack(s, i, place)
    BY <1>3, <1>4 DEF OnStack
  <2>2. \A i \in Nat : OnStack(s2, i, "Handle") =>
            (i = Len(s) + 1 /\ s2[i] = h) \/ (OnStack(s, i, "Handle") /\ s2[i] = s[i])
    BY <1>3, <1>4 DEF OnStack
  <2> QED
    BY <2>1, <2>2 DEF Keeps
<1>8. SendFrames' = SendFrames
  BY <1>4, <1>5, <1>7, SameSends DEF IInv
<1>9. \A t \in Task, i \in Nat : Alive(frames'[t], i) => Alive(frames[t], i)
  BY <1>1, <1>6, <1>7 DEF Alive
<1>10. /\ smse' \in [Address -> Info]
       /\ \A b \in Address : smse'[b].send = smse[b].send /\ smse'[b].lpPrev = smse[b].lpPrev
       /\ \A b \in Address : /\ smse'[b].hSendingTask = smse[b].hSendingTask
                             /\ smse'[b].hReceivingTask = smse[b].hReceivingTask
       /\ \A b \in Address : /\ smse'[b].bSendCompleted = smse[b].bSendCompleted
                             /\ smse'[b].lResult = smse[b].lResult
       /\ smse'[a].bSendReceived
       /\ \A b \in Address : b # a => smse'[b].bSendReceived = smse[b].bSendReceived
  BY <1>1 DEF Receive, IInv, Types, Info
<1>11. /\ handled' \in [1 .. MaxSends -> {0, 1}] /\ handled'[n] = 1
       /\ \A m \in 1 .. MaxSends : m # n => handled'[m] = handled[m]
       /\ UNCHANGED <<lpTaskHead, hCurrentTask, lpSendMessageStack, sends, TASK_DELETE_PENDING>>
       /\ bInSendMessage' = TRUE
  BY <1>1 DEF Receive, IInv, Types, ends
<1>12. SendFrames \subseteq Address /\ sends \in 0 .. MaxSends /\ MaxSends \in Nat
  BY SendsOn DEF IInv, Types, SendAssumption
<1> HIDE DEF a, n
<1>13. Types'
  BY <1>6, <1>10, <1>11 DEF IInv, Types
<1>14. StacksOK'
  BY <1>1, <1>4, <1>6, <1>7, <1>11 DEF IInv, StacksOK
<1>15. InfosOK'
  <2>1. ASSUME NEW b \in SendFrames
        PROVE  /\ smse'[b].send \in 1 .. sends
               /\ smse'[b].hSendingTask = b[1] /\ smse'[b].hReceivingTask # b[1]
               /\ handled'[smse'[b].send] = (IF smse'[b].bSendReceived THEN 1 ELSE 0)
    <3>1. CASE b = a
      BY <1>1, <1>10, <1>11, <3>1 DEF IInv, InfosOK, n
    <3>2. CASE b # a
      <4>1. smse[b].send \in 1 .. MaxSends /\ smse[b].send # n
        BY <1>1, <1>12, <3>2 DEF IInv, InfosOK
      <4> QED
        BY <1>10, <1>11, <1>12, <3>2, <4>1 DEF IInv, InfosOK
    <3> QED
      BY <3>1, <3>2
  <2>2. \A b, d \in SendFrames : smse'[b].send = smse'[d].send => b = d
    BY <1>10, <1>12 DEF IInv, InfosOK
  <2>3. \A m \in sends + 1 .. MaxSends : handled'[m] = 0
    <3>1. \A m \in sends + 1 .. MaxSends : m \in 1 .. MaxSends /\ m # n
      BY <1>1, <1>12
    <3> QED
      BY <1>11, <3>1 DEF IInv, InfosOK
  <2> QED
    BY <1>8, <1>11, <2>1, <2>2, <2>3 DEF InfosOK
<1>16. Nested'
  BY <1>8, <1>10, <1>11, <1>12 DEF IInv, Nested, LastBefore
<1>17. HandlesOK'
  <2> SUFFICES ASSUME NEW t \in Task, NEW i \in Nat,
                      OnStack(frames'[t], i, "Handle"), Alive(frames'[t], i)
               PROVE  LET g == frames'[t][i]
                          b == g.saved_ptr
                      IN  /\ b \in SendFrames
                          /\ smse'[b].send = g.send
                          /\ smse'[b].bSendReceived /\ ~smse'[b].bSendCompleted
                          /\ smse'[b].hReceivingTask = t
                          /\ OnStack(frames'[t], i - 1, "Send") =>
                                 smse'[<<t, i - 1>>].send < g.send
                          /\ \A j \in Nat : /\ OnStack(frames'[t], j, "Handle")
                                            /\ Alive(frames'[t], j)
                                            /\ frames'[t][j].saved_ptr = b
                                            => j = i
    BY <1>8 DEF HandlesOK
  <2>1. ASSUME NEW j \in Nat, OnStack(frames'[t], j, "Handle"), Alive(frames'[t], j)
        PROVE  \/ t = c /\ j = Len(s) + 1 /\ frames'[t][j] = h
               \/ /\ OnStack(frames[t], j, "Handle") /\ Alive(frames[t], j)
                  /\ frames'[t][j] = frames[t][j] /\ frames[t][j].saved_ptr # a
    <3>1. Alive(frames[t], j)
      BY <1>9, <2>1
    <3>2. \/ t = c /\ j = Len(s) + 1 /\ frames'[t][j] = h
          \/ OnStack(frames[t], j, "Handle") /\ frames'[t][j] = frames[t][j]
      BY <1>1, <1>6, <1>7, <2>1
    <3>3. OnStack(frames[t], j, "Handle") => smse[frames[t][j].saved_ptr].bSendReceived
      BY <3>1 DEF IInv, HandlesOK
    <3> QED
      BY <1>1, <3>1, <3>2, <3>3
  <2>2. OnStack(frames'[t], i - 1, "Send") =>
            /\ OnStack(frames[t], i - 1, "Send")
            /\ <<t, i - 1>> \in SendFrames /\ <<t, i - 1>> \in Address
    <3> SUFFICES ASSUME OnStack(frames'[t], i - 1, "Send")
                 PROVE  /\ OnStack(frames[t], i - 1, "Send")
                        /\ <<t, i - 1>> \in SendFrames /\ <<t, i - 1>> \in Address
      OBVIOUS
    <3>1. i - 1 \in Nat
      BY DEF OnStack
    <3>2. OnStack(frames[t], i - 1, "Send")
      BY <1>1, <1>6, <1>7, <3>1
    <3> QED
      BY <3>1, <3>2, WaitsOnStack
  <2>3. CASE t = c /\ i = Len(s) + 1 /\ frames'[t][i] = h
    <3>1. OnStack(frames'[t], i - 1, "Send") => <<t, i - 1>> # a
      BY <1>1, <2>3
    <3>2. OnStack(frames'[t], i - 1, "Send") => smse'[<<t, i - 1>>].send < n
      BY <1>1, <1>10, <2>2, <3>1
    <3>3. frames'[t][i].saved_ptr = a /\ frames'[t][i].send = smse[a].send
      BY <1>3, <2>3 DEF n
    <3>4. \A j \in Nat : /\ OnStack(frames'[t], j, "Handle") /\ Alive(frames'[t], j)
                         /\ frames'[t][j].saved_ptr = a
                         => j = i
      BY <2>1, <2>3
    <3>5. /\ smse'[a].send = smse[a].send /\ smse'[a].bSendReceived
          /\ ~ smse'[a].bSendCompleted /\ smse'[a].hReceivingTask = t
      BY <1>1, <1>10, <2>3
    <3>6. n = smse[a].send
      BY DEF n
    <3> QED
      BY <1>1, <3>2, <3>3, <3>4, <3>5, <3>6
  <2>4. CASE /\ OnStack(frames[t], i, "Handle") /\ Alive(frames[t], i)
             /\ frames'[t][i] = frames[t][i] /\ frames[t][i].saved_ptr # a
    <3>1. OnStack(frames'[t], i - 1, "Send") =>
              smse'[<<t, i - 1>>].send < frames[t][i].send
      BY <1>10, <2>2, <2>4 DEF IInv, HandlesOK
    <3>2. ASSUME NEW j \in Nat, OnStack(frames'[t], j, "Handle"), Alive(frames'[t], j),
                 frames'[t][j].saved_ptr = frames[t][i].saved_ptr
          PROVE  j = i
      <4>1. /\ OnStack(frames[t], j, "Handle") /\ Alive(frames[t], j)
            /\ frames[t][j].saved_ptr = frames[t][i].saved_ptr
        BY <1>3, <2>1, <2>4, <3>2
      <4> QED
        BY <2>4, <4>1 DEF IInv, HandlesOK
    <3> DEFINE d == frames[t][i].saved_ptr
    <3>3. /\ d \in SendFrames /\ d \in Address /\ smse[d].send = frames[t][i].send
          /\ smse[d].bSendReceived /\ ~ smse[d].bSendCompleted /\ smse[d].hReceivingTask = t
      BY <1>12, <2>4, HandleFacts
    <3>4. d = frames'[t][i].saved_ptr /\ d # a /\ frames'[t][i] = frames[t][i]
      BY <2>4
    <3>5. \A j \in Nat : /\ OnStack(frames'[t], j, "Handle") /\ Alive(frames'[t], j)
                         /\ frames'[t][j].saved_ptr = d
                         => j = i
      BY <3>2
    <3> HIDE DEF d
    <3>6. /\ smse'[d].send = frames[t][i].send /\ smse'[d].bSendReceived
          /\ ~ smse'[d].bSendCompleted /\ smse'[d].hReceivingTask = t
      BY <1>10, <3>3, <3>4
    <3> QED
      BY <3>1, <3>3, <3>4, <3>5, <3>6
  <2> QED
    BY <2>1, <2>3, <2>4
<1>18. CompletedOK'
  <2>1. \A b \in SendFrames : b[1] \in Task /\ b[2] \in Nat
    BY <1>12, Addresses
  <2> QED
    BY <1>2, <1>8, <1>9, <1>10, <1>12, <2>1 DEF CompletedOK, NoneAnswered
<1>19. RightReply'
  <2>1. \A b \in SendFrames : smse[b].bSendCompleted =>
            smse[b].send \in 1 .. MaxSends /\ smse[b].send # n
    BY <1>1, <1>12 DEF IInv, InfosOK
  <2> QED
    BY <1>8, <1>10, <1>11, <1>12, <2>1 DEF IInv, RightReply, HandledOnce
<1> QED
  BY <1>13, <1>14, <1>15, <1>16, <1>17, <1>18, <1>19 DEF IInv

----------------------------------------------------------------------------
\* Answering a message

LEMMA ReplyStep ==
    ASSUME SendAssumption, IInv, ForMe, NEW s \in Seq(Frame), NEW result \in 0 .. MaxSends,
           Keeps(Here, s), StackOK(s), Awake(s),
           \A i \in Nat : OnStack(s, i, "Delete") => OnStack(Here, i, "Delete"),
           \A i \in Nat : OnStack(s, i, "Handle") /\ Alive(s, i) =>
                              s[i].saved_ptr # lpSendMessageStack,
           \/ result = smse[lpSendMessageStack].send /\ smse[lpSendMessageStack].bSendReceived
           \/ result = 0 /\ c \in TASK_DELETE_PENDING,
           ReplyMessage(result, [frames EXCEPT ![c] = s]),
           bInSendMessage' \in BOOLEAN,
           UNCHANGED <<lpSendMessageStack, sends, handled, TASK_DELETE_PENDING>>
    PROVE  IInv'
<1> DEFINE a == lpSendMessageStack
<1>1. /\ a \in SendFrames /\ a \in Address /\ smse[a].send \in 1 .. sends
      /\ smse[a].hReceivingTask = c /\ smse[a].hSendingTask = a[1]
      /\ c \in Task /\ c # a[1] /\ Here \in Seq(Frame) /\ Here = frames[c]
      /\ a[1] \in Task /\ a[2] \in Nat
  BY TopSend, Addresses DEF IInv, Types, InfosOK, ForMe, c, Here
<1>2. \A b \in SendFrames \ {a} : smse[b].bSendCompleted => ~ Alive(frames[b[1]], b[2])
  BY DEF IInv, CompletedOK
<1>3. /\ smse' = [smse EXCEPT ![a].lResult = result, ![a].bSendCompleted = TRUE]
      /\ SwitchTo(a[1], [frames EXCEPT ![c] = s], TASK_READY \cup {c})
      /\ UNCHANGED lpTaskHead
  BY <1>1 DEF ReplyMessage, DirectedYield
<1>4. PICK n \in Seq(Frame) :
          /\ frames' = [frames EXCEPT ![c] = n] /\ StackOK(n) /\ Keeps(Here, n) /\ Keeps(s, n)
          /\ \A i \in Nat : OnStack(n, i, "Delete") => OnStack(s, i, "Delete")
          /\ hCurrentTask' = a[1]
  <2>1. Types /\ Keeps(s, s)
    BY KeepsSelf DEF IInv
  <2> QED
    BY <1>1, <1>3, <2>1, Switched
<1>5. /\ frames' \in [Task -> Seq(Frame)] /\ frames'[c] = n
      /\ \A t \in Task \ {c} : frames'[t] = frames[t]
  BY <1>4, NewStack DEF IInv
<1>6. /\ SendFrames' = SendFrames
      /\ \A t \in Task : Keeps(frames[t], frames'[t])
      /\ \A t \in Task, i \in Nat : Alive(frames'[t], i) => Alive(frames[t], i)
  BY <1>4, KeptStack DEF IInv
<1>7. /\ smse' \in [Address -> Info]
      /\ \A b \in Address : smse'[b].send = smse[b].send /\ smse'[b].lpPrev = smse[b].lpPrev
      /\ \A b \in Address : /\ smse'[b].hSendingTask = smse[b].hSendingTask
                            /\ smse'[b].hReceivingTask = smse[b].hReceivingTask
      /\ \A b \in Address : smse'[b].bSendReceived = smse[b].bSendReceived
      /\ smse'[a].lResult = result
      /\ \A b \in Address : b # a => /\ smse'[b].bSendCompleted = smse[b].bSendCompleted
                                     /\ smse'[b].lResult = smse[b].lResult
  <2>1. smse \in [Address -> Info] /\ a \in Address
    BY <1>1 DEF IInv, Types
  <2> HIDE DEF a
  <2>2. smse[a] \in Info
    BY <2>1
  <2>3. [smse[a] EXCEPT !.lResult = result, !.bSendCompleted = TRUE] \in Info
    BY <2>2 DEF Info
  <2>4. \A b \in Address : b # a => smse'[b] = smse[b]
    BY <1>3, <2>1
  <2>5. smse'[a] = [smse[a] EXCEPT !.lResult = result, !.bSendCompleted = TRUE]
    BY <1>3, <2>1
  <2>6. /\ smse'[a].send = smse[a].send /\ smse'[a].lpPrev = smse[a].lpPrev
        /\ smse'[a].hSendingTask = smse[a].hSendingTask
        /\ smse'[a].hReceivingTask = smse[a].hReceivingTask
        /\ smse'[a].bSendReceived = smse[a].bSendReceived /\ smse'[a].lResult = result
    BY <2>2, <2>5 DEF Info
  <2>7. smse' \in [Address -> Info]
    BY <1>3, <2>1, <2>3
  <2> QED
    BY <2>1, <2>4, <2>6, <2>7
<1>8. SendFrames \subseteq Address /\ sends \in 0 .. MaxSends /\ MaxSends \in Nat
  BY SendsOn DEF IInv, Types, SendAssumption
<1> HIDE DEF a
<1>9. UNCHANGED <<lpSendMessageStack, sends, handled, TASK_DELETE_PENDING>>
  OBVIOUS
<1>10. Types'
  BY <1>1, <1>3, <1>4, <1>5, <1>7 DEF IInv, Types
<1>11. StacksOK'
  BY <1>1, <1>4, <1>5, <1>9 DEF IInv, StacksOK
<1>12. InfosOK' /\ Nested'
  <2>1. InfosOK'
    <3>1. \A b \in SendFrames :
              /\ smse'[b].send \in 1 .. sends
              /\ smse'[b].hSendingTask = b[1] /\ smse'[b].hReceivingTask # b[1]
              /\ handled[smse'[b].send] = (IF smse'[b].bSendReceived THEN 1 ELSE 0)
      BY <1>7, <1>8 DEF IInv, InfosOK
    <3>2. \A b, d \in SendFrames : smse'[b].send = smse'[d].send => b = d
      BY <1>7, <1>8 DEF IInv, InfosOK
    <3>3. \A m \in sends + 1 .. MaxSends : handled[m] = 0
      BY DEF IInv, InfosOK
    <3> QED
      BY <1>6, <1>9, <3>1, <3>2, <3>3 DEF InfosOK
  <2>2. Nested'
    BY <1>6, <1>7, <1>8, <1>9 DEF IInv, Nested, LastBefore
  <2> QED
    BY <2>1, <2>2
<1>13. HandlesOK'
  <2> SUFFICES ASSUME NEW t \in Task, NEW i \in Nat,
                      OnStack(frames'[t], i, "Handle"), Alive(frames'[t], i)
               PROVE  LET g == frames'[t][i]
                          b == g.saved_ptr
                      IN  /\ b \in SendFrames
                          /\ smse'[b].send = g.send
                          /\ smse'[b].bSendReceived /\ ~smse'[b].bSendCompleted
                          /\ smse'[b].hReceivingTask = t
                          /\ OnStack(frames'[t], i - 1, "Send") =>
                                 smse'[<<t, i - 1>>].send < g.send
                          /\ \A j \in Nat : /\ OnStack(frames'[t], j, "Handle")
                                            /\ Alive(frames'[t], j)
                                            /\ frames'[t][j].saved_ptr = b
                                            => j = i
    BY <1>6 DEF HandlesOK
  <2>1. \A j \in Nat : OnStack(frames'[t], j, "Handle") /\ Alive(frames'[t], j) =>
            /\ OnStack(frames[t], j, "Handle") /\ Alive(frames[t], j)
            /\ frames'[t][j] = frames[t][j]
    BY <1>6 DEF Keeps
  <2>2. frames'[t][i].saved_ptr # a
    <3>1. CASE t = c
      <4>1. OnStack(s, i, "Handle") /\ Alive(s, i) /\ n[i] = s[i]
        BY <1>4, <1>5, <3>1 DEF Keeps, Alive
      <4> QED
        BY <1>5, <3>1, <4>1 DEF a
    <3>2. CASE t # c
      BY <1>1, <2>1, <3>2, HandleFacts
    <3> QED
      BY <3>1, <3>2
  <2>3. OnStack(frames'[t], i - 1, "Send") =>
            OnStack(frames[t], i - 1, "Send") /\ <<t, i - 1>> \in Address
    <3>1. i - 1 \in Nat
      BY DEF OnStack
    <3> QED
      BY <1>6, <3>1, WaitsOnStack DEF Keeps
  <2>4. OnStack(frames'[t], i - 1, "Send") => smse'[<<t, i - 1>>].send < frames[t][i].send
    BY <1>7, <2>1, <2>3 DEF IInv, HandlesOK
  <2>5. ASSUME NEW j \in Nat, OnStack(frames'[t], j, "Handle"), Alive(frames'[t], j),
               frames'[t][j].saved_ptr = frames'[t][i].saved_ptr
        PROVE  j = i
    BY <2>1, <2>5, HandleAlone
  <2>6. /\ frames'[t][i].saved_ptr \in SendFrames /\ frames'[t][i].saved_ptr \in Address
        /\ smse'[frames'[t][i].saved_ptr].send = frames'[t][i].send
        /\ smse'[frames'[t][i].saved_ptr].bSendReceived
        /\ ~ smse'[frames'[t][i].saved_ptr].bSendCompleted
        /\ smse'[frames'[t][i].saved_ptr].hReceivingTask = t
    <3> DEFINE d == frames[t][i].saved_ptr
    <3>1. /\ d \in SendFrames /\ d \in Address /\ smse[d].send = frames[t][i].send
          /\ smse[d].bSendReceived /\ ~ smse[d].bSendCompleted /\ smse[d].hReceivingTask = t
      BY <1>8, <2>1, HandleFacts
    <3>2. d = frames'[t][i].saved_ptr /\ d # a /\ frames'[t][i] = frames[t][i]
      BY <2>1, <2>2
    <3> HIDE DEF d
    <3> QED
      BY <1>7, <3>1, <3>2
  <2> QED
    BY <2>1, <2>4, <2>5, <2>6
<1>14. CompletedOK'
  <2> SUFFICES ASSUME NEW b \in SendFrames, smse'[b].bSendCompleted, Alive(frames'[b[1]], b[2])
               PROVE  /\ b = lpSendMessageStack'
                      /\ hCurrentTask' = b[1]
                      /\ \A j \in b[2] + 1 .. Len(frames'[b[1]]) :
                             frames'[b[1]][j].at = "Switch"
    BY <1>6 DEF CompletedOK
  <2>1. b[1] \in Task /\ b[2] \in Nat
    BY <1>8, Addresses
  <2>2. b = a
    BY <1>2, <1>6, <1>7, <1>8, <2>1
  <2> DEFINE t == a[1]
             i == a[2]
  <2>3. /\ t \in Task /\ t # c /\ frames'[t] = frames[t] /\ frames[t] \in Seq(Frame)
        /\ OnStack(frames[t], i, "Send") /\ Alive(frames[t], i) /\ i \in Nat
        /\ Len(frames[t]) \in Nat
    BY <1>1, <1>5, <2>2, SendsOn DEF IInv, Types
  <2> HIDE DEF t, i
  <2>4. i < Len(frames[t]) => frames[t][i + 1].at = "Switch"
    <3> SUFFICES ASSUME i < Len(frames[t]), frames[t][i + 1].at = "Handle"
                 PROVE  FALSE
      BY <2>3 DEF IInv, StacksOK, StackOK, OnStack
    <3>1. OnStack(frames[t], i + 1, "Handle") /\ Alive(frames[t], i + 1) /\ i + 1 \in Nat
          /\ (i + 1) - 1 = i
      BY <2>3 DEF OnStack, Alive
    <3> DEFINE d == frames[t][i + 1].saved_ptr
    <3>2. d \in SendFrames /\ smse[<<t, i>>].send < smse[d].send
      <4>1. d \in SendFrames /\ smse[d].send = frames[t][i + 1].send
        BY <2>3, <3>1, HandleFacts
      <4>2. smse[<<t, i>>].send < frames[t][i + 1].send
        BY <2>3, <3>1, HandleOver
      <4> HIDE DEF d
      <4> QED
        BY <4>1, <4>2
    <3> HIDE DEF d
    <3>3. <<t, i>> = a
      BY <1>1, Addresses DEF t, i
    <3>4. smse[d].send <= smse[a].send
      BY <1>1, <3>2, TopSend DEF a, ForMe
    <3>5. smse[d].send \in Nat /\ smse[a].send \in Nat
      <4>1. InfosOK
        BY DEF IInv
      <4>2. smse[d].send \in 1 .. sends /\ smse[a].send \in 1 .. sends /\ sends \in Nat
        BY <1>1, <1>8, <3>2, <4>1 DEF InfosOK
      <4> QED
        BY <4>2
    <3>6. smse[a].send < smse[d].send
      BY <3>2, <3>3
    <3> QED
      BY <3>4, <3>5, <3>6
  <2>5. i + 1 < Len(frames[t]) => FALSE
    BY <2>3, <2>4 DEF IInv, StacksOK, StackOK
  <2>6. \A j \in i + 1 .. Len(frames[t]) : frames[t][j].at = "Switch"
    BY <2>3, <2>4, <2>5
  <2> QED
    BY <1>4, <1>9, <2>2, <2>3, <2>6 DEF a, t, i
<1>15. RightReply'
  <2> SUFFICES ASSUME NEW b \in SendFrames, smse'[b].bSendCompleted
               PROVE  \/ smse'[b].lResult = smse'[b].send /\ handled[smse'[b].send] = 1
                      \/ smse'[b].lResult = 0 /\ smse'[b].hReceivingTask \in TASK_DELETE_PENDING
    BY <1>6, <1>9 DEF IInv, RightReply, HandledOnce
  <2>1. CASE b = a
    BY <1>1, <1>7, <2>1 DEF IInv, InfosOK, a
  <2>2. CASE b # a
    BY <1>7, <1>8, <2>2 DEF IInv, RightReply
  <2> QED
    BY <2>1, <2>2
<1> QED
  BY <1>10, <1>11, <1>12, <1>13, <1>14, <1>15 DEF IInv

----------------------------------------------------------------------------
\* Sending a message

LEMMA SendStep ==
    ASSUME SendAssumption, IInv, NEW t \in Task, SendMessage(t)
    PROVE  IInv'
<1> DEFINE k == Len(Here) + 1
           a == <<c, k>>
           s == Append(Here, Send(bInSendMessage))
           n == Append(s, Switch)
<1>1. /\ c \in Task /\ Here \in Seq(Frame) /\ Here = frames[c] /\ StackOK(Here)
      /\ bInSendMessage \in BOOLEAN /\ sends \in Nat /\ MaxSends \in Nat /\ sends < MaxSends
      /\ Len(Here) \in Nat /\ k \in Nat /\ k <= MaxDepth /\ a \in Address /\ t # c
      /\ Here = <<>> \/ Here[Len(Here)].at = "Handle"
  <2>1. a \in Address /\ (Here = <<>> \/ Handling) /\ t # c /\ sends < MaxSends
    BY DEF SendMessage, Running
  <2>2. k <= MaxDepth
    BY <2>1, Addresses
  <2> QED
    BY <2>1, <2>2 DEF IInv, Types, StacksOK, SendAssumption, c, Here, Handling, At
<1>2. NoneAnswered
  BY <1>1, Busy DEF Top
<1>3. /\ s \in Seq(Frame) /\ StackOK(s) /\ Len(s) = k /\ s[k] = Send(bInSendMessage)
      /\ \A i \in 1 .. Len(Here) : s[i] = Here[i]
  <2>1. /\ Send(bInSendMessage) \in Frame /\ Send(bInSendMessage).at = "Send"
        /\ Awake(Here)
    BY <1>1, FrameTypes, Constructors DEF Awake
  <2> QED
    BY <1>1, <2>1, Push
<1> HIDE DEF s
<1>4. /\ n \in Seq(Frame) /\ StackOK(n) /\ Len(n) = k + 1 /\ n[k + 1] = Switch
      /\ \A i \in 1 .. k : n[i] = s[i]
  <2>1. Awake(s) /\ Switch \in Frame /\ Switch.at = "Switch" /\ s[Len(s)].at = "Send"
    BY <1>1, <1>3, FrameTypes, Constructors DEF Awake
  <2> QED
    BY <1>1, <1>3, <2>1, Push
<1> HIDE DEF n
<1>5. /\ frames' = [frames EXCEPT ![c] = n] /\ hCurrentTask' = t
      /\ smse' = [smse EXCEPT ![a] = NewInfo(t, sends + 1)]
      /\ lpSendMessageStack' = a /\ sends' = sends + 1 /\ bInSendMessage' = TRUE
      /\ UNCHANGED <<lpTaskHead, handled, TASK_DELETE_PENDING>>
  <2>1. DirectedYield(t, Pushed(Send(bInSendMessage))) /\ t # c
    BY DEF SendMessage
  <2>2. /\ frames' = [Pushed(Send(bInSendMessage)) EXCEPT ![c] = Append(@, Switch)]
        /\ hCurrentTask' = t /\ UNCHANGED lpTaskHead
    BY <2>1 DEF DirectedYield, SwitchTo
  <2>3. Pushed(Send(bInSendMessage)) = [frames EXCEPT ![c] = s]
    BY <1>1 DEF Pushed, s, Here
  <2>4. frames' = [frames EXCEPT ![c] = n]
    BY <1>1, <2>2, <2>3 DEF n, IInv, Types
  <2> QED
    BY <2>2, <2>4 DEF SendMessage, ends
<1>6. /\ frames' \in [Task -> Seq(Frame)] /\ frames'[c] = n
      /\ \A u \in Task \ {c} : frames'[u] = frames[u]
  BY <1>4, <1>5, NewStack DEF IInv
<1>7. /\ \A i \in Nat : OnStack(n, i, "Send") <=> OnStack(Here, i, "Send") \/ i = k
      /\ \A i \in Nat : OnStack(n, i, "Handle") <=> OnStack(Here, i, "Handle")
      /\ \A i \in Nat : OnStack(n, i, "Delete") <=> OnStack(Here, i, "Delete")
      /\ \A i \in Nat : OnStack(Here, i, "Handle") => n[i] = Here[i]
      /\ ~ OnStack(Here, k, "Send")
  <2>1. k = Len(Here) + 1
    OBVIOUS
  <2> HIDE DEF k
  <2>2. k \in 1 .. k /\ \A i \in 1 .. Len(Here) : i \in 1 .. k
    BY <1>1, <2>1
  <2>3. /\ n[k].at = "Send" /\ n[k + 1].at = "Switch"
        /\ \A i \in 1 .. Len(Here) : n[i] = Here[i]
    BY <1>3, <1>4, <2>2, Constructors
  <2>4. /\ \A i \in 1 .. k + 1 : i \in 1 .. Len(Here) \/ i = k \/ i = k + 1
        /\ \A i \in 1 .. Len(Here) : i \in 1 .. k + 1
        /\ k \notin 1 .. Len(Here) /\ k \in 1 .. k + 1
    BY <1>1, <2>1
  <2>5. \A i \in Nat, place \in {"Handle", "Delete"} :
            OnStack(n, i, place) <=> OnStack(Here, i, place)
    BY <1>4, <2>3, <2>4 DEF OnStack
  <2>6. \A i \in Nat : OnStack(n, i, "Send") <=> OnStack(Here, i, "Send") \/ i = k
    BY <1>4, <2>3, <2>4 DEF OnStack
  <2>7. /\ \A i \in Nat : OnStack(Here, i, "Handle") => n[i] = Here[i]
        /\ ~ OnStack(Here, k, "Send")
    BY <2>3, <2>4 DEF OnStack
  <2> QED
    BY <2>5, <2>6, <2>7
<1>8. /\ SendFrames' = SendFrames \cup {a} /\ a \notin SendFrames
      /\ SendFrames \subseteq Address
  <2>1. SendFrames' = {b \in Address : OnStack(frames'[b[1]], b[2], "Send")}
    BY Addresses DEF SendFrames, OnStack, Address
  <2>2. a[1] = c /\ a[2] = k
    OBVIOUS
  <2>3. \A b \in Address : OnStack(frames'[b[1]], b[2], "Send")
                              <=> OnStack(frames[b[1]], b[2], "Send") \/ b = a
    <3> TAKE b \in Address
    <3>1. b[1] \in Task /\ b[2] \in Nat /\ b = <<b[1], b[2]>>
      BY Addresses
    <3>2. CASE b[1] = c
      BY <1>1, <1>6, <1>7, <3>1, <3>2
    <3>3. CASE b[1] # c
      BY <1>6, <3>1, <3>3, <2>2
    <3> QED
      BY <3>2, <3>3
  <2>4. a \notin SendFrames
    BY <1>1, <1>7, <2>2, SendsOn
  <2> QED
    BY <1>1, <2>1, <2>3, <2>4, SendsOn
<1>9. /\ smse' \in [Address -> Info]
      /\ \A b \in SendFrames : smse'[b] = smse[b]
      /\ smse'[a].send = sends + 1 /\ smse'[a].lpPrev = lpSendMessageStack
      /\ smse'[a].hSendingTask = c /\ smse'[a].hReceivingTask = t
      /\ ~ smse'[a].bSendReceived /\ ~ smse'[a].bSendCompleted
  <2>1. NewInfo(t, sends + 1) \in Info
    BY <1>1 DEF NewInfo, Info, IInv, Types
  <2>2. /\ NewInfo(t, sends + 1).send = sends + 1
        /\ NewInfo(t, sends + 1).lpPrev = lpSendMessageStack
        /\ NewInfo(t, sends + 1).hSendingTask = c /\ NewInfo(t, sends + 1).hReceivingTask = t
        /\ ~ NewInfo(t, sends + 1).bSendReceived /\ ~ NewInfo(t, sends + 1).bSendCompleted
    BY DEF NewInfo
  <2>3. smse'[a] = NewInfo(t, sends + 1) /\ \A b \in Address : b # a => smse'[b] = smse[b]
    BY <1>1, <1>5 DEF IInv, Types
  <2>4. smse' \in [Address -> Info]
    BY <1>1, <1>5, <2>1 DEF IInv, Types
  <2> QED
    BY <1>8, <2>2, <2>3, <2>4
<1>10. \A u \in Task, i \in Nat : Alive(frames'[u], i) <=> Alive(frames[u], i)
  BY <1>1, <1>6, <1>7 DEF Alive
<1>11. \A b \in SendFrames : /\ smse[b].send \in 1 .. sends /\ smse[b].send \in Nat
                             /\ b[1] \in Task /\ b[2] \in Nat
  BY <1>1, <1>8, Addresses DEF IInv, InfosOK
<1>12. a[1] = c /\ a[2] = k
  OBVIOUS
<1> HIDE DEF a, k
<1>13. Types'
  BY <1>1, <1>5, <1>6, <1>9 DEF IInv, Types
<1>14. StacksOK'
  BY <1>1, <1>4, <1>5, <1>6, <1>7 DEF IInv, StacksOK
<1>15. InfosOK'
  <2>1. ASSUME NEW b \in SendFrames \cup {a}
        PROVE  /\ smse'[b].send \in 1 .. sends + 1
               /\ smse'[b].hSendingTask = b[1] /\ smse'[b].hReceivingTask # b[1]
               /\ handled[smse'[b].send] = (IF smse'[b].bSendReceived THEN 1 ELSE 0)
    <3>1. CASE b = a
      <4>1. sends + 1 \in sends + 1 .. MaxSends
        BY <1>1
      <4> QED
        BY <1>1, <1>9, <1>12, <3>1, <4>1 DEF IInv, InfosOK
    <3>2. CASE b # a
      BY <1>1, <1>9, <1>11, <3>2 DEF IInv, InfosOK
    <3> QED
      BY <3>1, <3>2
  <2>2. \A b, d \in SendFrames \cup {a} : smse'[b].send = smse'[d].send => b = d
    <3>1. \A b \in SendFrames : smse'[b].send # smse'[a].send
      BY <1>1, <1>9, <1>11
    <3>2. \A b, d \in SendFrames : smse'[b].send = smse'[d].send => b = d
      BY <1>9 DEF IInv, InfosOK
    <3> QED
      BY <3>1, <3>2
  <2>3. \A m \in (sends + 1) + 1 .. MaxSends : handled[m] = 0
    <3>1. \A m \in (sends + 1) + 1 .. MaxSends : m \in sends + 1 .. MaxSends
      BY <1>1
    <3> QED
      BY <3>1 DEF IInv, InfosOK
  <2> QED
    BY <1>5, <1>8, <2>1, <2>2, <2>3 DEF InfosOK
<1>16. Nested'
  <2>1. /\ a \in SendFrames' /\ smse'[a].send < (sends + 1) + 1
        /\ \A b \in SendFrames' : smse'[b].send <= smse'[a].send
    <3>1. \A b \in SendFrames : smse'[b].send <= smse'[a].send
      BY <1>1, <1>9, <1>11
    <3>2. smse'[a].send < (sends + 1) + 1 /\ smse'[a].send <= smse'[a].send
      BY <1>1, <1>9
    <3> QED
      BY <1>8, <3>1, <3>2
  <2>2. ASSUME NEW b \in SendFrames'
        PROVE  \/ smse'[b].lpPrev = Null /\ \A d \in SendFrames' : smse'[d].send >= smse'[b].send
               \/ /\ smse'[b].lpPrev \in SendFrames'
                  /\ smse'[smse'[b].lpPrev].send < smse'[b].send
                  /\ \A d \in SendFrames' : smse'[d].send < smse'[b].send =>
                                                smse'[d].send <= smse'[smse'[b].lpPrev].send
    <3>1. CASE b = a
      <4>1. LastBefore(lpSendMessageStack, sends + 1)
        BY DEF IInv, Nested
      <4>2. ~ (smse'[a].send < smse'[a].send) /\ smse'[a].send >= smse'[a].send
        BY <1>1, <1>9
      <4>3. CASE lpSendMessageStack = Null /\ \A d \in SendFrames : smse[d].send >= sends + 1
        BY <1>8, <1>9, <3>1, <4>2, <4>3
      <4>4. CASE /\ lpSendMessageStack \in SendFrames /\ smse[lpSendMessageStack].send < sends + 1
                 /\ \A d \in SendFrames : smse[d].send < sends + 1 =>
                                             smse[d].send <= smse[lpSendMessageStack].send
        BY <1>8, <1>9, <3>1, <4>2, <4>4
      <4> QED
        BY <4>1, <4>3, <4>4 DEF LastBefore
    <3>2. CASE b # a
      <4>1. LastBefore(smse[b].lpPrev, smse[b].send) /\ b \in SendFrames
        BY <1>8, <3>2 DEF IInv, Nested
      <4>2. ~ (smse'[a].send < smse[b].send) /\ smse'[a].send >= smse[b].send
        BY <1>1, <1>9, <1>11, <4>1
      <4>3. CASE smse[b].lpPrev = Null /\ \A d \in SendFrames : smse[d].send >= smse[b].send
        BY <1>8, <1>9, <4>1, <4>2, <4>3
      <4>4. CASE /\ smse[b].lpPrev \in SendFrames /\ smse[smse[b].lpPrev].send < smse[b].send
                 /\ \A d \in SendFrames : smse[d].send < smse[b].send =>
                                             smse[d].send <= smse[smse[b].lpPrev].send
        BY <1>8, <1>9, <4>1, <4>2, <4>4
      <4> QED
        BY <4>1, <4>3, <4>4 DEF LastBefore
    <3> QED
      BY <3>1, <3>2
  <2> QED
    BY <1>5, <2>1, <2>2 DEF Nested, LastBefore
<1>17. HandlesOK'
  <2> SUFFICES ASSUME NEW u \in Task, NEW i \in Nat,
                      OnStack(frames'[u], i, "Handle"), Alive(frames'[u], i)
               PROVE  LET h == frames'[u][i]
                          b == h.saved_ptr
                      IN  /\ b \in SendFrames'
                          /\ smse'[b].send = h.send
                          /\ smse'[b].bSendReceived /\ ~smse'[b].bSendCompleted
                          /\ smse'[b].hReceivingTask = u
                          /\ OnStack(frames'[u], i - 1, "Send") =>
                                 smse'[<<u, i - 1>>].send < h.send
                          /\ \A j \in Nat : /\ OnStack(frames'[u], j, "Handle")
                                            /\ Alive(frames'[u], j)
                                            /\ frames'[u][j].saved_ptr = b
                                            => j = i
    BY DEF HandlesOK
  <2>1. \A j \in Nat : OnStack(frames'[u], j, "Handle") /\ Alive(frames'[u], j) =>
            /\ OnStack(frames[u], j, "Handle") /\ Alive(frames[u], j)
            /\ frames'[u][j] = frames[u][j]
    BY <1>1, <1>6, <1>7, <1>10
  <2>2. OnStack(frames'[u], i - 1, "Send") =>
            OnStack(frames[u], i - 1, "Send") /\ <<u, i - 1>> \in SendFrames
    <3> SUFFICES ASSUME OnStack(frames'[u], i - 1, "Send")
                 PROVE  OnStack(frames[u], i - 1, "Send") /\ <<u, i - 1>> \in SendFrames
      OBVIOUS
    <3>1. i - 1 \in Nat
      BY DEF OnStack
    <3>2. u = c => i - 1 # k
      <4> SUFFICES ASSUME u = c, i = k + 1
                   PROVE  FALSE
        BY <1>1, <3>1
      <4> QED
        BY <1>4, <1>6, Constructors DEF OnStack
    <3>3. OnStack(frames[u], i - 1, "Send")
      BY <1>1, <1>6, <1>7, <3>1, <3>2
    <3> QED
      BY <3>1, <3>3, WaitsOnStack
  <2>3. OnStack(frames'[u], i - 1, "Send") => smse'[<<u, i - 1>>].send < frames[u][i].send
    BY <1>9, <2>1, <2>2 DEF IInv, HandlesOK
  <2>4. ASSUME NEW j \in Nat, OnStack(frames'[u], j, "Handle"), Alive(frames'[u], j),
               frames'[u][j].saved_ptr = frames'[u][i].saved_ptr
        PROVE  j = i
    BY <2>1, <2>4, HandleAlone
  <2>5. /\ frames'[u][i].saved_ptr \in SendFrames'
        /\ smse'[frames'[u][i].saved_ptr].send = frames'[u][i].send
        /\ smse'[frames'[u][i].saved_ptr].bSendReceived
        /\ ~ smse'[frames'[u][i].saved_ptr].bSendCompleted
        /\ smse'[frames'[u][i].saved_ptr].hReceivingTask = u
    BY <1>8, <1>9, <2>1, HandleFacts
  <2> QED
    BY <2>1, <2>3, <2>4, <2>5
<1>18. CompletedOK'
  <2> SUFFICES ASSUME NEW b \in SendFrames', smse'[b].bSendCompleted, Alive(frames'[b[1]], b[2])
               PROVE  FALSE
    BY DEF CompletedOK
  <2>1. b \in SendFrames /\ smse[b].bSendCompleted
    BY <1>8, <1>9
  <2>2. Alive(frames[b[1]], b[2])
    BY <1>10, <1>11, <2>1
  <2> QED
    BY <1>2, <2>1, <2>2 DEF NoneAnswered
<1>19. RightReply'
  <2>1. \A b \in SendFrames' : smse'[b].bSendCompleted => b \in SendFrames /\ smse'[b] = smse[b]
    BY <1>8, <1>9
  <2> QED
    BY <1>5, <2>1 DEF IInv, RightReply, HandledOnce
<1> QED
  BY <1>13, <1>14, <1>15, <1>16, <1>17, <1>18, <1>19 DEF IInv

----------------------------------------------------------------------------
\* Returning from SendMessage

LEMMA ReturnStep ==
    ASSUME SendAssumption, IInv, SendReturn
    PROVE  IInv'
<1> DEFINE k == Len(Here)
           a == <<c, k>>
           s == Below(Here)
<1>1. /\ c \in Task /\ Here \in Seq(Frame) /\ Here = frames[c] /\ StackOK(Here)
      /\ Here # <<>> /\ Here[k].at = "Send" /\ Top = Here[k] /\ k \in Nat /\ k \in 1 .. k
      /\ smse[a].bSendCompleted /\ \A i \in 1 .. k : Here[i] \in Frame
      /\ MaxSends \in Nat /\ sends \in Nat /\ sends <= MaxSends
  <2>1. c \in Task /\ Here \in Seq(Frame) /\ Here = frames[c] /\ StackOK(Here)
    BY DEF IInv, Types, StacksOK, c, Here
  <2>2. /\ Here # <<>> /\ Here[k].at = "Send" /\ Top = Here[k]
        /\ smse[a].bSendCompleted
    BY DEF SendReturn, At, Top
  <2>3. k \in Nat \ {0} /\ \A i \in 1 .. k : Here[i] \in Frame
    BY <2>1, <2>2, EmptySeq, ElementOfSeq
  <2> QED
    BY <2>1, <2>2, <2>3 DEF IInv, Types, SendAssumption
<1>2. a \in SendFrames /\ a \in Address /\ a[1] = c /\ a[2] = k
  <2>1. OnStack(frames[c], k, "Send")
    BY <1>1 DEF OnStack
  <2> QED
    BY <1>1, <2>1, WaitsOnStack
<1>3. a = lpSendMessageStack
  <2>1. Alive(Here, k)
    BY <1>1 DEF Alive, OnStack
  <2> QED
    BY <1>1, <1>2, <2>1 DEF IInv, CompletedOK
<1>4. /\ s \in Seq(Frame) /\ StackOK(s) /\ Len(s) = k - 1
      /\ \A i \in 1 .. k - 1 : s[i] = Here[i]
  BY <1>1, Pop
<1>5. /\ frames' = [frames EXCEPT ![c] = s] /\ lpSendMessageStack' = smse[a].lpPrev
      /\ smse' = [smse EXCEPT ![a] = NoInfo] /\ bInSendMessage' \in BOOLEAN
      /\ UNCHANGED <<lpTaskHead, hCurrentTask, sends, handled, TASK_DELETE_PENDING>>
  <2>1. frames' = [frames EXCEPT ![c] = s]
    BY <1>1 DEF SendReturn, Popped, Below, Here
  <2>2. bInSendMessage' \in BOOLEAN
    BY <1>1, FrameFields DEF SendReturn
  <2> QED
    BY <2>1, <2>2 DEF SendReturn, ends
<1> HIDE DEF s
<1>6. /\ frames' \in [Task -> Seq(Frame)] /\ frames'[c] = s
      /\ \A u \in Task \ {c} : frames'[u] = frames[u]
  BY <1>4, <1>5, NewStack DEF IInv
<1>7. /\ \A i \in Nat : OnStack(s, i, "Send") <=> OnStack(Here, i, "Send") /\ i # k
      /\ \A i \in Nat : OnStack(s, i, "Handle") <=> OnStack(Here, i, "Handle")
      /\ \A i \in Nat : OnStack(s, i, "Delete") <=> OnStack(Here, i, "Delete")
      /\ \A i \in Nat : OnStack(Here, i, "Handle") => s[i] = Here[i]
  <2>1. k = Len(Here)
    OBVIOUS
  <2> HIDE DEF k
  <2>2. \A i \in Nat : i \in 1 .. k - 1 <=> i \in 1 .. k /\ i # k
    BY <1>1
  <2>3. \A i \in Nat, place \in {"Handle", "Delete"} : OnStack(s, i, place) <=> OnStack(Here, i, place)
    BY <1>1, <1>4, <2>1, <2>2 DEF OnStack
  <2>4. \A i \in Nat : OnStack(s, i, "Send") <=> OnStack(Here, i, "Send") /\ i # k
    BY <1>1, <1>4, <2>1, <2>2 DEF OnStack
  <2>5. \A i \in Nat : OnStack(Here, i, "Handle") => s[i] = Here[i]
    BY <1>1, <1>4, <2>1, <2>2 DEF OnStack
  <2> QED
    BY <2>3, <2>4, <2>5
<1>8. SendFrames' = SendFrames \ {a} /\ SendFrames \subseteq Address
  <2>1. SendFrames' = {b \in Address : OnStack(frames'[b[1]], b[2], "Send")}
    BY Addresses DEF SendFrames, OnStack, Address
  <2>2. \A b \in Address : OnStack(frames'[b[1]], b[2], "Send")
                              <=> OnStack(frames[b[1]], b[2], "Send") /\ b # a
    <3> TAKE b \in Address
    <3>1. b[1] \in Task /\ b[2] \in Nat /\ b = <<b[1], b[2]>>
      BY Addresses
    <3>2. CASE b[1] = c
      BY <1>1, <1>6, <1>7, <3>1, <3>2
    <3>3. CASE b[1] # c
      BY <1>2, <1>6, <3>1, <3>3
    <3> QED
      BY <3>2, <3>3
  <2> QED
    BY <2>1, <2>2, SendsOn
<1>9. /\ smse' \in [Address -> Info] /\ \A b \in SendFrames' : smse'[b] = smse[b]
      /\ smse[a].lpPrev \in Address \cup {Null}
  <2>1. NoInfo \in Info
    BY TaskAssumption DEF NoInfo, Info, Null, TaskAssumption, SendAssumption
  <2> QED
    BY <1>2, <1>5, <1>8, <2>1 DEF IInv, Types, Info
<1>10. \A u \in Task, i \in Nat : Alive(frames'[u], i) <=> Alive(frames[u], i)
  BY <1>1, <1>6, <1>7 DEF Alive
<1>11. /\ \A b \in SendFrames : smse[b].send \in 1 .. sends /\ smse[b].send \in Nat
       /\ \A b \in SendFrames : b[1] \in Task /\ b[2] \in Nat
       /\ \A b \in SendFrames' : smse[b].send < smse[a].send
  <2>1. \A b \in SendFrames : smse[b].send \in 1 .. sends /\ smse[b].send \in Nat
    BY <1>1 DEF IInv, InfosOK
  <2>2. \A b \in SendFrames' : smse[b].send < smse[a].send
    BY <1>3, <1>8, <1>2, Addresses, TopSend
  <2> QED
    BY <1>8, <2>1, <2>2, Addresses
<1> HIDE DEF a, k
<1>12. Types'
  BY <1>5, <1>6, <1>9 DEF IInv, Types
<1>13. StacksOK'
  BY <1>1, <1>4, <1>5, <1>6, <1>7 DEF IInv, StacksOK
<1>14. InfosOK'
  <2>1. \A b \in SendFrames' :
            /\ smse'[b].send \in 1 .. sends
            /\ smse'[b].hSendingTask = b[1] /\ smse'[b].hReceivingTask # b[1]
            /\ handled[smse'[b].send] = (IF smse'[b].bSendReceived THEN 1 ELSE 0)
    BY <1>8, <1>9 DEF IInv, InfosOK
  <2>2. \A b, d \in SendFrames' : smse'[b].send = smse'[d].send => b = d
    BY <1>8, <1>9 DEF IInv, InfosOK
  <2>3. \A m \in sends + 1 .. MaxSends : handled[m] = 0
    BY DEF IInv, InfosOK
  <2> QED
    BY <1>5, <2>1, <2>2, <2>3 DEF InfosOK
<1>15. Nested'
  <2> DEFINE p == smse[a].lpPrev
  <2>1. \/ p = Null /\ \A d \in SendFrames' : smse'[d].send >= sends + 1
        \/ /\ p \in SendFrames' /\ smse'[p].send < sends + 1
           /\ \A d \in SendFrames' : smse'[d].send < sends + 1 => smse'[d].send <= smse'[p].send
    <3>1. CASE p = Null /\ \A d \in SendFrames : smse[d].send >= smse[a].send
      <4>1. SendFrames' = {}
        BY <1>2, <1>8, <1>11, <3>1
      <4> QED
        BY <3>1, <4>1
    <3>2. CASE /\ p \in SendFrames /\ smse[p].send < smse[a].send
               /\ \A d \in SendFrames : smse[d].send < smse[a].send => smse[d].send <= smse[p].send
      <4>1. p \in SendFrames' /\ smse[p].send < sends + 1
        BY <1>1, <1>2, <1>8, <1>11, <3>2
      <4>2. \A d \in SendFrames' : smse[d].send <= smse[p].send
        BY <1>8, <1>11, <3>2
      <4> QED
        BY <1>9, <4>1, <4>2
    <3> QED
      BY <1>2, <3>1, <3>2 DEF IInv, Nested, LastBefore
  <2>2. ASSUME NEW b \in SendFrames'
        PROVE  \/ smse'[b].lpPrev = Null /\ \A d \in SendFrames' : smse'[d].send >= smse'[b].send
               \/ /\ smse'[b].lpPrev \in SendFrames'
                  /\ smse'[smse'[b].lpPrev].send < smse'[b].send
                  /\ \A d \in SendFrames' : smse'[d].send < smse'[b].send =>
                                                smse'[d].send <= smse'[smse'[b].lpPrev].send
    <3>1. LastBefore(smse[b].lpPrev, smse[b].send) /\ b \in SendFrames /\ smse'[b] = smse[b]
      BY <1>8, <1>9 DEF IInv, Nested
    <3>2. ~ (smse[a].send < smse[b].send)
      BY <1>2, <1>11, <3>1
    <3>3. CASE smse[b].lpPrev = Null /\ \A d \in SendFrames : smse[d].send >= smse[b].send
      BY <1>8, <1>9, <3>1, <3>3
    <3>4. CASE /\ smse[b].lpPrev \in SendFrames /\ smse[smse[b].lpPrev].send < smse[b].send
               /\ \A d \in SendFrames : smse[d].send < smse[b].send =>
                                           smse[d].send <= smse[smse[b].lpPrev].send
      BY <1>8, <1>9, <3>1, <3>2, <3>4
    <3> QED
      BY <3>1, <3>3, <3>4 DEF LastBefore
  <2> QED
    BY <1>5, <2>1, <2>2 DEF Nested, LastBefore
<1>16. HandlesOK'
  <2> SUFFICES ASSUME NEW u \in Task, NEW i \in Nat,
                      OnStack(frames'[u], i, "Handle"), Alive(frames'[u], i)
               PROVE  LET h == frames'[u][i]
                          b == h.saved_ptr
                      IN  /\ b \in SendFrames'
                          /\ smse'[b].send = h.send
                          /\ smse'[b].bSendReceived /\ ~smse'[b].bSendCompleted
                          /\ smse'[b].hReceivingTask = u
                          /\ OnStack(frames'[u], i - 1, "Send") =>
                                 smse'[<<u, i - 1>>].send < h.send
                          /\ \A j \in Nat : /\ OnStack(frames'[u], j, "Handle")
                                            /\ Alive(frames'[u], j)
                                            /\ frames'[u][j].saved_ptr = b
                                            => j = i
    BY DEF HandlesOK
  <2>1. \A j \in Nat : OnStack(frames'[u], j, "Handle") /\ Alive(frames'[u], j) =>
            /\ OnStack(frames[u], j, "Handle") /\ Alive(frames[u], j)
            /\ frames'[u][j] = frames[u][j]
    BY <1>1, <1>6, <1>7, <1>10
  <2>2. OnStack(frames'[u], i - 1, "Send") =>
            OnStack(frames[u], i - 1, "Send") /\ <<u, i - 1>> \in SendFrames'
    <3> SUFFICES ASSUME OnStack(frames'[u], i - 1, "Send")
                 PROVE  OnStack(frames[u], i - 1, "Send") /\ <<u, i - 1>> \in SendFrames'
      OBVIOUS
    <3>1. i - 1 \in Nat
      BY DEF OnStack
    <3>2. OnStack(frames[u], i - 1, "Send") /\ (u = c => i - 1 # k)
      BY <1>1, <1>6, <1>7, <3>1
    <3>3. <<u, i - 1>> \in SendFrames
      BY <3>1, <3>2, WaitsOnStack
    <3>4. <<u, i - 1>> # a
      BY <3>2 DEF a
    <3> QED
      BY <1>8, <3>2, <3>3, <3>4
  <2>3. OnStack(frames'[u], i - 1, "Send") => smse'[<<u, i - 1>>].send < frames[u][i].send
    BY <1>9, <2>1, <2>2 DEF IInv, HandlesOK
  <2>4. ASSUME NEW j \in Nat, OnStack(frames'[u], j, "Handle"), Alive(frames'[u], j),
               frames'[u][j].saved_ptr = frames'[u][i].saved_ptr
        PROVE  j = i
    BY <2>1, <2>4, HandleAlone
  <2>5. frames'[u][i].saved_ptr # a
    BY <1>1, <2>1, HandleFacts
  <2>6. /\ frames'[u][i].saved_ptr \in SendFrames'
        /\ smse'[frames'[u][i].saved_ptr].send = frames'[u][i].send
        /\ smse'[frames'[u][i].saved_ptr].bSendReceived
        /\ ~ smse'[frames'[u][i].saved_ptr].bSendCompleted
        /\ smse'[frames'[u][i].saved_ptr].hReceivingTask = u
    BY <1>8, <1>9, <2>1, <2>5, HandleFacts
  <2> QED
    BY <2>1, <2>3, <2>4, <2>6
<1>17. CompletedOK'
  <2> SUFFICES ASSUME NEW b \in SendFrames', smse'[b].bSendCompleted, Alive(frames'[b[1]], b[2])
               PROVE  FALSE
    BY DEF CompletedOK
  <2>1. b \in SendFrames /\ b # a /\ smse[b].bSendCompleted
    BY <1>8, <1>9
  <2>2. Alive(frames[b[1]], b[2])
    BY <1>10, <1>11, <2>1
  <2> QED
    BY <1>3, <2>1, <2>2 DEF IInv, CompletedOK
<1>18. RightReply'
  BY <1>5, <1>8, <1>9 DEF IInv, RightReply, HandledOnce
<1> QED
  BY <1>12, <1>13, <1>14, <1>15, <1>16, <1>17, <1>18 DEF IInv

----------------------------------------------------------------------------
\* The actions

invVars == <<lpTaskHead, hCurrentTask, frames, smse, lpSendMessageStack, bInSendMessage,
             sends, handled, TASK_DELETE_PENDING>>

LEMMA Same ==
    ASSUME IInv, UNCHANGED invVars
    PROVE  IInv'
<1>1. Types' /\ StacksOK'
  BY DEF IInv, invVars, Types, StacksOK
<1>2. SendFrames' = SendFrames
  BY DEF SendFrames, invVars
<1>3. InfosOK' /\ Nested'
  BY <1>2 DEF IInv, invVars, InfosOK, Nested, LastBefore
<1>4. HandlesOK'
  BY <1>2 DEF IInv, invVars, HandlesOK
<1>5. CompletedOK' /\ RightReply'
  BY <1>2 DEF IInv, invVars, CompletedOK, RightReply, HandledOnce
<1> QED
  BY <1>1, <1>3, <1>4, <1>5 DEF IInv

LEMMA Current ==
    ASSUME SendAssumption, IInv
    PROVE  /\ Types /\ c \in Task /\ Here \in Seq(Frame) /\ Here = frames[c] /\ StackOK(Here)
           /\ frames = [frames EXCEPT ![c] = Here] /\ Keeps(Here, Here)
           /\ \A i \in Nat : OnStack(Here, i, "Delete") => c \in TASK_DELETE_PENDING
           /\ Here # <<>> => /\ Len(Here) \in Nat \ {0} /\ Top \in Frame /\ Top = Here[Len(Here)]
                             /\ OnStack(Here, Len(Here), Top.at)
                             /\ Popped = [frames EXCEPT ![c] = Below(Here)]
<1>1. /\ Types /\ c \in Task /\ Here \in Seq(Frame) /\ Here = frames[c] /\ StackOK(Here)
      /\ \A i \in Nat : OnStack(Here, i, "Delete") => c \in TASK_DELETE_PENDING
  BY DEF IInv, Types, StacksOK, c, Here
<1>2. frames = [frames EXCEPT ![c] = Here]
  BY <1>1 DEF Types
<1>3. ASSUME Here # <<>>
      PROVE  /\ Len(Here) \in Nat \ {0} /\ Top \in Frame /\ Top = Here[Len(Here)]
             /\ OnStack(Here, Len(Here), Top.at)
             /\ Popped = [frames EXCEPT ![c] = Below(Here)]
  <2>1. Len(Here) \in Nat \ {0}
    BY <1>1, <1>3, EmptySeq
  <2>2. Top \in Frame /\ Top = Here[Len(Here)]
    BY <1>1, <2>1, ElementOfSeq DEF Top
  <2>3. OnStack(Here, Len(Here), Top.at)
    BY <2>1, <2>2 DEF OnStack
  <2>4. Popped = [frames EXCEPT ![c] = Below(Here)]
    BY <1>1 DEF Popped, Below, Here
  <2> QED
    BY <2>1, <2>2, <2>3, <2>4
<1> QED
  BY <1>1, <1>2, <1>3, KeepsSelf

LEMMA Runs ==
    ASSUME SendAssumption, IInv, NEW habit, Running(habit)
    PROVE  NoneAnswered /\ Awake(Here) /\ (Here = <<>> \/ Here[Len(Here)].at # "Send")
<1>1. Here = <<>> \/ Top.at = "Handle"
  BY DEF Running, Handling, At, Top
<1> QED
  BY <1>1, Busy DEF Awake, Top

LEMMA Waits ==
    ASSUME SendAssumption, IInv, NEW place, At(place), place # "Switch",
           place = "Send" => ~ smse[<<c, Len(Here)>>].bSendCompleted,
           place \in {"Handle", "Get", "Delete", "Send"}
    PROVE  NoneAnswered /\ Awake(Here) /\ Here # <<>> /\ Top.at = place
<1>1. Top.at = place /\ Here # <<>>
  BY DEF At, Top
<1> QED
  BY <1>1, Busy DEF Awake, Top

LEMMA StartTaskKeeps ==
    ASSUME SendAssumption, IInv, NEW t \in Task, StartTask(t)
    PROVE  IInv'
<1>1. NoneAnswered /\ Awake(Here)
  BY Runs DEF StartTask
<1>2. /\ SwitchTo(t, [frames EXCEPT ![c] = Here], TASK_READY \cup {c, t})
      /\ UNCHANGED <<smse, lpSendMessageStack, sends, handled, bInSendMessage, TASK_DELETE_PENDING>>
      /\ lpTaskHead' = <<t>> \o lpTaskHead
  BY Current DEF StartTask, ends, sendVars
<1>3. lpTaskHead' \in Seq(Task)
  <2>1. lpTaskHead \in Seq(Task) /\ <<t>> \in Seq(Task)
    BY DEF IInv, Types
  <2> QED
    BY <1>2, <2>1
<1>4. bInSendMessage' \in BOOLEAN
  BY <1>2 DEF IInv, Types
<1> QED
  BY <1>1, <1>2, <1>3, <1>4, Current, QuietSwitch

LEMMA ResumeKeeps ==
    ASSUME SendAssumption, IInv, Resume
    PROVE  IInv'
<1>1. Here # <<>> /\ Top.at = "Switch"
  BY DEF Resume, At, Top
<1> DEFINE s == Below(Here)
<1>2. /\ Popped = [frames EXCEPT ![c] = s] /\ s \in Seq(Frame) /\ StackOK(s) /\ Awake(s)
      /\ Keeps(Here, s) /\ Here = frames[c] /\ c \in Task /\ Types
      /\ Len(s) = Len(Here) - 1 /\ \A i \in 1 .. Len(Here) - 1 : s[i] = Here[i]
      /\ Len(Here) \in Nat
  BY <1>1, Current, Pop
<1>3. \A i \in Nat : OnStack(s, i, "Delete") => OnStack(Here, i, "Delete")
  BY <1>2 DEF OnStack
<1> HIDE DEF s
<1>4. CASE Pending
  BY <1>2, <1>3, <1>4, ReceiveStep DEF Resume
<1>5. CASE ~ Pending
  <2>1. frames' = [frames EXCEPT ![c] = s] /\ UNCHANGED <<lpTaskHead, hCurrentTask, ends, sendVars>>
    BY <1>2, <1>5 DEF Resume
  <2>2. /\ frames' \in [Task -> Seq(Frame)] /\ frames'[c] = s
        /\ \A u \in Task \ {c} : frames'[u] = frames[u]
    BY <1>2, <2>1, NewStack
  <2>3. Types'
    BY <2>1, <2>2 DEF IInv, Types, ends, sendVars
  <2>4. CompletedOK'
    <3> SUFFICES ASSUME NEW a \in SendFrames', smse'[a].bSendCompleted,
                        Alive(frames'[a[1]], a[2])
                 PROVE  /\ a = lpSendMessageStack'
                        /\ hCurrentTask' = a[1]
                        /\ \A j \in a[2] + 1 .. Len(frames'[a[1]]) :
                               frames'[a[1]][j].at = "Switch"
      BY DEF CompletedOK
    <3>1. a \in SendFrames /\ a[1] \in Task /\ a[2] \in Nat /\ Alive(frames[a[1]], a[2])
      <4>1. /\ SendFrames' = SendFrames
            /\ \A t \in Task, i \in Nat : Alive(frames'[t], i) => Alive(frames[t], i)
        BY <1>2, <2>1, KeptStack
      <4>2. a[1] \in Task /\ a[2] \in Nat
        BY <4>1, SendsOn, Addresses
      <4> QED
        BY <4>1, <4>2
    <3>2. /\ a = lpSendMessageStack /\ hCurrentTask = a[1]
          /\ \A j \in a[2] + 1 .. Len(Here) : Here[j].at = "Switch"
      BY <1>2, <2>1, <3>1 DEF IInv, CompletedOK, sendVars, c
    <3>3. \A j \in a[2] + 1 .. Len(s) : j \in a[2] + 1 .. Len(Here) /\ s[j] = Here[j]
      <4> TAKE j \in a[2] + 1 .. Len(s)
      <4>1. a[2] \in Nat /\ Len(s) = Len(Here) - 1 /\ Len(Here) \in Nat
        BY <1>2, <3>1
      <4>2. j \in 1 .. Len(Here) - 1 /\ j \in a[2] + 1 .. Len(Here)
        BY <4>1
      <4> QED
        BY <1>2, <4>2
    <3> QED
      BY <2>1, <2>2, <3>2, <3>3 DEF sendVars, c
  <2>5. \A i \in Nat : OnStack(s, i, "Delete") => c \in TASK_DELETE_PENDING'
    BY <1>3, <2>1, Current DEF ends
  <2> QED
    BY <1>2, <2>1, <2>3, <2>4, <2>5, Quiet DEF ends, sendVars
<1> QED
  BY <1>4, <1>5

LEMMA SendWaitKeeps ==
    ASSUME SendAssumption, IInv, SendWait
    PROVE  IInv'
<1>1. NoneAnswered /\ Awake(Here)
  BY Waits DEF SendWait
<1>2. CASE Pending
  <2>1. Receive([frames EXCEPT ![c] = Here], TRUE)
    BY <1>2, Current DEF SendWait
  <2> QED
    BY <1>1, <1>2, <2>1, Current, ReceiveStep
<1>3. CASE ~ Pending
  <2>1. /\ InternalYield([frames EXCEPT ![c] = Here], TASK_READY \cup {c})
        /\ UNCHANGED <<ends, sendVars>>
    BY <1>3, Current DEF SendWait, Yield
  <2>2. bInSendMessage' \in BOOLEAN
    BY <2>1 DEF sendVars, IInv, Types
  <2> QED
    BY <1>1, <2>1, <2>2, Current, QuietYield DEF ends, sendVars
<1> QED
  BY <1>2, <1>3

\* A yield at the place where the current task is.
LEMMA YieldHere ==
    ASSUME SendAssumption, IInv, NoneAnswered, Awake(Here), NEW ready,
           InternalYield(frames, ready), UNCHANGED <<ends, sendVars>>
    PROVE  IInv'
<1>1. InternalYield([frames EXCEPT ![c] = Here], ready)
  BY Current
<1>2. bInSendMessage' \in BOOLEAN
  BY DEF sendVars, IInv, Types
<1> QED
  BY <1>1, <1>2, Current, QuietYield DEF ends, sendVars

\* The stack of the current task changes and nothing is switched.
LEMMA StackHere ==
    ASSUME SendAssumption, IInv, NoneAnswered, NEW s \in Seq(Frame),
           Keeps(Here, s), StackOK(s), Awake(s), frames' = [frames EXCEPT ![c] = s],
           TASK_DELETE_PENDING \subseteq TASK_DELETE_PENDING',
           \A i \in Nat : OnStack(s, i, "Delete") => c \in TASK_DELETE_PENDING',
           UNCHANGED <<lpTaskHead, hCurrentTask, sendVars>>
    PROVE  IInv'
<1>1. lpTaskHead' \in Seq(Task) /\ bInSendMessage' \in BOOLEAN
  BY DEF sendVars, IInv, Types
<1>2. c \in Task
  BY Current
<1> QED
  BY <1>1, <1>2, QuietSwitch DEF sendVars

LEMMA PoppedHere ==
    ASSUME SendAssumption, IInv, Here # <<>>, Top.at \notin {"Send", "Delete"}
    PROVE  /\ Below(Here) \in Seq(Frame) /\ StackOK(Below(Here)) /\ Awake(Below(Here))
           /\ Keeps(Here, Below(Here)) /\ Popped = [frames EXCEPT ![c] = Below(Here)]
           /\ Len(Below(Here)) = Len(Here) - 1 /\ Len(Here) \in Nat
           /\ \A i \in 1 .. Len(Here) - 1 : Below(Here)[i] = Here[i]
           /\ \A i \in Nat : OnStack(Below(Here), i, "Delete") => OnStack(Here, i, "Delete")
<1>1. /\ Below(Here) \in Seq(Frame) /\ StackOK(Below(Here)) /\ Awake(Below(Here))
      /\ Keeps(Here, Below(Here)) /\ Popped = [frames EXCEPT ![c] = Below(Here)]
      /\ Len(Below(Here)) = Len(Here) - 1 /\ Len(Here) \in Nat
      /\ \A i \in 1 .. Len(Here) - 1 : Below(Here)[i] = Here[i]
  BY Current, Pop
<1> QED
  BY <1>1 DEF OnStack

LEMMA HandlerReturnKeeps ==
    ASSUME SendAssumption, IInv, HandlerReturn
    PROVE  IInv'
<1> DEFINE s == Below(Here)
           k == Len(Here)
<1>1. NoneAnswered /\ Here # <<>> /\ Top.at = "Handle"
  BY Waits DEF HandlerReturn
<1>2. /\ s \in Seq(Frame) /\ StackOK(s) /\ Awake(s) /\ Keeps(Here, s)
      /\ Popped = [frames EXCEPT ![c] = s]
      /\ \A i \in Nat : OnStack(s, i, "Delete") => OnStack(Here, i, "Delete")
      /\ Len(s) = k - 1 /\ \A i \in 1 .. k - 1 : s[i] = Here[i]
      /\ c \in Task /\ Here = frames[c] /\ k \in Nat \ {0}
      /\ Top \in Frame /\ Top = Here[k] /\ OnStack(Here, k, "Handle")
      /\ \A i \in Nat : OnStack(Here, i, "Delete") => c \in TASK_DELETE_PENDING
  BY <1>1, Current, PoppedHere
<1>3. bInSendMessage' \in BOOLEAN /\ Top.send \in 1 .. MaxSends
  BY <1>1, <1>2, FrameFields DEF HandlerReturn
<1>4. UNCHANGED <<ends, lpSendMessageStack, sends, handled, TASK_DELETE_PENDING>>
  BY DEF HandlerReturn, ends
<1>5. CASE Top.saved_ptr = lpSendMessageStack
  <2> DEFINE a == lpSendMessageStack
  <2>1. Alive(Here, k) /\ k \in Nat
    BY <1>2 DEF Alive, OnStack
  <2>2. /\ a \in SendFrames /\ smse[a].send = Top.send
        /\ smse[a].bSendReceived /\ smse[a].hReceivingTask = c
    BY <1>2, <1>5, <2>1, HandleFacts
  <2>3. ForMe
    BY <2>2, SendsOn, Addresses DEF ForMe
  <2>4. \A i \in Nat : OnStack(s, i, "Handle") /\ Alive(s, i) => s[i].saved_ptr # a
    <3> SUFFICES ASSUME NEW i \in Nat, OnStack(s, i, "Handle"), Alive(s, i), s[i].saved_ptr = a
                 PROVE  FALSE
      OBVIOUS
    <3>1. /\ OnStack(Here, i, "Handle") /\ Alive(Here, i) /\ s[i] = Here[i]
      BY <1>2 DEF Keeps, Alive
    <3>2. i = k
      BY <1>2, <1>5, <2>1, <3>1, HandleAlone
    <3>3. i \in 1 .. k - 1
      BY <1>2 DEF OnStack
    <3> QED
      BY <1>2, <3>2, <3>3
  <2>5. ReplyMessage(Top.send, [frames EXCEPT ![c] = s])
    BY <1>2, <1>5 DEF HandlerReturn
  <2>6. Top.send \in 0 .. MaxSends
    BY <1>3 DEF SendAssumption
  <2> HIDE DEF s
  <2> QED
    BY <1>2, <1>3, <1>4, <2>2, <2>3, <2>4, <2>5, <2>6, ReplyStep
<1>6. CASE Top.saved_ptr # lpSendMessageStack
  <2>1. UNCHANGED smse
    BY <1>6 DEF HandlerReturn
  <2>2. \A i \in Nat : OnStack(s, i, "Delete") => c \in TASK_DELETE_PENDING'
    BY <1>2, <1>4
  <2>3. CASE Top.yield
    <3>1. InternalYield([frames EXCEPT ![c] = s], TASK_READY \cup {c})
      BY <1>2, <1>6, <2>3 DEF HandlerReturn, Yield
    <3> HIDE DEF s
    <3> QED
      BY <1>1, <1>2, <1>3, <1>4, <2>1, <2>2, <3>1, QuietYield
  <2>4. CASE ~ Top.yield
    <3>1. frames' = [frames EXCEPT ![c] = s] /\ UNCHANGED <<lpTaskHead, hCurrentTask>>
      BY <1>2, <1>6, <2>4 DEF HandlerReturn
    <3>2. lpTaskHead' \in Seq(Task)
      BY <3>1 DEF IInv, Types
    <3> HIDE DEF s
    <3> QED
      BY <1>1, <1>2, <1>3, <1>4, <2>1, <2>2, <3>1, <3>2, QuietSwitch
  <2> QED
    BY <2>3, <2>4
<1> QED
  BY <1>5, <1>6

LEMMA AppYieldKeeps ==
    ASSUME SendAssumption, IInv, AppYield
    PROVE  IInv'
<1>1. NoneAnswered /\ Awake(Here)
  BY Runs DEF AppYield
<1> QED
  BY <1>1, YieldHere DEF AppYield, Yield

LEMMA GetMessageKeeps ==
    ASSUME SendAssumption, IInv, GetMessage
    PROVE  IInv'
<1> DEFINE s == Append(Here, Get)
<1>1. NoneAnswered /\ Awake(Here) /\ (Here = <<>> \/ Here[Len(Here)].at # "Send")
  BY Runs DEF GetMessage
<1>2. Get \in Frame /\ Get.at = "Get"
  BY FrameTypes, Constructors
<1>3. /\ s \in Seq(Frame) /\ StackOK(s) /\ Len(s) = Len(Here) + 1 /\ Len(Here) \in Nat
      /\ s[Len(Here) + 1] = Get /\ \A i \in 1 .. Len(Here) : s[i] = Here[i]
  BY <1>1, <1>2, Current, Push
<1>4. Keeps(Here, s)
  BY <1>2, Current, KeepsPush
<1>5. frames' = [frames EXCEPT ![c] = s]
  BY Current DEF GetMessage, Pushed, Here
<1> HIDE DEF s
<1>6. Awake(s)
  BY <1>2, <1>3 DEF Awake
<1>7. \A i \in Nat : OnStack(s, i, "Delete") => OnStack(Here, i, "Delete")
  BY <1>2, <1>3 DEF OnStack
<1>8. UNCHANGED <<lpTaskHead, hCurrentTask, sendVars, TASK_DELETE_PENDING>>
  BY DEF GetMessage, ends
<1> QED
  BY <1>1, <1>3, <1>4, <1>5, <1>6, <1>7, <1>8, Current, StackHere

LEMMA GetStepKeeps ==
    ASSUME SendAssumption, IInv, NEW busyDriver \in BOOLEAN, GetStep(busyDriver)
    PROVE  IInv'
<1>1. NoneAnswered /\ Awake(Here) /\ Here # <<>> /\ Top.at = "Get"
  BY Waits DEF GetStep
<1>2. CASE Pending /\ Receive(frames, FALSE)
  <2>1. Receive([frames EXCEPT ![c] = Here], FALSE)
    BY <1>2, Current
  <2> QED
    BY <1>1, <1>2, <2>1, Current, ReceiveStep
<1>3. CASE frames' = Popped /\ UNCHANGED <<lpTaskHead, hCurrentTask, ends, sendVars>>
  <2>1. \A i \in Nat : OnStack(Below(Here), i, "Delete") => c \in TASK_DELETE_PENDING'
    BY <1>1, <1>3, Current, PoppedHere DEF ends
  <2> QED
    BY <1>1, <1>3, <2>1, PoppedHere, StackHere DEF ends
<1>4. CASE /\ InternalYield(frames, TASK_READY \cup {c}) \/ InternalYield(frames, TASK_READY)
           /\ UNCHANGED <<ends, sendVars>>
  BY <1>1, <1>4, YieldHere
<1> QED
  BY <1>2, <1>3, <1>4 DEF GetStep, Yield

LEMMA DeleteTaskKeeps ==
    ASSUME SendAssumption, IInv, NEW habit, Running(habit), NEW ready, DeleteTask(ready),
           UNCHANGED <<lpTaskHead, hCurrentTask, sendVars>>
    PROVE  IInv'
<1> DEFINE s == Append(Here, Delete(FALSE))
<1>1. NoneAnswered /\ Awake(Here) /\ (Here = <<>> \/ Here[Len(Here)].at # "Send")
  BY Runs
<1>2. Delete(FALSE) \in Frame /\ Delete(FALSE).at = "Delete"
  BY FrameTypes, Constructors
<1>3. /\ s \in Seq(Frame) /\ StackOK(s) /\ Len(s) = Len(Here) + 1 /\ Len(Here) \in Nat
      /\ s[Len(Here) + 1] = Delete(FALSE)
  BY <1>1, <1>2, Current, Push
<1>4. Keeps(Here, s)
  BY <1>2, Current, KeepsPush
<1>5. /\ frames' = [frames EXCEPT ![c] = s]
      /\ TASK_DELETE_PENDING' = TASK_DELETE_PENDING \cup {c}
  BY Current DEF DeleteTask, Pushed, Here
<1> HIDE DEF s
<1>6. Awake(s)
  BY <1>2, <1>3 DEF Awake
<1> QED
  BY <1>1, <1>3, <1>4, <1>5, <1>6, StackHere

LEMMA ExitKeeps ==
    ASSUME IInv,
           UNCHANGED <<TASK_DELETE_PENDING, frames, lpTaskHead, hCurrentTask, sendVars>>
    PROVE  IInv'
BY Same DEF invVars, sendVars

LEMMA EndTaskKeeps ==
    ASSUME SendAssumption, IInv, NEW messageBox \in BOOLEAN, EndTask(messageBox)
    PROVE  IInv'
<1>1. UNCHANGED <<lpTaskHead, hCurrentTask, sendVars>> /\ Running(FALSE)
  BY DEF EndTask
<1>2. CASE c = Native
  BY <1>1, <1>2, ExitKeeps DEF EndTask
<1>3. CASE c # Native
  BY <1>1, <1>3, DeleteTaskKeeps DEF EndTask
<1> QED
  BY <1>2, <1>3

LEMMA FatalAppExitKeeps ==
    ASSUME SendAssumption, IInv, FatalAppExit
    PROVE  IInv'
<1>1. UNCHANGED <<lpTaskHead, hCurrentTask, sendVars>> /\ Running(HandlersExit)
  BY DEF FatalAppExit
<1>2. CASE flag
  BY <1>1, <1>2, ExitKeeps DEF FatalAppExit
<1>3. CASE ~ flag
  BY <1>1, <1>3, DeleteTaskKeeps DEF FatalAppExit
<1> QED
  BY <1>2, <1>3

LEMMA DeleteReplyKeeps ==
    ASSUME SendAssumption, IInv, DeleteReply
    PROVE  IInv'
<1>1. Here # <<>> /\ Top.at = "Delete" /\ Awake(Here)
  BY Waits DEF DeleteReply
<1>2. /\ OnStack(Here, Len(Here), "Delete") /\ Len(Here) \in Nat
      /\ Top = Here[Len(Here)] /\ c \in TASK_DELETE_PENDING
  BY <1>1, Current
<1>3. \A i \in Nat : OnStack(Here, i, "Handle") /\ Alive(Here, i) =>
                         Here[i].saved_ptr # lpSendMessageStack
  <2> SUFFICES ASSUME NEW i \in Nat, OnStack(Here, i, "Handle"), Alive(Here, i)
               PROVE  FALSE
    OBVIOUS
  <2>1. Len(Here) <= i
    BY <1>2 DEF Alive
  <2>2. i = Len(Here)
    BY <1>2, <2>1 DEF OnStack
  <2> QED
    BY <1>1, <1>2, <2>2 DEF OnStack
<1>4. /\ ReplyMessage(0, [frames EXCEPT ![c] = Here]) /\ ForMe
      /\ UNCHANGED <<lpSendMessageStack, sends, handled, TASK_DELETE_PENDING>>
      /\ bInSendMessage' = bInSendMessage
  BY Current DEF DeleteReply, ends
<1>5. bInSendMessage' \in BOOLEAN /\ 0 \in 0 .. MaxSends
  BY <1>4 DEF IInv, Types, SendAssumption
<1> QED
  BY <1>1, <1>2, <1>3, <1>4, <1>5, Current, ReplyStep

LEMMA DeleteYieldKeeps ==
    ASSUME SendAssumption, IInv, DeleteYield
    PROVE  IInv'
<1>1. NoneAnswered /\ Here # <<>> /\ Top.at = "Delete" /\ Awake(Here)
  BY Waits DEF DeleteYield
<1>2. UNCHANGED <<ends, sendVars>>
  BY DEF DeleteYield
<1>3. CASE ~ Top.yielded
  <2> DEFINE k == Len(Here)
             s == [Here EXCEPT ![k] = Delete(TRUE)]
  <2>1. /\ k \in Nat \ {0} /\ Here \in Seq(Frame) /\ StackOK(Here) /\ Here[k].at = "Delete"
        /\ \A i \in Nat : OnStack(Here, i, "Delete") => c \in TASK_DELETE_PENDING
        /\ Here = frames[c] /\ c \in Task
    BY <1>1, Current
  <2>2. Delete(TRUE) \in Frame /\ Delete(TRUE).at = "Delete"
    BY FrameTypes, Constructors
  <2>3. /\ s \in Seq(Frame) /\ Len(s) = k /\ s[k] = Delete(TRUE)
        /\ \A i \in 1 .. k : i # k => s[i] = Here[i]
    <3>1. k \in 1 .. Len(Here)
      BY <2>1
    <3> DEFINE e == Delete(TRUE)
    <3> HIDE DEF k, e
    <3>2. /\ [Here EXCEPT ![k] = e] \in Seq(Frame) /\ Len([Here EXCEPT ![k] = e]) = Len(Here)
          /\ \A j \in 1 .. Len(Here) :
                 [Here EXCEPT ![k] = e][j] = IF j = k THEN e ELSE Here[j]
      <4>1. Here \in Seq(Frame) /\ e \in Frame
        BY <2>1, <2>2 DEF e
      <4> QED
        BY <3>1, <4>1, ExceptSeq
    <3> QED
      BY <3>1, <3>2 DEF k, e
  <2>4. [frames EXCEPT ![c][Len(Here)] = Delete(TRUE)] = [frames EXCEPT ![c] = s]
    BY <2>1
  <2>5. InternalYield([frames EXCEPT ![c] = s], TASK_READY)
    BY <1>3, <2>4 DEF DeleteYield
  <2> HIDE DEF s
  <2>6. \A i \in 1 .. k : s[i].at = Here[i].at /\ (Here[i].at # "Delete" => s[i] = Here[i])
    BY <2>1, <2>2, <2>3
  <2>7. k = Len(Here)
    OBVIOUS
  <2> HIDE DEF k
  <2>8. \A i \in Nat, place \in {"Send", "Handle", "Delete"} :
            OnStack(s, i, place) <=> OnStack(Here, i, place)
    BY <2>3, <2>6, <2>7 DEF OnStack
  <2>9. \A i \in Nat : OnStack(Here, i, "Handle") => s[i] = Here[i]
    BY <2>6, <2>7 DEF OnStack
  <2>10. Keeps(Here, s)
    BY <2>8, <2>9 DEF Keeps
  <2>11. StackOK(s)
    <3>1. ASSUME NEW i \in 1 .. k
          PROVE  /\ s[i].at = "Switch" => i = k
                 /\ s[i].at = "Send" => /\ i <= MaxDepth
                                        /\ i < k => s[i + 1].at \in {"Handle", "Switch"}
      <4>1. i < k => i + 1 \in 1 .. k
        BY <2>1
      <4> QED
        BY <2>1, <2>6, <2>7, <4>1 DEF StackOK
    <3> QED
      BY <2>3, <3>1 DEF StackOK
  <2>12. Awake(s)
    BY <2>2, <2>3 DEF Awake
  <2>13. bInSendMessage' \in BOOLEAN
    BY <1>2 DEF sendVars, IInv, Types
  <2> QED
    BY <1>1, <1>2, <2>1, <2>3, <2>5, <2>8, <2>10, <2>11, <2>12, <2>13, QuietYield DEF ends, sendVars
<1>4. CASE Top.yielded /\ UNCHANGED <<lpTaskHead, hCurrentTask, frames>>
  BY <1>2, <1>4, ExitKeeps DEF ends
<1>5. CASE InternalYield(frames, TASK_READY \ {c})
  BY <1>1, <1>2, <1>5, YieldHere
<1> QED
  BY <1>3, <1>4, <1>5 DEF DeleteYield

LEMMA MessagesKeep ==
    ASSUME SendAssumption, IInv, NEW t \in Task, PostMessage(t) \/ DriverEvent(t)
    PROVE  IInv'
<1>1. UNCHANGED invVars
  BY DEF PostMessage, DriverEvent, invVars, ends, sendVars
<1> QED
  BY <1>1, Same

LEMMA Inductive ==
    ASSUME SendAssumption, ~ HandlersReply, IInv, [Next]_vars
    PROVE  IInv'
<1>1. ASSUME NEW t \in Task, StartTask(t) \/ SendMessage(t) \/ PostMessage(t) \/ DriverEvent(t)
      PROVE  IInv'
  BY <1>1, StartTaskKeeps, SendStep, MessagesKeep
<1>2. CASE Resume \/ SendReturn \/ SendWait \/ HandlerReturn
  BY <1>2, ResumeKeeps, ReturnStep, SendWaitKeeps, HandlerReturnKeeps
<1>3. CASE EarlyReply
  BY <1>3 DEF EarlyReply
<1>4. CASE AppYield \/ GetMessage \/ FatalAppExit \/ DeleteReply \/ DeleteYield
  BY <1>4, AppYieldKeeps, GetMessageKeeps, FatalAppExitKeeps, DeleteReplyKeeps, DeleteYieldKeeps
<1>5. ASSUME NEW busyDriver \in BOOLEAN, GetStep(busyDriver)
      PROVE  IInv'
  BY <1>5, GetStepKeeps
<1>6. ASSUME NEW messageBox \in BOOLEAN, EndTask(messageBox)
      PROVE  IInv'
  BY <1>6, EndTaskKeeps
<1>7. CASE UNCHANGED vars
  <2>1. UNCHANGED invVars
    BY <1>7 DEF vars, schedVars, ends, sendVars, invVars
  <2> QED
    BY <2>1, Same
<1> QED
  BY <1>1, <1>2, <1>3, <1>4, <1>5, <1>6, <1>7 DEF Next, Step

----------------------------------------------------------------------------
\* The theorems

\* The inductive invariant, where no window procedure replies before it returns.
LEMMA Invariant ==
    ASSUME ~ HandlersReply
    PROVE  Spec => []IInv
<1>1. Init => IInv
  BY TaskAssumption, SendAssumption, HabitAssumption, Initially DEF Assumptions
<1>2. IInv /\ [Next]_vars => IInv'
  BY SendAssumption, Inductive
<1> QED
  BY <1>1, <1>2, PTL DEF Spec

LEMMA NewestIs ==
    ASSUME SendAssumption, IInv, NEW a, NEW n \in Nat, LastBefore(a, n)
    PROVE  a = Newest({b \in SendFrames : smse[b].send < n})
<1> DEFINE S == {b \in SendFrames : smse[b].send < n}
<1>1. \A b \in SendFrames : smse[b].send \in Nat
  BY DEF IInv, InfosOK, Types, SendAssumption
<1>2. CASE a = Null /\ \A b \in SendFrames : smse[b].send >= n
  <2>1. S = {}
    BY <1>1, <1>2
  <2> QED
    BY <1>2, <2>1 DEF Newest
<1>3. CASE /\ a \in SendFrames /\ smse[a].send < n
           /\ \A b \in SendFrames : smse[b].send < n => smse[b].send <= smse[a].send
  <2>1. a \in S /\ \A b \in S : smse[b].send <= smse[a].send
    BY <1>3
  <2>2. \A x \in S : (\A b \in S : smse[b].send <= smse[x].send) => x = a
    <3> SUFFICES ASSUME NEW x \in S, \A b \in S : smse[b].send <= smse[x].send
                 PROVE  x = a
      OBVIOUS
    <3>1. smse[x].send = smse[a].send
      BY <1>1, <2>1
    <3> QED
      BY <1>3, <3>1 DEF IInv, InfosOK
  <2> HIDE DEF S
  <2>3. Newest(S) = CHOOSE x \in S : \A b \in S : smse[b].send <= smse[x].send
    BY <2>1 DEF Newest
  <2>4. Newest(S) = a
    BY <2>1, <2>2, <2>3
  <2> QED
    BY <2>4 DEF S
<1> QED
  BY <1>2, <1>3 DEF LastBefore

\* Wherever window procedures answer by returning, the chain of lpPrev runs over exactly
\* the sends in progress, newest first: no pointer in it leads to the frame of a
\* SendMessage that has returned, however tasks start, yield, send, end and switch.
THEOREM ChainExact ==
    ASSUME ~ HandlersReply
    PROVE  Spec => []SendsNest
<1>1. ASSUME IInv
      PROVE  SendsNest
  <2>1. sends + 1 \in Nat /\ \A b \in SendFrames : smse[b].send < sends + 1 /\ smse[b].send \in Nat
    BY <1>1 DEF IInv, InfosOK, Types, SendAssumption
  <2>2. lpSendMessageStack = Newest(SendFrames)
    <3>1. SendFrames = {b \in SendFrames : smse[b].send < sends + 1}
      BY <2>1
    <3>2. LastBefore(lpSendMessageStack, sends + 1)
      BY <1>1 DEF IInv, Nested
    <3> QED
      BY <1>1, <2>1, <3>1, <3>2, NewestIs, SendAssumption
  <2>3. \A a \in SendFrames :
            smse[a].lpPrev = Newest({b \in SendFrames : smse[b].send < smse[a].send})
    <3> TAKE a \in SendFrames
    <3>1. LastBefore(smse[a].lpPrev, smse[a].send) /\ smse[a].send \in Nat
      BY <1>1, <2>1 DEF IInv, Nested
    <3> QED
      BY <1>1, <3>1, NewestIs, SendAssumption
  <2> QED
    BY <2>2, <2>3 DEF SendsNest
<1> QED
  BY <1>1, Invariant, PTL

\* Wherever window procedures answer by returning, no message is handled twice.
THEOREM HandledAtMostOnce ==
    ASSUME ~ HandlersReply
    PROVE  Spec => []HandledOnce
<1>1. IInv => HandledOnce
  BY DEF IInv, RightReply
<1> QED
  BY <1>1, Invariant, PTL

\* Wherever window procedures answer by returning, what SendMessage is about to return
\* is the result of handling that very message once, or the 0 of a receiver that ends.
THEOREM RepliesRight ==
    ASSUME ~ HandlersReply
    PROVE  Spec => []RightReply
<1>1. IInv => RightReply
  BY DEF IInv
<1> QED
  BY <1>1, Invariant, PTL

----------------------------------------------------------------------------
\* The task list, and the types of what the sends do not depend on

Distinct(list) == \A i, j \in 1 .. Len(list) : list[i] = list[j] => i = j

\* A task that has anything on its C stack, the current one among them, is in the list
\* or was told to end.
Known == TasksIn(lpTaskHead) \cup TASK_DELETE_PENDING

ListInv ==
    /\ Distinct(lpTaskHead)
    /\ TASK_READY \subseteq Task /\ TASK_DELETE_PENDING \subseteq Task
    /\ hCurrentTask \in Known
    /\ \A t \in Task : frames[t] # <<>> => t \in Known
    /\ posted \in [Task -> 0 .. MaxPosts] /\ input \in [Task -> 0 .. MaxInput]
    /\ flag \in BOOLEAN

LEMMA DistinctCounts ==
    ASSUME NEW list \in Seq(Task), Distinct(list)
    PROVE  Cardinality(TasksIn(list)) = Len(list)
<1>1. Len(list) \in Nat /\ list \in [1 .. Len(list) -> TasksIn(list)]
  BY DEF TasksIn
<1>2. list \in Bijection(1 .. Len(list), TasksIn(list))
  <2>1. list \in Injection(1 .. Len(list), TasksIn(list))
    BY <1>1 DEF Injection, IsInjective, Distinct
  <2>2. list \in Surjection(1 .. Len(list), TasksIn(list))
    BY <1>1 DEF Surjection, TasksIn
  <2> QED
    BY <2>1, <2>2 DEF Bijection
<1>3. IsFiniteSet(1 .. Len(list)) /\ Cardinality(1 .. Len(list)) = Len(list)
  BY <1>1, FS_Interval
<1> QED
  BY <1>2, <1>3, FS_Bijection DEF ExistsBijection

\* Of the elements of a finite set of numbers no two are the k-th.
LEMMA OneKth ==
    ASSUME NEW S, S \subseteq Nat, IsFiniteSet(S), NEW i \in S, NEW j \in S,
           Cardinality({m \in S : m <= i}) = Cardinality({m \in S : m <= j})
    PROVE  i = j
<1>1. ASSUME NEW x \in S, NEW y \in S, x < y
      PROVE  Cardinality({m \in S : m <= x}) # Cardinality({m \in S : m <= y})
  <2> DEFINE X == {m \in S : m <= x}
             Y == {m \in S : m <= y}
  <2>1. X \in SUBSET Y /\ y \in Y /\ y \notin X /\ Y \in SUBSET S
    <3>1. x \in Nat /\ y \in Nat /\ x < y
      BY <1>1
    <3>2. (\A m \in S : m <= x => m <= y) /\ y <= y /\ ~(y <= x)
      BY <3>1
    <3> QED
      BY <3>2, Zenon
  <2> HIDE DEF X, Y
  <2>2. IsFiniteSet(Y)
    BY <2>1, FS_Subset
  <2>3. Cardinality(X) # Cardinality(Y)
    BY <2>1, <2>2, FS_Subset
  <2> QED
    BY <2>3 DEF X, Y
<1> QED
  BY <1>1

\* FreeTask takes the tasks it frees out of the list, and no other.
LEMMA RestIs ==
    ASSUME Types, Distinct(lpTaskHead), NEW freed
    PROVE  Distinct(Rest(freed)) /\ TasksIn(Rest(freed)) = TasksIn(lpTaskHead) \ freed
<1> DEFINE left == {i \in Places : lpTaskHead[i] \notin freed}
           place(k) == CHOOSE i \in left : Cardinality({j \in left : j <= i}) = k
<1>1. Len(lpTaskHead) \in Nat
  BY DEF Types
<1>2. left \subseteq Nat /\ left \subseteq Places /\ IsFiniteSet(left)
  <2>1. IsFiniteSet(Places) /\ Places \subseteq Nat
    BY <1>1, FS_Interval DEF Places
  <2> QED
    BY <2>1, FS_Subset
<1>3. Rest(freed) = IF freed = {} THEN lpTaskHead
                    ELSE [k \in 1 .. Cardinality(left) |-> lpTaskHead[place(k)]]
  BY DEF Rest
<1>4. Cardinality(left) \in Nat
  BY <1>2, FS_CardinalityType
<1>5. \A k \in 1 .. Cardinality(left) :
          place(k) \in left /\ Cardinality({j \in left : j <= place(k)}) = k
  <2> HIDE DEF left
  <2> TAKE k \in 1 .. Cardinality(left)
  <2>1. \E i \in left : Cardinality({j \in left : j <= i}) = k
    BY <1>2, KthNat
  <2> QED
    BY <2>1
<1>6. \A i \in left : \E k \in 1 .. Cardinality(left) : place(k) = i
  <2> HIDE DEF left
  <2> TAKE i \in left
  <2> DEFINE upTo == {j \in left : j <= i}
  <2>1. Cardinality(upTo) \in Nat /\ Cardinality(upTo) <= Cardinality(left) /\ IsFiniteSet(upTo)
    BY <1>2, FS_Subset, FS_CardinalityType
  <2>2. Cardinality(upTo) # 0
    BY <1>2, <2>1, FS_EmptySet
  <2>3. Cardinality(upTo) \in 1 .. Cardinality(left)
    BY <1>4, <2>1, <2>2
  <2>4. /\ place(Cardinality(upTo)) \in left
        /\ Cardinality({j \in left : j <= place(Cardinality(upTo))}) = Cardinality(upTo)
    BY <1>5, <2>3
  <2> HIDE DEF place
  <2>5. place(Cardinality(upTo)) = i
    BY <1>2, <2>4, OneKth
  <2> QED
    BY <2>3, <2>5
<1> HIDE DEF place
<1>7. CASE freed = {}
  BY <1>3, <1>7
<1>8. CASE freed # {}
  <2> DEFINE n == Cardinality(left)
  <2>1. Rest(freed) = [k \in 1 .. n |-> lpTaskHead[place(k)]]
    BY <1>3, <1>8
  <2>2. n \in Nat
    BY <1>4
  <2>3. \A k \in 1 .. n : place(k) \in left
    BY <1>5
  <2>4. \A k, l \in 1 .. n : place(k) = place(l) => k = l
    BY <1>5
  <2>5. TasksIn(lpTaskHead) \ freed = {lpTaskHead[i] : i \in left}
    BY DEF TasksIn, Places
  <2> HIDE DEF n
  <2>6. Len(Rest(freed)) = n /\ \A k \in 1 .. n : Rest(freed)[k] = lpTaskHead[place(k)]
    BY <2>1, <2>2
  <2>7. Distinct(Rest(freed))
    BY <1>2, <2>3, <2>4, <2>6 DEF Distinct, Places
  <2>8. TasksIn(Rest(freed)) = {lpTaskHead[i] : i \in left}
    <3> HIDE DEF left
    <3>1. \A i \in left : \E k \in 1 .. n : place(k) = i
      BY <1>6 DEF n
    <3> QED
      BY <2>3, <2>6, <3>1 DEF TasksIn
  <2> QED
    BY <2>5, <2>7, <2>8
<1> QED
  BY <1>7, <1>8

\* What a step may do to who is known: nobody is forgotten, the list stays without
\* repetition, and only the stack of the current task changes.
LEMMA KnownStep ==
    ASSUME IInv, ListInv, IInv', Distinct(lpTaskHead'), Known \subseteq Known',
           hCurrentTask' \in Known', TASK_READY' \subseteq Task, TASK_DELETE_PENDING' \subseteq Task,
           \A t \in Task \ {c} : frames'[t] = frames[t],
           posted' \in [Task -> 0 .. MaxPosts], input' \in [Task -> 0 .. MaxInput],
           flag' \in BOOLEAN
    PROVE  ListInv'
<1>1. \A t \in Task : frames'[t] # <<>> => t \in Known'
  <2> TAKE t \in Task
  <2>1. CASE t = c
    BY <2>1 DEF ListInv, c
  <2>2. CASE t # c
    BY <2>2 DEF ListInv
  <2> QED
    BY <2>1, <2>2
<1> QED
  BY <1>1 DEF ListInv

LEMMA SwitchedTo ==
    ASSUME IInv, ListInv, NEW t \in Task, NEW ready \in SUBSET Task,
           NEW after, DOMAIN after = Task, \A u \in Task \ {c} : after[u] = frames[u],
           SwitchTo(t, after, ready)
    PROVE  /\ hCurrentTask' = t /\ TASK_READY' \subseteq Task
           /\ \A u \in Task \ {c} : frames'[u] = frames[u]
<1>1. CASE t = c
  BY <1>1 DEF SwitchTo, c
<1>2. CASE t # c
  <2>1. frames' = [after EXCEPT ![c] = Append(after[c], Switch)]
    BY <1>2 DEF SwitchTo
  <2>2. \A u \in Task \ {c} : frames'[u] = after[u]
    BY <2>1
  <2> QED
    BY <1>2, <2>2 DEF SwitchTo
<1> QED
  BY <1>1, <1>2

\* Whom the scheduler finds is in the list, and whom it frees was told to end.
LEMMA Scheduled ==
    ASSUME IInv, ListInv, NEW ready \in SUBSET Task
    PROVE  LET r == ScheduleTask(ready)
           IN  /\ r.next \in Task /\ r.next \in TasksIn(lpTaskHead) \cup {c}
               /\ r.ready \subseteq Task
               /\ r.freed \subseteq TASK_DELETE_PENDING
<1> DEFINE r == ScheduleTask(ready)
           all == TasksIn(lpTaskHead)
<1>1. r.next \in Task /\ r.next \in all \cup {c}
  BY NextInTask DEF IInv
<1>2. all \subseteq Task
  BY ElementOfSeq DEF IInv, Types, TasksIn
<1>3. r.ready \subseteq ready \cup {t \in all : input[t] > 0} \cup all
  BY DEF ScheduleTask
<1>4. r.freed \subseteq TASK_DELETE_PENDING
  BY DEF ScheduleTask, FreeTask
<1>5. r.ready \subseteq Task
  BY <1>2, <1>3
<1> QED
  BY <1>1, <1>4, <1>5

LEMMA YieldLists ==
    ASSUME IInv, ListInv, IInv', NEW ready \in SUBSET Task,
           NEW after, DOMAIN after = Task, \A u \in Task \ {c} : after[u] = frames[u],
           InternalYield(after, ready), UNCHANGED ends
    PROVE  ListInv'
<1> DEFINE r == ScheduleTask(ready)
<1>1. /\ r.next \in Task /\ r.next \in TasksIn(lpTaskHead) \cup {c}
      /\ r.ready \in SUBSET Task /\ r.freed \subseteq TASK_DELETE_PENDING
  BY Scheduled
<1>2. /\ SwitchTo(r.next, after, r.ready) /\ lpTaskHead' = Rest(r.freed)
      /\ posted' = [t \in Task |-> IF t \in r.freed THEN 0 ELSE posted[t]]
      /\ input' = [t \in Task |-> IF t \in r.freed THEN 0 ELSE input[t]]
  BY DEF InternalYield
<1> HIDE DEF r
<1>3. Distinct(lpTaskHead') /\ TasksIn(lpTaskHead') = TasksIn(lpTaskHead) \ r.freed
  BY <1>2, RestIs DEF IInv, ListInv
<1>4. /\ hCurrentTask' = r.next /\ TASK_READY' \subseteq Task
      /\ \A u \in Task \ {c} : frames'[u] = frames[u]
  BY <1>1, <1>2, SwitchedTo
<1>5. Known' = Known /\ UNCHANGED <<TASK_DELETE_PENDING, flag>>
  BY <1>1, <1>3 DEF Known, ends
<1>6. hCurrentTask' \in Known' /\ TASK_DELETE_PENDING' \subseteq Task /\ flag' \in BOOLEAN
  BY <1>1, <1>4, <1>5 DEF Known, ListInv, c
<1>7. posted' \in [Task -> 0 .. MaxPosts] /\ input' \in [Task -> 0 .. MaxInput]
  BY <1>2, SendAssumption DEF ListInv
<1> QED
  BY <1>3, <1>4, <1>5, <1>6, <1>7, KnownStep

\* A switch to a task that is known, or is so from now on.
LEMMA SwitchLists ==
    ASSUME IInv, ListInv, IInv', NEW t \in Task, NEW ready \in SUBSET Task,
           NEW after, DOMAIN after = Task, \A u \in Task \ {c} : after[u] = frames[u],
           SwitchTo(t, after, ready), t \in Known', Known \subseteq Known',
           Distinct(lpTaskHead'), UNCHANGED <<posted, input, ends>>
    PROVE  ListInv'
<1>1. /\ hCurrentTask' = t /\ TASK_READY' \subseteq Task
      /\ \A u \in Task \ {c} : frames'[u] = frames[u]
  BY SwitchedTo
<1> QED
  BY <1>1, KnownStep DEF ListInv, ends

\* Nothing is switched and no task is told to end.
LEMMA StayLists ==
    ASSUME IInv, ListInv, IInv', UNCHANGED <<lpTaskHead, hCurrentTask, ends>>,
           TASK_READY' \subseteq Task, \A u \in Task \ {c} : frames'[u] = frames[u],
           posted' \in [Task -> 0 .. MaxPosts], input' \in [Task -> 0 .. MaxInput]
    PROVE  ListInv'
<1>1. Known' = Known
  BY DEF Known, ends
<1> QED
  BY <1>1, KnownStep DEF ListInv, ends

LEMMA ListTypes ==
    ASSUME IInv, ListInv
    PROVE  /\ TasksIn(lpTaskHead) \subseteq Task /\ c \in Task /\ c \in Known
           /\ TASK_READY \in SUBSET Task /\ TASK_READY \cup {c} \in SUBSET Task
           /\ DOMAIN frames = Task /\ DOMAIN Popped = Task /\ \A f : DOMAIN Pushed(f) = Task
           /\ \A u \in Task \ {c} : Popped[u] = frames[u] /\ \A f : Pushed(f)[u] = frames[u]
<1>1. TasksIn(lpTaskHead) \subseteq Task
  BY ElementOfSeq DEF IInv, Types, TasksIn
<1>2. c \in Task /\ c \in Known /\ DOMAIN frames = Task
  BY DEF IInv, Types, ListInv, c
<1>3. /\ DOMAIN Popped = Task /\ \A f : DOMAIN Pushed(f) = Task
      /\ \A u \in Task \ {c} : Popped[u] = frames[u] /\ \A f : Pushed(f)[u] = frames[u]
  BY <1>2 DEF Popped, Pushed
<1> QED
  BY <1>1, <1>2, <1>3 DEF ListInv

LEMMA ReceiveLists ==
    ASSUME IInv, ListInv, IInv', NEW yield,
           NEW after, DOMAIN after = Task, \A u \in Task \ {c} : after[u] = frames[u],
           Receive(after, yield)
    PROVE  ListInv'
<1>1. \A u \in Task \ {c} : frames'[u] = frames[u]
  BY DEF Receive
<1>2. UNCHANGED <<lpTaskHead, hCurrentTask, TASK_READY, posted, input, ends>>
  BY DEF Receive
<1> QED
  BY <1>1, <1>2, StayLists DEF ListInv

\* Who is answered has a SendMessage on its stack.
LEMMA ReplyLists ==
    ASSUME IInv, ListInv, IInv', NEW result,
           NEW after, DOMAIN after = Task, \A u \in Task \ {c} : after[u] = frames[u],
           ReplyMessage(result, after), UNCHANGED ends
    PROVE  ListInv'
<1>1. CASE ForMe
  <2> DEFINE a == lpSendMessageStack
             t == smse[a].hSendingTask
  <2>1. a \in SendFrames /\ a \in Address /\ t = a[1]
    BY <1>1, TopSend, SendAssumption DEF ForMe
  <2>2. t \in Task /\ frames[t] # <<>>
    <3>1. t \in Task /\ frames[t] \in Seq(Frame) /\ a[2] \in 1 .. Len(frames[t])
      BY <2>1, SendsOn, Addresses, SendAssumption DEF OnStack, IInv, Types
    <3> QED
      BY <3>1
  <2>3. t \in Known
    BY <2>2 DEF ListInv
  <2>4. DirectedYield(t, after)
    BY <1>1 DEF ReplyMessage
  <2> HIDE DEF t
  <2>5. /\ SwitchTo(t, after, TASK_READY \cup {c})
        /\ UNCHANGED <<lpTaskHead, posted, input, halted, ends>>
    BY <2>4 DEF DirectedYield
  <2>6. Known' = Known /\ Distinct(lpTaskHead') /\ TASK_READY \cup {c} \in SUBSET Task
    BY <2>5, ListTypes DEF Known, ends, ListInv
  <2> QED
    BY <2>2, <2>3, <2>5, <2>6, SwitchLists
<1>2. CASE ~ ForMe
  <2>1. frames' = after /\ UNCHANGED <<lpTaskHead, hCurrentTask, TASK_READY, posted, input, ends>>
    BY <1>2 DEF ReplyMessage
  <2> QED
    BY <2>1, StayLists DEF ListInv
<1> QED
  BY <1>1, <1>2

LEMMA DeleteTaskLists ==
    ASSUME IInv, ListInv, IInv', NEW ready \in SUBSET Task, DeleteTask(ready),
           UNCHANGED <<lpTaskHead, hCurrentTask, posted, input>>, flag' \in BOOLEAN
    PROVE  ListInv'
<1>1. /\ TASK_DELETE_PENDING' = TASK_DELETE_PENDING \cup {c} /\ TASK_READY' \subseteq Task
      /\ \A u \in Task \ {c} : frames'[u] = frames[u]
  BY ListTypes DEF DeleteTask
<1>2. Known \subseteq Known' /\ TASK_DELETE_PENDING' \subseteq Task /\ hCurrentTask' \in Known'
  BY <1>1, ListTypes DEF Known, ListInv
<1> QED
  BY <1>1, <1>2, KnownStep DEF ListInv

LEMMA StartTaskLists ==
    ASSUME IInv, ListInv, IInv', NEW t \in Task, StartTask(t)
    PROVE  ListInv'
<1>1. /\ lpTaskHead' = <<t>> \o lpTaskHead /\ t \notin TasksIn(lpTaskHead)
      /\ SwitchTo(t, frames, TASK_READY \cup {c, t}) /\ UNCHANGED <<posted, input, ends>>
  BY DEF StartTask
<1>2. /\ lpTaskHead \in Seq(Task) /\ Len(lpTaskHead') = Len(lpTaskHead) + 1
      /\ Len(lpTaskHead) \in Nat
      /\ \A i \in 1 .. Len(lpTaskHead') :
             lpTaskHead'[i] = IF i = 1 THEN t ELSE lpTaskHead[i - 1]
  BY <1>1 DEF IInv, Types
<1>3. Distinct(lpTaskHead')
  <2>1. \A i \in 1 .. Len(lpTaskHead) : lpTaskHead[i] # t
    BY <1>1 DEF TasksIn
  <2>2. \A i \in 2 .. Len(lpTaskHead') :
            i - 1 \in 1 .. Len(lpTaskHead) /\ lpTaskHead'[i] = lpTaskHead[i - 1]
    BY <1>2
  <2>3. Len(lpTaskHead') \in Nat /\ Len(lpTaskHead') >= 1 /\ lpTaskHead'[1] = t
    BY <1>2
  <2> SUFFICES ASSUME NEW i \in 1 .. Len(lpTaskHead'), NEW j \in 1 .. Len(lpTaskHead'),
                      lpTaskHead'[i] = lpTaskHead'[j]
               PROVE  i = j
    BY DEF Distinct
  <2>4. CASE i \in 2 .. Len(lpTaskHead') /\ j \in 2 .. Len(lpTaskHead')
    <3>1. i - 1 = j - 1
      BY <2>2, <2>4 DEF ListInv, Distinct
    <3> QED
      BY <3>1
  <2>5. \A k \in 2 .. Len(lpTaskHead') : lpTaskHead'[k] # t
    BY <2>1, <2>2
  <2>6. \A k \in 1 .. Len(lpTaskHead') : k = 1 \/ k \in 2 .. Len(lpTaskHead')
    BY <2>3
  <2> QED
    BY <2>3, <2>4, <2>5, <2>6
<1>4. t \in TasksIn(lpTaskHead') /\ TasksIn(lpTaskHead) \subseteq TasksIn(lpTaskHead')
  <2>1. 1 \in 1 .. Len(lpTaskHead') /\ lpTaskHead'[1] = t
    BY <1>2
  <2>2. \A i \in 1 .. Len(lpTaskHead) :
            i + 1 \in 1 .. Len(lpTaskHead') /\ lpTaskHead'[i + 1] = lpTaskHead[i]
    BY <1>2
  <2> QED
    BY <2>1, <2>2 DEF TasksIn
<1>5. t \in Known' /\ Known \subseteq Known'
  BY <1>1, <1>4 DEF Known, ends
<1>6. TASK_READY \cup {c, t} \in SUBSET Task
  BY ListTypes
<1> QED
  BY <1>1, <1>3, <1>5, <1>6, ListTypes, SwitchLists

LEMMA SendMessageLists ==
    ASSUME IInv, ListInv, IInv', NEW t \in Task, SendMessage(t)
    PROVE  ListInv'
<1> DEFINE after == Pushed(Send(bInSendMessage))
<1>1. DirectedYield(t, after) /\ TWIN_IsLiveTask(t) /\ UNCHANGED ends
  BY DEF SendMessage
<1>2. /\ SwitchTo(t, after, TASK_READY \cup {c})
      /\ UNCHANGED <<lpTaskHead, posted, input, ends>>
  BY <1>1 DEF DirectedYield
<1>3. Known' = Known /\ t \in Known /\ Distinct(lpTaskHead')
  BY <1>1, <1>2 DEF Known, ends, TWIN_IsLiveTask, ListInv
<1>4. /\ DOMAIN after = Task /\ \A u \in Task \ {c} : after[u] = frames[u]
      /\ TASK_READY \cup {c} \in SUBSET Task
  BY ListTypes
<1> HIDE DEF after
<1> QED
  BY <1>2, <1>3, <1>4, SwitchLists

LEMMA ResumeLists ==
    ASSUME IInv, ListInv, IInv', Resume
    PROVE  ListInv'
<1>1. CASE Pending
  BY <1>1, ListTypes, ReceiveLists DEF Resume
<1>2. CASE ~ Pending
  <2>1. frames' = Popped /\ UNCHANGED <<lpTaskHead, hCurrentTask, TASK_READY, posted, input, ends>>
    BY <1>2 DEF Resume
  <2> QED
    BY <2>1, ListTypes, StayLists DEF ListInv
<1> QED
  BY <1>1, <1>2

LEMMA SendReturnLists ==
    ASSUME IInv, ListInv, IInv', SendReturn
    PROVE  ListInv'
<1>1. frames' = Popped /\ UNCHANGED <<lpTaskHead, hCurrentTask, TASK_READY, posted, input, ends>>
  BY DEF SendReturn
<1> QED
  BY <1>1, ListTypes, StayLists DEF ListInv

LEMMA SendWaitLists ==
    ASSUME IInv, ListInv, IInv', SendWait
    PROVE  ListInv'
<1>1. CASE Pending
  BY <1>1, ListTypes, ReceiveLists DEF SendWait
<1>2. CASE ~ Pending
  BY <1>2, ListTypes, YieldLists DEF SendWait, Yield
<1> QED
  BY <1>1, <1>2

LEMMA HandlerReturnLists ==
    ASSUME IInv, ListInv, IInv', HandlerReturn
    PROVE  ListInv'
<1>1. CASE ReplyMessage(Top.send, Popped) /\ UNCHANGED ends
  BY <1>1, ListTypes, ReplyLists
<1>2. CASE Yield(Popped) /\ UNCHANGED ends
  BY <1>2, ListTypes, YieldLists DEF Yield
<1>3. CASE /\ frames' = Popped
           /\ UNCHANGED <<lpTaskHead, hCurrentTask, TASK_READY, posted, input, halted, ends>>
  BY <1>3, ListTypes, StayLists DEF ListInv
<1> QED
  BY <1>1, <1>2, <1>3 DEF HandlerReturn

\* One message more or less for one task.
LEMMA Counts ==
    ASSUME NEW n \in Nat, NEW f \in [Task -> 0 .. n], NEW t \in Task
    PROVE  /\ f[t] < n => [f EXCEPT ![t] = @ + 1] \in [Task -> 0 .. n]
           /\ f[t] > 0 => [f EXCEPT ![t] = @ - 1] \in [Task -> 0 .. n]
<1>1. f[t] \in 0 .. n
  OBVIOUS
<1>2. f[t] < n => f[t] + 1 \in 0 .. n
  BY <1>1
<1>3. f[t] > 0 => f[t] - 1 \in 0 .. n
  BY <1>1
<1> QED
  BY <1>2, <1>3

LEMMA PostLists ==
    ASSUME IInv, ListInv, IInv', NEW t \in Task, PostMessage(t) \/ DriverEvent(t)
    PROVE  ListInv'
<1>1. UNCHANGED <<lpTaskHead, hCurrentTask, TASK_READY, frames, ends>>
  BY DEF PostMessage, DriverEvent
<1>2. posted' \in [Task -> 0 .. MaxPosts] /\ input' \in [Task -> 0 .. MaxInput]
  <2>1. CASE PostMessage(t)
    BY <2>1, Counts, SendAssumption DEF PostMessage, ListInv
  <2>2. CASE DriverEvent(t)
    BY <2>2, Counts, SendAssumption DEF DriverEvent, ListInv
  <2> QED
    BY <2>1, <2>2
<1> QED
  BY <1>1, <1>2, StayLists DEF ListInv

LEMMA GetStepLists ==
    ASSUME IInv, ListInv, IInv', NEW busyDriver \in BOOLEAN, GetStep(busyDriver)
    PROVE  ListInv'
<1>1. CASE Pending /\ Receive(frames, FALSE)
  BY <1>1, ListTypes, ReceiveLists
<1>2. CASE /\ posted[c] > 0 /\ posted' = [posted EXCEPT ![c] = @ - 1] /\ frames' = Popped
           /\ UNCHANGED <<lpTaskHead, hCurrentTask, TASK_READY, input, halted, ends, sendVars>>
  <2>1. posted' \in [Task -> 0 .. MaxPosts]
    BY <1>2, Counts, ListTypes, SendAssumption DEF ListInv
  <2> QED
    BY <1>2, <2>1, ListTypes, StayLists DEF ListInv
<1>3. CASE /\ input[c] > 0 /\ input' = [input EXCEPT ![c] = @ - 1] /\ frames' = Popped
           /\ \E ahead \in SUBSET {t \in Task \ {c} : input[t] > 0} :
                 TASK_READY' = TASK_READY \cup ahead
           /\ UNCHANGED <<lpTaskHead, hCurrentTask, posted, halted, ends, sendVars>>
  <2>1. input' \in [Task -> 0 .. MaxInput]
    BY <1>3, Counts, ListTypes, SendAssumption DEF ListInv
  <2>2. TASK_READY' \subseteq Task
    BY <1>3 DEF ListInv
  <2> QED
    BY <1>3, <2>1, <2>2, ListTypes, StayLists DEF ListInv
<1>4. CASE /\ IF busyDriver THEN Yield(frames) ELSE InternalYield(frames, TASK_READY)
           /\ UNCHANGED <<ends, sendVars>>
  BY <1>4, ListTypes, YieldLists DEF Yield
<1> QED
  BY <1>1, <1>2, <1>3, <1>4 DEF GetStep

LEMMA EndLists ==
    ASSUME IInv, ListInv, IInv',
           FatalAppExit \/ \E messageBox \in BOOLEAN : EndTask(messageBox)
    PROVE  ListInv'
<1>1. CASE FatalAppExit
  <2>1. flag' \in BOOLEAN /\ UNCHANGED <<lpTaskHead, hCurrentTask, posted, input>>
    BY <1>1 DEF FatalAppExit
  <2>2. CASE DeleteTask(TASK_READY)
    BY <2>1, <2>2, ListTypes, DeleteTaskLists
  <2>3. CASE UNCHANGED <<TASK_DELETE_PENDING, TASK_READY, frames>>
    BY <2>1, <2>3, KnownStep DEF ListInv, Known
  <2> QED
    BY <1>1, <2>2, <2>3 DEF FatalAppExit
<1>2. ASSUME NEW messageBox \in BOOLEAN, EndTask(messageBox)
      PROVE  ListInv'
  <2>1. flag' \in BOOLEAN /\ UNCHANGED <<lpTaskHead, hCurrentTask, posted, input>>
    BY <1>2 DEF EndTask, ListInv
  <2>2. CASE DeleteTask(IF messageBox THEN TasksIn(lpTaskHead) ELSE TASK_READY)
    BY <2>1, <2>2, ListTypes, DeleteTaskLists
  <2>3. CASE UNCHANGED <<TASK_DELETE_PENDING, TASK_READY, frames>>
    BY <2>1, <2>3, KnownStep DEF ListInv, Known
  <2> QED
    BY <1>2, <2>2, <2>3 DEF EndTask
<1> QED
  BY <1>1, <1>2

LEMMA DeleteLists ==
    ASSUME IInv, ListInv, IInv', DeleteReply \/ DeleteYield
    PROVE  ListInv'
<1>1. CASE DeleteReply
  BY <1>1, ListTypes, ReplyLists DEF DeleteReply
<1>2. CASE DeleteYield
  <2> DEFINE after == [frames EXCEPT ![c][Len(Here)] = Delete(TRUE)]
  <2>1. DOMAIN after = Task /\ \A u \in Task \ {c} : after[u] = frames[u]
    BY ListTypes
  <2>2. CASE InternalYield(after, TASK_READY) /\ UNCHANGED ends
    <3> HIDE DEF after
    <3> QED
      BY <2>1, <2>2, ListTypes, YieldLists
  <2>3. CASE InternalYield(frames, TASK_READY \ {c}) /\ UNCHANGED ends
    <3>1. TASK_READY \ {c} \in SUBSET Task
      BY ListTypes
    <3> QED
      BY <2>3, <3>1, ListTypes, YieldLists
  <2>4. CASE /\ TASK_READY' = TASK_READY \ {c}
             /\ UNCHANGED <<lpTaskHead, hCurrentTask, frames, posted, input, ends>>
    BY <2>4, StayLists DEF ListInv
  <2> QED
    BY <1>2, <2>2, <2>3, <2>4 DEF DeleteYield
<1> QED
  BY <1>1, <1>2

LEMMA ListsInductive ==
    ASSUME ~ HandlersReply, IInv, ListInv, IInv', [Next]_vars
    PROVE  ListInv'
<1>1. ASSUME NEW t \in Task, StartTask(t) \/ SendMessage(t) \/ PostMessage(t) \/ DriverEvent(t)
      PROVE  ListInv'
  BY <1>1, StartTaskLists, SendMessageLists, PostLists
<1>2. CASE Resume \/ SendReturn \/ SendWait \/ HandlerReturn
  BY <1>2, ResumeLists, SendReturnLists, SendWaitLists, HandlerReturnLists
<1>3. CASE EarlyReply
  BY <1>3 DEF EarlyReply
<1>4. CASE AppYield
  BY <1>4, ListTypes, YieldLists DEF AppYield, Yield
<1>5. CASE GetMessage
  BY <1>5, ListTypes, StayLists DEF GetMessage, ListInv
<1>6. ASSUME NEW busyDriver \in BOOLEAN, GetStep(busyDriver)
      PROVE  ListInv'
  BY <1>6, GetStepLists
<1>7. CASE FatalAppExit \/ \E messageBox \in BOOLEAN : EndTask(messageBox)
  BY <1>7, EndLists
<1>8. CASE DeleteReply \/ DeleteYield
  BY <1>8, DeleteLists
<1>9. CASE UNCHANGED vars
  BY <1>9, StayLists DEF vars, schedVars, ListInv
<1> QED
  BY <1>1, <1>2, <1>3, <1>4, <1>5, <1>6, <1>7, <1>8, <1>9 DEF Next, Step

LEMMA InitLists ==
    ASSUME Init
    PROVE  ListInv
<1>1. lpTaskHead = <<Native>> /\ Native \in Task
  BY TaskAssumption DEF Init
<1>2. Distinct(lpTaskHead) /\ Native \in TasksIn(lpTaskHead)
  <2>1. Len(lpTaskHead) = 1 /\ lpTaskHead[1] = Native
    BY <1>1
  <2> QED
    BY <2>1 DEF Distinct, TasksIn
<1>3. 0 \in 0 .. MaxPosts /\ 0 \in 0 .. MaxInput
  BY SendAssumption
<1>4. posted \in [Task -> 0 .. MaxPosts] /\ input \in [Task -> 0 .. MaxInput]
  BY <1>3 DEF Init
<1>5. \A t \in Task : frames[t] = <<>>
  BY DEF Init
<1> QED
  BY <1>1, <1>2, <1>4, <1>5 DEF Init, ListInv, Known

\* Wherever window procedures answer by returning, every variable keeps its type: the
\* task list has no task twice however tasks start and are freed, only tasks of the list
\* or told to end have anything on their C stacks, no window procedure is called for a
\* message that was not sent, and queues stay within their size (KrnTask.c:210-345).
THEOREM TypeCorrect ==
    ASSUME ~ HandlersReply
    PROVE  Spec => []TypeOK
<1>1. Init => ListInv
  BY InitLists
<1>2. IInv /\ IInv' /\ ListInv /\ [Next]_vars => ListInv'
  BY ListsInductive
<1>3. IInv /\ ListInv => TypeOK
  <2> SUFFICES ASSUME IInv, ListInv
               PROVE  TypeOK
    OBVIOUS
  <2>1. Cardinality(TasksIn(lpTaskHead)) = Len(lpTaskHead)
    BY DistinctCounts DEF IInv, Types, ListInv
  <2>2. \A t \in Task : \A i \in 1 .. Len(frames[t]) : frames[t][i] \in Frame
    BY ElementOfSeq DEF IInv, Types
  <2> QED
    BY <2>1, <2>2 DEF TypeOK, IInv, Types, ListInv, Known
<1> QED
  BY <1>1, <1>2, <1>3, Invariant, PTL DEF Spec
=============================================================================
