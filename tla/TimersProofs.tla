---------------------------- MODULE TimersProofs ----------------------------
(***************************************************************************)
(* The inductive invariant of the timers and the driver's wait, and the    *)
(* theorems that follow from it, for tables, programs and events of every  *)
(* number and timers of every length.                                      *)
(***************************************************************************)
EXTENDS Timers, FiniteSetsExt, FiniteSetTheorems, TLAPS

----------------------------------------------------------------------------
(* Sets of numbers *)

\* A set of natural numbers that is not empty has a smallest element.
LEMMA MinNat ==
    ASSUME NEW S, S \subseteq Nat, S # {}
    PROVE  Min(S) \in S /\ \A y \in S : Min(S) <= y
<1>1. PICK x \in S : \A y \in S : ~ (<<y, x>> \in OpToRel(<, Nat))
  BY NatLessThanWellFounded, WFMin
<1>2. \A y \in S : ~ (y < x)
  BY <1>1, Zenon DEF OpToRel
<1>3. \A y \in S : x <= y
  BY <1>2
<1> QED
  BY <1>3 DEF Min

\* A finite one that is not empty has a largest: the one from which the smallest set of others goes up.
LEMMA MaxNat ==
    ASSUME NEW S, S \subseteq Nat, S # {}, IsFiniteSet(S)
    PROVE  Max(S) \in S /\ \A y \in S : y <= Max(S)
<1> DEFINE From(x) == {y \in S : x <= y}
           T == {From(x) : x \in S}
<1>1. T \subseteq FiniteSubsetsOf(S) /\ T # {}
  <2>1. \A x \in S : From(x) \subseteq S /\ IsFiniteSet(From(x))
    BY FS_Subset
  <2> QED
    BY <2>1 DEF FiniteSubsetsOf
<1>2. PICK I \in T : \A J \in T : ~ (<<J, I>> \in StrictSubsetOrdering(S))
  <2> HIDE DEF T
  <2> QED
    BY <1>1, FS_StrictSubsetOrderingWellFounded, WFMin
<1>3. PICK x \in S : I = From(x)
  OBVIOUS
<1>4. \A y \in S : x >= y
  <2>1. SUFFICES ASSUME NEW y \in S, x < y
                 PROVE  FALSE
    OBVIOUS
  <2>2. From(y) \subseteq From(x) /\ From(y) # From(x)
    <3>1. x \in From(x) /\ x \notin From(y)
      BY <2>1
    <3>2. \A z \in S : y <= z => x <= z
      <4> TAKE z \in S
      <4>1. x \in Nat /\ y \in Nat /\ z \in Nat
        OBVIOUS
      <4> QED
        BY <2>1, <4>1
    <3> QED
      BY <3>1, <3>2
  <2>3. <<From(y), From(x)>> \in StrictSubsetOrdering(S)
    BY <2>2 DEF StrictSubsetOrdering
  <2> QED
    BY <1>2, <1>3, <2>3
<1>5. x = Max(S) \/ \A y \in S : Max(S) >= y /\ Max(S) \in S
  BY <1>4 DEF Max
<1> QED
  BY <1>4, <1>5 DEF Max

----------------------------------------------------------------------------
NatTimer == [hTask : Task, hWnd : Window \cup {NoWindow}, uID : Nat, uTimeout : Nat \ {0},
             nWaitTime : Nat]

Event == [to : Task \cup {NoTask}, isDated : BOOLEAN, since : Nat]

\* What is needed of the types.
TableOK ==
    /\ SyncTimers \in [Slot -> NatTimer \cup {FreeTimer}]
    /\ nMaxTimer \in Slot /\ nOffset \in Nat
    /\ hCurrentTask \in Task /\ live \subseteq Task /\ windows \subseteq Window
    /\ QFTIMER \subseteq Task
    /\ events \in Seq(Event)
    /\ lag \in Nat

Started  == [at : {"start"}, call : Call]
InLoop   == [at : {"loop"}, call : Call, timer : Int, timing : BOOLEAN]
InSelect == [at : {"select"}, call : Call, timer : Nat, timing : BOOLEAN, left : Int]

\* While DriverWaitEvent goes on, timer is what TWIN_GetTimeout would still say.
DriverOK ==
    \/ driver = Idle
    \/ driver \in Started
    \/ driver \in InLoop \cup InSelect /\ driver.timer = Timeout(0)

IInv == TableOK /\ DriverOK /\ MarkCovers /\ ExpiredAnnounced

----------------------------------------------------------------------------
\* A time that saturates is still one.
LEMMA CappedNat == ASSUME NEW time \in Nat PROVE Capped(time) \in Nat
<1>1. MaxTime \in Nat
  BY MaxNat, TimeAssumption DEF MaxTime
<1> QED
  BY <1>1 DEF Capped

----------------------------------------------------------------------------
\* The parts of the steps

\* What TWIN_GetTimeout returns: 0 only without timers, and else, if it is positive,
\* the time to the first.
LEMMA TimeoutNext ==
    ASSUME TableOK, NEW time \in Nat
    PROVE  /\ Timeout(time) \in Int
           /\ Timeout(time) = 0 => Used = {}
           /\ Timeout(time) > 0 =>
                 /\ \A n \in Used : Timeout(time) <= SyncTimers[n].nWaitTime - time
                 /\ \E n \in Used : Timeout(time) = SyncTimers[n].nWaitTime - time
<1> DEFINE S == {SyncTimers[n].nWaitTime - time : n \in Used}
<1>1. CASE Expired(time) # {} \/ Used = {}
  BY <1>1 DEF Timeout, Expired
<1>2. CASE Expired(time) = {} /\ Used # {}
  <2>1. \A n \in Used : SyncTimers[n].nWaitTime \in Nat
    BY DEF TableOK, Used, NatTimer, FreeTimer
  <2>2. \A n \in Used : SyncTimers[n].nWaitTime > time
    BY <1>2, <2>1 DEF Expired
  <2>3. \A s \in S : s \in Nat /\ s > 0
    BY <2>1, <2>2
  <2>4. Min(S) \in S /\ \A s \in S : Min(S) <= s
    <3>1. S \subseteq Nat /\ S # {}
      BY <1>2, <2>3
    <3> HIDE DEF S
    <3> QED
      BY <3>1, MinNat
  <2>5. Timeout(time) = Min(S)
    BY <1>2 DEF Timeout
  <2> HIDE DEF S
  <2>6. Timeout(time) \in Nat /\ Timeout(time) > 0
    BY <2>3, <2>4, <2>5
  <2>7. \A n \in Used : Timeout(time) <= SyncTimers[n].nWaitTime - time
    BY <2>4, <2>5 DEF S
  <2>8. \E n \in Used : Timeout(time) = SyncTimers[n].nWaitTime - time
    BY <2>4, <2>5 DEF S
  <2> QED
    BY <2>6, <2>7, <2>8
<1> QED
  BY <1>1, <1>2

\* Counting time keeps the table and announces what has expired.
LEMMA CountDownKeeps ==
    ASSUME TableOK, MarkCovers, NEW time \in Nat, GetTimeout(time)
    PROVE  /\ SyncTimers' \in [Slot -> NatTimer \cup {FreeTimer}]
           /\ Used' = Used /\ nMaxTimer' = nMaxTimer /\ nOffset' = nOffset
           /\ \A n \in Used' : SyncTimers'[n].nWaitTime = 0 /\ SyncTimers'[n].hTask \in live =>
                  SyncTimers'[n].hTask \in FlagsAfter(time)
           /\ FlagsAfter(time) \subseteq Task
<1>1. \A n \in Used : SyncTimers[n] \in NatTimer
  BY DEF TableOK, Used, FreeTimer
<1>2. \A n \in Used : /\ SyncTimers'[n] \in NatTimer
                      /\ SyncTimers'[n].hTask = SyncTimers[n].hTask
                      /\ SyncTimers'[n].nWaitTime = 0 => SyncTimers[n].nWaitTime <= time
  BY <1>1 DEF GetTimeout, CountDown, Used, NatTimer
<1>3. \A n \in Slot \ Used : SyncTimers'[n] = SyncTimers[n]
  BY DEF GetTimeout, CountDown
<1>4. SyncTimers' \in [Slot -> NatTimer \cup {FreeTimer}]
  <2>1. DOMAIN SyncTimers' = Slot /\ SyncTimers' = [n \in Slot |-> SyncTimers'[n]]
    BY DEF GetTimeout, CountDown
  <2>2. \A n \in Slot : SyncTimers'[n] \in NatTimer \cup {FreeTimer}
    BY <1>2, <1>3 DEF TableOK, Used
  <2> QED
    BY <2>1, <2>2
<1>5. Used' = Used
  BY <1>2, <1>3 DEF Used
<1>6. \A n \in Used : SyncTimers'[n].nWaitTime = 0 /\ SyncTimers'[n].hTask \in live =>
          SyncTimers'[n].hTask \in FlagsAfter(time)
  BY <1>2 DEF FlagsAfter, Announced, Expired
<1> QED
  BY <1>4, <1>5, <1>6 DEF GetTimeout, FlagsAfter, TableOK

\* A call of DriverWaitEvent that ends leaves the driver idle or about to start again, a
\* task that was not freed to run, and the flags of those that were not.
LEMMA ReturnsKeeps ==
    ASSUME NEW r, NEW inputs, NEW flags, driver.call \in Call, Returns(r, inputs, flags)
    PROVE  /\ driver' = Idle \/ driver' \in Started
           /\ hCurrentTask' = hCurrentTask \/ hCurrentTask' \in live
           /\ live' \subseteq live /\ windows' \subseteq windows
           /\ QFTIMER' \subseteq flags /\ \A t \in live' \cap flags : t \in QFTIMER'
<1> DEFINE Freed == \E freed : FreeTask(freed, inputs, flags)
           woken == TASK_READY \cup {t \in live : inputs[t] > 0}
           alive == live \ TASK_DELETE_PENDING
           ready == ((woken \cup flags) \cap alive) \ {c}
<1>1. CASE driver.call = "first"
  <2>1. Freed
    BY <1>1 DEF Returns
  <2>2. /\ driver' = Idle \/ driver' \in Started
        /\ hCurrentTask' = hCurrentTask
    BY <1>1 DEF Returns, Start, Started, Call
  <2> QED
    BY <2>1, <2>2 DEF FreeTask
<1>2. CASE driver.call \in {"stay", "yield"}
  <2>1. /\ \/ \E t \in ready : hCurrentTask' = t /\ driver' = Idle
           \/ /\ driver' = Start("second") \/ driver' = Idle
              /\ hCurrentTask' = hCurrentTask
        /\ Freed
    BY <1>2 DEF Returns
  <2> QED
    BY <2>1 DEF Start, Started, Call, FreeTask
<1>3. CASE driver.call = "end"
  <2>1. /\ \/ \E t \in alive : hCurrentTask' = t /\ driver' = Idle
           \/ driver' = Start("end") /\ hCurrentTask' = hCurrentTask
        /\ Freed
    BY <1>3 DEF Returns
  <2> QED
    BY <2>1 DEF Start, Started, Call, FreeTask
<1>4. CASE driver.call = "second"
  BY <1>4 DEF Returns, FreeTask
<1> QED
  BY <1>1, <1>2, <1>3, <1>4 DEF Call

\* While the table's timers wait for as long as before, TWIN_GetTimeout says the same.
LEMMA SameTimeout ==
    ASSUME Used' = Used, \A n \in Used : SyncTimers'[n].nWaitTime = SyncTimers[n].nWaitTime
    PROVE  Timeout(0)' = Timeout(0)
<1>1. Expired(0)' = Expired(0)
  BY DEF Expired
<1>2. {SyncTimers[n].nWaitTime - 0 : n \in Used}' = {SyncTimers[n].nWaitTime - 0 : n \in Used}
  OBVIOUS
<1> QED
  BY <1>1, <1>2 DEF Timeout

----------------------------------------------------------------------------
\* The invariant

LEMMA Initially == Init => IInv
<1> SUFFICES ASSUME Init PROVE IInv
  OBVIOUS
<1>1. TableOK
  BY TableAssumption DEF Init, TableOK, Slot
<1>2. Used = {}
  BY DEF Init, Used, FreeTimer
<1> QED
  BY <1>1, <1>2 DEF Init, IInv, DriverOK, MarkCovers, ExpiredAnnounced

\* SetTimer and KillTimer.
LEMMA SetTimerKeeps ==
    ASSUME IInv, NEW w \in Window \cup {NoWindow}, NEW id \in Ids, NEW time \in Timeouts,
           SetTimer(w, id, time)
    PROVE  IInv'
<1> USE DEF IInv
<1> DEFINE free == Slot \ Used
           n == Min(free)
<1>0. driver = Idle /\ driver' = Idle /\ UNCHANGED <<tasks, calls, driver, world>>
  BY DEF SetTimer, InProgram
<1>1. CASE free = {}
  <2>1. UNCHANGED <<table, tasks, driver, world>>
    BY <1>0, <1>1 DEF SetTimer
  <2> QED
    BY <2>1, <1>0 DEF table, tasks, world, TableOK, DriverOK, MarkCovers, ExpiredAnnounced, Used
<1>2. CASE free # {}
  <2> DEFINE new == NewTimer(WindowTask(w), w, IF w = NoWindow THEN n + 1 ELSE id, time)
  <2>1. n \in free
    BY <1>2, MinNat DEF Slot
  <2>2. /\ SyncTimers' = [SyncTimers EXCEPT ![n] = new]
        /\ nMaxTimer' = SetMark(n) /\ UNCHANGED <<nOffset, QFTIMER>>
    BY <1>2 DEF SetTimer
  <2> HIDE DEF n
  <2>3. WindowTask(w) \in Task
    BY OwnerAssumption DEF TableOK, WindowTask, c
  <2>4. new \in NatTimer
    BY <2>1, <2>3, TableAssumption, TimeAssumption DEF NewTimer, NatTimer, Slot
  <2>5. new.nWaitTime # 0 /\ new.hTask # NoTask
    BY <2>3, TimeAssumption, NameAssumption DEF NewTimer
  <2> HIDE DEF new
  <2>6. Used' = Used \cup {n}
    BY <2>1, <2>2, <2>5 DEF TableOK, Used
  <2>7. n \in Slot /\ nMaxTimer' \in Slot /\ n <= nMaxTimer' /\ nMaxTimer <= nMaxTimer'
    BY <2>1, <2>2 DEF TableOK, SetMark, Slot
  <2>8. TableOK'
    BY <1>0, <2>2, <2>4, <2>7 DEF TableOK, tasks, world
  <2>9. MarkCovers'
    BY <2>6, <2>7 DEF MarkCovers, Used, Slot, TableOK
  <2>10. ExpiredAnnounced'
    BY <1>0, <2>2, <2>5, <2>6 DEF ExpiredAnnounced, Idle, TableOK, Used, tasks
  <2> QED
    BY <1>0, <2>8, <2>9, <2>10 DEF DriverOK
<1> QED
  BY <1>1, <1>2

LEMMA KillTimerKeeps ==
    ASSUME IInv, NEW w \in Window \cup {NoWindow}, NEW id \in Ids, KillTimer(w, id)
    PROVE  IInv'
<1> USE DEF IInv
<1> DEFINE same == {n \in Used : /\ SyncTimers[n].hTask = WindowTask(w)
                                 /\ SyncTimers[n].hWnd = w /\ SyncTimers[n].uID = id}
           n == Min(same)
<1>0. driver = Idle /\ driver' = Idle /\ UNCHANGED <<tasks, calls, driver, world>>
  BY DEF KillTimer, InProgram
<1>1. CASE same = {}
  <2>1. UNCHANGED <<table, tasks, driver, world>>
    BY <1>0, <1>1 DEF KillTimer
  <2> QED
    BY <2>1, <1>0 DEF table, tasks, world, TableOK, DriverOK, MarkCovers, ExpiredAnnounced, Used
<1>2. CASE same # {}
  <2>1. n \in same
    BY <1>2, MinNat DEF Slot, Used
  <2>2. /\ SyncTimers' = [SyncTimers EXCEPT ![n] = FreeTimer]
        /\ nMaxTimer' = KillMark(n) /\ UNCHANGED <<nOffset, QFTIMER>>
    BY <1>2 DEF KillTimer
  <2>3. n \in Used
    BY <2>1
  <2> HIDE DEF n, same
  <2>4. Used' = Used \ {n}
    BY <2>2, <2>3 DEF TableOK, Used, FreeTimer
  <2>5. nMaxTimer' \in Slot /\ \A m \in Used \ {n} : m <= nMaxTimer'
    <3>1. CASE n # nMaxTimer
      BY <2>2, <3>1 DEF KillMark, MarkCovers, TableOK
    <3>2. CASE n = nMaxTimer
      <4> DEFINE S == {0} \cup {m \in Used : m < n}
      <4>1. S \subseteq Nat /\ S # {} /\ IsFiniteSet(S) /\ S \subseteq Slot
        <5>1. S \subseteq 0 .. SYNC_TIMERS - 1
          BY TableAssumption DEF Slot, Used
        <5>2. IsFiniteSet(0 .. SYNC_TIMERS - 1)
          <6>1. 0 \in Int /\ SYNC_TIMERS - 1 \in Int
            BY TableAssumption
          <6> QED
            BY <6>1, FS_Interval
        <5>3. IsFiniteSet(S)
          BY <5>1, <5>2, FS_Subset
        <5> QED
          BY <5>1, <5>3 DEF Slot
      <4>2. Max(S) \in S /\ \A y \in S : y <= Max(S)
        BY <4>1, MaxNat
      <4>3. nMaxTimer' = Max(S)
        BY <2>2, <3>2 DEF KillMark
      <4>4. \A m \in Used \ {n} : m \in S
        BY <3>2, <2>3 DEF MarkCovers, Used, Slot
      <4> QED
        BY <4>1, <4>2, <4>3, <4>4
    <3> QED
      BY <3>1, <3>2
  <2>6. TableOK'
    BY <1>0, <2>2, <2>5 DEF TableOK, tasks, world
  <2>7. MarkCovers'
    BY <2>4, <2>5 DEF MarkCovers
  <2>8. ExpiredAnnounced'
    BY <1>0, <2>2, <2>3, <2>4 DEF ExpiredAnnounced, Idle, TableOK, Used, tasks
  <2> QED
    BY <1>0, <2>6, <2>7, <2>8 DEF DriverOK
<1> QED
  BY <1>1, <1>2

\* The slots TWIN_GetTimerMsg looks at are in the table, and what it takes for timers
\* of the task are timers.
LEMMA LookedUp ==
    ASSUME TableOK, Searched
    PROVE  /\ \A k \in 0 .. nMaxTimer : Looked(k) \in 0 .. nMaxTimer
           /\ \A k \in DueAt : Looked(k) \in Used
           /\ DueAt \subseteq Nat
           /\ NextOffset \in Nat
<1>1. \A a \in Nat, b \in Nat \ {0} : a % b \in 0 .. b - 1
  OBVIOUS
<1>2. nMaxTimer \in Nat /\ nMaxTimer <= SYNC_TIMERS - 1 /\ nOffset \in Nat
  BY TableAssumption DEF TableOK, Slot
<1>3. \A k \in 0 .. nMaxTimer : Looked(k) \in 0 .. nMaxTimer
  BY <1>1, <1>2 DEF Looked
<1>4. Here.hTask # NoTask
  BY NameAssumption DEF Searched, TableOK
<1>5. \A k \in 0 .. nMaxTimer : Looked(k) \in Slot
  BY <1>2, <1>3, TableAssumption DEF Slot
<1>6. \A k \in DueAt : Looked(k) \in Used
  BY <1>4, <1>5 DEF DueAt, Used
<1>7. NextOffset \in Nat
  BY <1>1, <1>2 DEF NextOffset
<1> QED
  BY <1>2, <1>3, <1>6, <1>7 DEF DueAt

\* GetMessage and PeekMessage find a timer, or none.
LEMMA GetTimerKeeps ==
    ASSUME IInv, GetTimer
    PROVE  IInv'
<1> USE DEF IInv
<1>0. driver = Idle /\ driver' = Idle /\ UNCHANGED <<nMaxTimer, QFTIMER, tasks, world>>
  BY DEF GetTimer, Searched, Looping
<1>1. nOffset' \in Nat
  BY LookedUp DEF GetTimer
<1>2. \A n \in Used : SyncTimers[n] \in NatTimer
  BY DEF TableOK, Used, FreeTimer
<1>3. PICK n \in Used, gone \in SUBSET Slot :
         SyncTimers' = [m \in Slot |-> IF m \in gone THEN FreeTimer
                                       ELSE IF m = n /\ Here.remove THEN Restarted(n)
                                       ELSE SyncTimers[m]]
  <2> DEFINE k    == Min(Hits)
             gone == {Looked(j) : j \in {i \in Orphans : i < k}}
  <2>1. Hits # {} /\ Hits \subseteq DueAt
    BY DEF GetTimer, Hits
  <2>2. k \in Hits
    BY <2>1, MinNat, LookedUp DEF GetTimer
  <2>3. Looked(k) \in Used
    BY <2>1, <2>2, LookedUp DEF GetTimer
  <2>4. gone \subseteq Slot
    BY LookedUp DEF GetTimer, Orphans, Used
  <2>5. SyncTimers' = [m \in Slot |-> IF m \in gone THEN FreeTimer
                                      ELSE IF m = Looked(k) /\ Here.remove THEN Restarted(Looked(k))
                                      ELSE SyncTimers[m]]
    BY DEF GetTimer
  <2> QED
    BY <2>3, <2>4, <2>5
<1>4. Restarted(n) \in NatTimer /\ Restarted(n).nWaitTime # 0
  BY <1>2, <1>3 DEF Restarted, NatTimer
<1>5. SyncTimers' \in [Slot -> NatTimer \cup {FreeTimer}]
  BY <1>3, <1>4 DEF TableOK
<1>6. \A m \in Used' : /\ m \in Used
                       /\ SyncTimers'[m].nWaitTime = 0 => SyncTimers'[m] = SyncTimers[m]
  BY <1>3, <1>4 DEF Used, FreeTimer
<1>7. TableOK'
  BY <1>0, <1>1, <1>5 DEF TableOK, tasks, world
<1>8. MarkCovers'
  BY <1>0, <1>6 DEF MarkCovers
<1>9. ExpiredAnnounced'
  BY <1>0, <1>6 DEF ExpiredAnnounced, Idle, tasks
<1> QED
  BY <1>0, <1>7, <1>8, <1>9 DEF DriverOK

LEMMA GetNothingKeeps ==
    ASSUME IInv, GetNothing
    PROVE  IInv'
<1> USE DEF IInv
<1>0. driver' \in Started /\ driver'.at = "start" /\ UNCHANGED <<nMaxTimer, tasks, world>>
  BY DEF GetNothing, Start, Started, Call, table
<1>1. CASE Searched
  <2>1. /\ SyncTimers' = [m \in Slot |-> IF m \in {Looked(k) : k \in Orphans}
                                         THEN FreeTimer ELSE SyncTimers[m]]
        /\ QFTIMER' \subseteq QFTIMER
        /\ nOffset' = NextOffset
    BY <1>1 DEF GetNothing
  <2>2. TableOK'
    BY <1>0, <1>1, <2>1, LookedUp DEF TableOK, tasks, world
  <2>3. MarkCovers'
    BY <1>0, <2>1 DEF MarkCovers, Used, FreeTimer
  <2> QED
    BY <1>0, <2>2, <2>3 DEF DriverOK, ExpiredAnnounced
<1>2. CASE ~Searched
  <2>1. UNCHANGED <<table, tasks, world>>
    BY <1>0, <1>2 DEF GetNothing
  <2> QED
    BY <1>0, <2>1 DEF table, tasks, world, TableOK, DriverOK, MarkCovers, ExpiredAnnounced, Used
<1> QED
  BY <1>1, <1>2

\* DriverWaitEvent begins, sleeps and wakes.
LEMMA EnterKeeps ==
    ASSUME IInv, Enter
    PROVE  IInv'
<1> USE DEF IInv
<1>1. /\ driver.at = "start" /\ driver.call \in Call /\ GetTimeout(0) /\ QFTIMER' = FlagsAfter(0)
      /\ UNCHANGED <<tasks, world>>
  BY DEF Enter, DriverOK, Idle, Started, InLoop, InSelect
<1>2. driver' = [at |-> "loop", call |-> driver.call, timer |-> Timeout(0),
                 timing |-> Timeout(0) # 0 /\ dated]
  BY DEF Enter
<1>3. /\ SyncTimers' \in [Slot -> NatTimer \cup {FreeTimer}]
      /\ Used' = Used /\ nMaxTimer' = nMaxTimer /\ nOffset' = nOffset
      /\ \A n \in Used' : SyncTimers'[n].nWaitTime = 0 /\ SyncTimers'[n].hTask \in live =>
             SyncTimers'[n].hTask \in QFTIMER'
      /\ QFTIMER' \subseteq Task
  BY <1>1, CountDownKeeps
<1>4. Timeout(0)' = Timeout(0)
  <2>1. \A n \in Used : SyncTimers[n] \in NatTimer
    BY DEF TableOK, Used, FreeTimer
  <2>2. \A n \in Used : SyncTimers'[n].nWaitTime = SyncTimers[n].nWaitTime
    BY <1>1, <2>1 DEF GetTimeout, CountDown, NatTimer, Used
  <2> QED
    BY <1>3, <2>2, SameTimeout
<1>5. Timeout(0) \in Int
  BY TimeoutNext
<1>6. TableOK'
  BY <1>1, <1>3 DEF TableOK, tasks, world
<1>7. DriverOK'
  <2>1. driver' \in InLoop
    BY <1>1, <1>2, <1>5 DEF InLoop
  <2> QED
    BY <1>2, <1>4, <2>1 DEF DriverOK
<1>8. MarkCovers' /\ ExpiredAnnounced'
  BY <1>1, <1>3 DEF MarkCovers, ExpiredAnnounced, tasks
<1> QED
  BY <1>6, <1>7, <1>8

LEMMA SelectKeeps ==
    ASSUME IInv, Select
    PROVE  IInv'
<1> USE DEF IInv
<1>1. /\ driver \in InLoop /\ driver.timer = Timeout(0)
      /\ UNCHANGED <<SyncTimers, nMaxTimer, nOffset, world>>
  BY DEF Select, DriverOK, Idle, Started, InSelect, InLoop
<1>2. /\ hCurrentTask' \in Task
      /\ live' \subseteq live /\ windows' \subseteq windows
      /\ QFTIMER' \subseteq QFTIMER /\ \A t \in live' \cap QFTIMER : t \in QFTIMER'
      /\ \/ driver' = Idle
         \/ driver' \in Started
         \/ driver' \in InSelect /\ driver'.timer = Timeout(0)
  <2>1. CASE driver.timer < 0 \/ (NoWait /\ driver.timer = 0)
    <3>1. Returns(0, input, QFTIMER) /\ driver.call \in Call
      BY <1>1, <2>1 DEF Select, InLoop
    <3> QED
      BY <3>1, ReturnsKeeps DEF TableOK
  <2>2. CASE ~(driver.timer < 0 \/ (NoWait /\ driver.timer = 0))
    <3>1. driver' = [at |-> "select", call |-> driver.call, timer |-> driver.timer,
                     timing |-> driver.timing, left |-> SelectTime(driver.timer)]
      BY <2>2 DEF Select
    <3>2. driver.timer \in Nat
      BY <1>1, <2>2 DEF InLoop
    <3>3. SelectTime(driver.timer) \in Int
      BY <3>2, TimeAssumption DEF SelectTime
    <3>4. UNCHANGED <<QFTIMER, hCurrentTask, live, windows>>
      BY <2>2 DEF Select, tasks
    <3> QED
      BY <1>1, <3>1, <3>2, <3>3, <3>4 DEF InLoop, InSelect, TableOK
  <2> QED
    BY <2>1, <2>2
<1>3. Used' = Used /\ Timeout(0)' = Timeout(0)
  BY <1>1, SameTimeout DEF Used
<1>4. driver.at # "start"
  BY <1>1 DEF InLoop
<1>5. TableOK'
  BY <1>1, <1>2 DEF TableOK, world
<1>6. MarkCovers' /\ ExpiredAnnounced'
  BY <1>1, <1>2, <1>3, <1>4 DEF MarkCovers, ExpiredAnnounced
<1>7. DriverOK'
  BY <1>2, <1>3 DEF DriverOK
<1> QED
  BY <1>5, <1>6, <1>7

LEMMA ReadEventKeeps ==
    ASSUME IInv, ReadEvent
    PROVE  IInv'
<1> USE DEF IInv
<1> DEFINE e     == Head(events)
           counts == e.to \in live /\ driver.timing /\ e.since > 0
           flags == IF counts THEN FlagsAfter(e.since) ELSE QFTIMER
<1>1. driver \in InLoop /\ lag' = lag
  BY DEF ReadEvent, DriverOK, Idle, Started, InSelect, InLoop
<1>2. e \in Event /\ events' \in Seq(Event)
  <2>1. events \in Seq(Event) /\ events # <<>> /\ events' = Tail(events)
    BY DEF ReadEvent, TableOK
  <2> QED
    BY <2>1
<1>3. /\ driver' = Idle \/ driver' \in Started
      /\ hCurrentTask' \in Task
      /\ live' \subseteq live /\ windows' \subseteq windows
      /\ QFTIMER' \subseteq flags /\ \A t \in live' \cap flags : t \in QFTIMER'
  <2>1. driver.call \in Call
    BY <1>1 DEF InLoop
  <2>2. \E r, inputs : Returns(r, inputs, flags)
    BY DEF ReadEvent
  <2> HIDE DEF flags
  <2> QED
    BY <2>1, <2>2, ReturnsKeeps DEF TableOK
<1>4. driver.at # "start"
  BY <1>1 DEF InLoop
<1>5. /\ SyncTimers' \in [Slot -> NatTimer \cup {FreeTimer}]
      /\ Used' = Used /\ nMaxTimer' = nMaxTimer /\ nOffset' = nOffset
      /\ \A n \in Used' : SyncTimers'[n].nWaitTime = 0 /\ SyncTimers'[n].hTask \in live =>
             SyncTimers'[n].hTask \in flags
      /\ flags \subseteq Task
  <2>1. CASE counts
    <3>1. e.since \in Nat /\ GetTimeout(e.since)
      BY <1>2, <2>1 DEF Event, ReadEvent
    <3> QED
      BY <2>1, <3>1, CountDownKeeps
  <2>2. CASE ~counts
    <3>1. UNCHANGED <<SyncTimers, nMaxTimer, nOffset>> /\ flags = QFTIMER
      BY <2>2 DEF ReadEvent
    <3> QED
      BY <1>4, <3>1 DEF TableOK, ExpiredAnnounced, Used
  <2> QED
    BY <2>1, <2>2
<1> HIDE DEF flags
<1>6. TableOK'
  BY <1>1, <1>2, <1>3, <1>5 DEF TableOK
<1>7. MarkCovers' /\ ExpiredAnnounced'
  BY <1>3, <1>5 DEF MarkCovers, ExpiredAnnounced
<1> QED
  BY <1>3, <1>6, <1>7 DEF DriverOK

LEMMA AwakeKeeps ==
    ASSUME IInv, Awake
    PROVE  IInv'
<1> USE DEF IInv
<1>1. /\ driver \in InSelect /\ driver.timer = Timeout(0)
      /\ UNCHANGED <<table, tasks, world>>
  BY DEF Awake, DriverOK, Idle, Started, InSelect, InLoop
<1>2. driver' \in InLoop /\ driver'.timer = Timeout(0)
  BY <1>1 DEF Awake, InSelect, InLoop
<1>3. Timeout(0)' = Timeout(0)
  BY <1>1, SameTimeout DEF table, Used
<1>4. driver.at # "start"
  BY <1>1 DEF InSelect
<1>5. TableOK'
  BY <1>1 DEF TableOK, table, tasks, world
<1>6. MarkCovers' /\ ExpiredAnnounced'
  BY <1>1, <1>4 DEF MarkCovers, ExpiredAnnounced, table, tasks, Used
<1> QED
  BY <1>2, <1>3, <1>5, <1>6 DEF DriverOK

LEMMA TimesOutKeeps ==
    ASSUME IInv, TimesOut
    PROVE  IInv'
<1> USE DEF IInv
<1>1. driver \in InSelect /\ UNCHANGED world /\ GetTimeout(driver.timer)
  BY DEF TimesOut, DriverOK, Idle, Started, InSelect, InLoop
<1>2. /\ driver' = Idle \/ driver' \in Started
      /\ hCurrentTask' \in Task
      /\ live' \subseteq live /\ windows' \subseteq windows
      /\ QFTIMER' \subseteq FlagsAfter(driver.timer)
      /\ \A t \in live' \cap FlagsAfter(driver.timer) : t \in QFTIMER'
  <2>1. driver.call \in Call
    BY <1>1 DEF InSelect
  <2> QED
    BY <2>1, ReturnsKeeps DEF TimesOut, TableOK
<1>3. driver.timer \in Nat
  BY <1>1 DEF InSelect
<1>4. /\ SyncTimers' \in [Slot -> NatTimer \cup {FreeTimer}]
      /\ Used' = Used /\ nMaxTimer' = nMaxTimer /\ nOffset' = nOffset
      /\ \A n \in Used' : SyncTimers'[n].nWaitTime = 0 /\ SyncTimers'[n].hTask \in live =>
             SyncTimers'[n].hTask \in FlagsAfter(driver.timer)
      /\ FlagsAfter(driver.timer) \subseteq Task
  BY <1>1, <1>3, CountDownKeeps
<1>5. TableOK'
  BY <1>1, <1>2, <1>4 DEF TableOK, world
<1>6. MarkCovers' /\ ExpiredAnnounced'
  BY <1>2, <1>4 DEF MarkCovers, ExpiredAnnounced
<1> QED
  BY <1>2, <1>5, <1>6 DEF DriverOK

\* Time passes, and the table does not know of it.
LEMMA TickKeeps ==
    ASSUME IInv, Tick
    PROVE  IInv'
<1> USE DEF IInv
<1>1. UNCHANGED <<table, tasks, events>>
  BY DEF Tick
<1>2. lag' \in Nat
  BY CappedNat DEF Tick, TableOK
<1>3. Used' = Used /\ Timeout(0)' = Timeout(0)
  BY <1>1, SameTimeout DEF table, Used
<1>4. driver' = driver \/ (driver \in InSelect /\ driver' \in InSelect
                           /\ driver'.timer = driver.timer)
  BY DEF Tick, DriverOK, Idle, Started, InLoop, InSelect
<1>5. TableOK'
  BY <1>1, <1>2 DEF TableOK, table, tasks
<1>6. MarkCovers'
  BY <1>1, <1>3 DEF MarkCovers, table
<1>7. ExpiredAnnounced'
  BY <1>1, <1>3, <1>4 DEF ExpiredAnnounced, InSelect, table, tasks
<1>8. DriverOK'
  <2>1. CASE driver' = driver
    BY <1>3, <2>1 DEF DriverOK
  <2>2. CASE driver \in InSelect /\ driver' \in InSelect /\ driver'.timer = driver.timer
    <3>1. driver.timer = Timeout(0)
      BY <2>2 DEF DriverOK, Idle, Started, InSelect
    <3> QED
      BY <1>3, <2>2, <3>1 DEF DriverOK
  <2> QED
    BY <1>4, <2>1, <2>2
<1> QED
  BY <1>5, <1>6, <1>7, <1>8

LEMMA ArriveKeeps ==
    ASSUME IInv, NEW to \in Task \cup {NoTask}, NEW isDated \in BOOLEAN, Arrive(to, isDated)
    PROVE  IInv'
<1> USE DEF IInv
<1>1. UNCHANGED <<table, tasks, driver>>
  BY DEF Arrive
<1>2. events' \in Seq(Event) /\ lag' \in Nat
  <2> DEFINE e == [to |-> to, isDated |-> isDated, since |-> IF isDated THEN lag ELSE 0]
  <2>1. e \in Event
    BY DEF TableOK, Event
  <2>2. events' = Append(events, e) /\ lag' \in {0, lag}
    BY DEF Arrive
  <2> HIDE DEF e
  <2> QED
    BY <2>1, <2>2 DEF TableOK
<1>3. Used' = Used /\ Timeout(0)' = Timeout(0)
  BY <1>1, SameTimeout DEF table, Used
<1>4. TableOK'
  BY <1>1, <1>2 DEF TableOK, table, tasks
<1> QED
  BY <1>1, <1>3, <1>4 DEF DriverOK, MarkCovers, ExpiredAnnounced, table, tasks

\* The other steps leave the table, or but take from the tasks and windows.
LEMMA ProgramKeeps ==
    ASSUME IInv, GetInput \/ EndTask \/ Yield \/ (\E w \in Window : DestroyWindow(w))
                 \/ \E r \in Requests : Ask(r)
    PROVE  IInv'
<1> USE DEF IInv
<1>1. /\ driver = Idle
      /\ driver' = Idle \/ driver' \in Started
      /\ UNCHANGED <<SyncTimers, nMaxTimer, nOffset, world>>
      /\ QFTIMER' \subseteq QFTIMER /\ \A t \in live' \cap QFTIMER : t \in QFTIMER'
      /\ live' \subseteq live /\ windows' \subseteq windows
      /\ hCurrentTask' = hCurrentTask \/ hCurrentTask' \in live
  <2>1. CASE GetInput
    BY <2>1 DEF GetInput, Looping, table, tasks
  <2>2. CASE EndTask
    BY <2>2 DEF EndTask, InProgram, Start, Started, Call, table
  <2>3. CASE Yield
    BY <2>3 DEF Yield, InProgram, Start, Started, Call, table
  <2>4. CASE \E w \in Window : DestroyWindow(w)
    BY <2>4 DEF DestroyWindow, InProgram, table
  <2>5. CASE \E r \in Requests : Ask(r)
    BY <2>5 DEF Ask, InProgram, table, tasks
  <2> QED
    BY <2>1, <2>2, <2>3, <2>4, <2>5
<1>2. TableOK'
  BY <1>1 DEF TableOK, world
<1>3. MarkCovers'
  BY <1>1 DEF MarkCovers, Used
<1>4. ExpiredAnnounced'
  BY <1>1 DEF ExpiredAnnounced, Used, Idle
<1> QED
  BY <1>1, <1>2, <1>3, <1>4 DEF DriverOK

\* No step breaks the invariant.
LEMMA EveryStep == IInv /\ [Next]_vars => IInv'
<1> SUFFICES ASSUME IInv, [Next]_vars PROVE IInv'
  OBVIOUS
<1>1. CASE Library
  BY <1>1, GetTimerKeeps, GetNothingKeeps, EnterKeeps, SelectKeeps, ReadEventKeeps, AwakeKeeps,
     TimesOutKeeps, ProgramKeeps DEF Library, Finds, Waits
<1>2. CASE Program
  BY <1>2, SetTimerKeeps, KillTimerKeeps, ProgramKeeps DEF Program
<1>3. CASE Outside
  BY <1>3, TickKeeps, ArriveKeeps DEF Outside
<1>4. CASE UNCHANGED vars
  <2>1. UNCHANGED <<table, tasks, driver, world>>
    BY <1>4 DEF vars
  <2>2. Used' = Used /\ Timeout(0)' = Timeout(0)
    BY <2>1, SameTimeout DEF table, Used
  <2> QED
    BY <2>1, <2>2 DEF IInv, TableOK, DriverOK, MarkCovers, ExpiredAnnounced, table, tasks, world
<1> QED
  BY <1>1, <1>2, <1>3, <1>4 DEF Next

\* The driver sleeps as long as the next timer lets it, in every state of the invariant.
LEMMA SleepFollows == IInv => SleepsUntilNext
<1> SUFFICES ASSUME IInv, driver.at = "select"
             PROVE  SleepsUntilNext
  BY DEF SleepsUntilNext
<1>1. driver \in InSelect /\ driver.timer = Timeout(0)
  BY DEF IInv, DriverOK, Idle, Started, InLoop
<1>2. /\ Timeout(0) = 0 => Used = {}
      /\ Timeout(0) > 0 =>
            /\ \A n \in Used : Timeout(0) <= SyncTimers[n].nWaitTime - 0
            /\ \E n \in Used : Timeout(0) = SyncTimers[n].nWaitTime - 0
  BY TimeoutNext DEF IInv
<1>3. \A n \in Used : SyncTimers[n].nWaitTime \in Nat
  BY DEF IInv, TableOK, Used, NatTimer, FreeTimer
<1> QED
  BY <1>1, <1>2, <1>3 DEF SleepsUntilNext, InSelect

----------------------------------------------------------------------------
\* The types

\* The parts of TypeOK that IInv does not have, and what they rest on.
SlotsOK == SyncTimers \in [Slot -> Timer \cup {FreeTimer}] /\ nOffset \in Slot

\* Nothing belongs to a task that was freed, and one that ended runs no longer.
TasksOK ==
    /\ live \subseteq Task /\ hCurrentTask \in live
    /\ TASK_DELETE_PENDING \subseteq live
    /\ c \in TASK_DELETE_PENDING => driver # Idle /\ driver.call = "end"
    /\ QFTIMER \subseteq live /\ TASK_READY \subseteq live
    /\ windows \subseteq {w \in Window : Owner[w] \in live}

CallsOK == /\ request \in [Task -> Request \cup {NotAsking}]
           /\ got \in Slot \cup {Nothing, Message}

\* A task has no more input than events have come that are read.
InputOK == /\ input \in [Task -> Nat]
           /\ arrived \in 0 .. MaxEvents
           /\ \A t \in Task : input[t] + Len(events) <= arrived

ClockOK == lag \in 0 .. MaxTime /\ dated \in BOOLEAN

TypesInv == SlotsOK /\ TasksOK /\ CallsOK /\ InputOK /\ ClockOK

\* No timer is longer than MaxTime.
LEMMA LongestTime == MaxTime \in Nat /\ \A time \in Timeouts : time \in 1 .. MaxTime
<1>1. MaxTime \in Timeouts /\ \A time \in Timeouts : time <= MaxTime
  BY MaxNat, TimeAssumption DEF MaxTime
<1> QED
  BY <1>1, TimeAssumption

\* What the steps have in common that end a call of DriverWaitEvent.
LEMMA ReturnsTypes ==
    ASSUME TasksOK, NEW r, NEW inputs \in [Task -> Nat], NEW flags \in SUBSET live,
           driver # Idle, driver.call \in Call, Returns(r, inputs, flags)
    PROVE  /\ TasksOK'
           /\ input' \in [Task -> Nat] /\ \A t \in Task : input'[t] <= inputs[t]
           /\ \/ request' = request
              \/ request' = [request EXCEPT ![c] = NotAsking]
<1> DEFINE woken == TASK_READY \cup {t \in live : inputs[t] > 0}
           alive == live \ TASK_DELETE_PENDING
           ready == ((woken \cup flags) \cap alive) \ {c}
<1>1. woken \subseteq live /\ ready \subseteq alive
  BY DEF TasksOK
<1>2. /\ TASK_DELETE_PENDING \subseteq live /\ live \subseteq Task /\ c \in live
      /\ windows \subseteq {w \in Window : Owner[w] \in live} /\ TASK_READY \subseteq live
      /\ c \in TASK_DELETE_PENDING => driver.call = "end"
  BY DEF TasksOK, c
<1> HIDE DEF ready, woken
<1>3. ASSUME NEW freed \in SUBSET TASK_DELETE_PENDING, FreeTask(freed, inputs, flags),
             hCurrentTask' \in live \ freed, TASK_READY' \subseteq live \ freed,
             hCurrentTask' \in TASK_DELETE_PENDING \ freed =>
                 driver' # Idle /\ driver'.call = "end"
      PROVE  TasksOK'
  <2>1. /\ live' = live \ freed /\ TASK_DELETE_PENDING' = TASK_DELETE_PENDING \ freed
        /\ windows' = {w \in windows : Owner[w] \notin freed} /\ QFTIMER' = flags \ freed
    BY <1>3 DEF FreeTask
  <2>2. live' \subseteq Task /\ hCurrentTask' \in live' /\ TASK_DELETE_PENDING' \subseteq live'
        /\ QFTIMER' \subseteq live' /\ TASK_READY' \subseteq live'
    BY <1>2, <1>3, <2>1
  <2>3. windows' \subseteq {w \in Window : Owner[w] \in live'}
    BY <1>2, <2>1
  <2>4. c' \in TASK_DELETE_PENDING' => driver' # Idle /\ driver'.call = "end"
    BY <1>3, <2>1 DEF c
  <2> QED
    BY <2>2, <2>3, <2>4 DEF TasksOK, Idle
<1>4. ASSUME NEW freed, FreeTask(freed, inputs, flags)
      PROVE  input' \in [Task -> Nat] /\ \A t \in Task : input'[t] <= inputs[t]
  BY <1>4 DEF FreeTask
<1>5. Again => \/ request' = request
               \/ request' = [request EXCEPT ![c] = NotAsking]
  BY DEF Again
<1>6. CASE driver.call = "first"
  <2>1. /\ FreeTask({}, inputs, flags) /\ hCurrentTask' = hCurrentTask
        /\ TASK_READY' = TASK_READY \/ TASK_READY' = TASK_READY \cup {c}
        /\ request' = request \/ Again
    BY <1>6 DEF Returns
  <2> QED
    BY <1>2, <1>3, <1>4, <1>5, <1>6, <2>1 DEF c
<1>7. CASE driver.call \in {"stay", "yield"}
  <2>1. CASE \E t \in ready, freed \in SUBSET TASK_DELETE_PENDING :
                /\ hCurrentTask' = t
                /\ TASK_READY' = woken \ ({t} \cup freed)
                /\ driver' = Idle
                /\ Again
                /\ FreeTask(freed, inputs, flags)
    BY <1>1, <1>3, <1>4, <1>5, <2>1
  <2>2. CASE /\ TASK_READY' = woken \ TASK_DELETE_PENDING
             /\ request' = request \/ Again
             /\ FreeTask(TASK_DELETE_PENDING, inputs, flags)
             /\ hCurrentTask' = hCurrentTask
    <3>1. c \notin TASK_DELETE_PENDING
      BY <1>2, <1>7
    <3> QED
      BY <1>1, <1>2, <1>3, <1>4, <1>5, <2>2, <3>1 DEF c
  <2> QED
    BY <1>7, <2>1, <2>2 DEF Returns, ready, woken
<1>8. CASE driver.call = "end"
  <2>1. PICK freed \in SUBSET (TASK_DELETE_PENDING \ {c}) :
           /\ \/ \E t \in alive : /\ hCurrentTask' = t
                                  /\ TASK_READY' = live \ ({t} \cup freed)
              \/ /\ TASK_READY' = live \ ({c} \cup freed)
                 /\ driver' = Start("end")
                 /\ hCurrentTask' = hCurrentTask
           /\ FreeTask(freed, inputs, flags)
           /\ request' = request
    BY <1>8 DEF Returns
  <2>2. Start("end") # Idle /\ Start("end").call = "end"
    BY DEF Start, Idle
  <2>3. /\ hCurrentTask' \in live \ freed /\ TASK_READY' \subseteq live \ freed
        /\ hCurrentTask' \in TASK_DELETE_PENDING \ freed => driver' = Start("end")
    BY <1>2, <2>1 DEF c
  <2>4. TasksOK'
    BY <1>3, <2>1, <2>2, <2>3
  <2> QED
    BY <1>4, <2>1, <2>4
<1>9. CASE driver.call = "second"
  <2>1. /\ FreeTask({}, inputs, flags)
        /\ UNCHANGED <<request, TASK_READY, hCurrentTask>>
    BY <1>9 DEF Returns
  <2> QED
    BY <1>2, <1>3, <1>4, <1>9, <2>1 DEF c
<1> QED
  BY <1>6, <1>7, <1>8, <1>9 DEF Call

\* Slots.  A timer that is set or starts anew has a time programs set, counting down
\* makes it no longer, and the offset wraps at the mark.
LEMMA SetSlots ==
    ASSUME IInv, SlotsOK, NEW w \in Window \cup {NoWindow}, NEW id \in Ids,
           NEW time \in Timeouts, SetTimer(w, id, time)
    PROVE  SlotsOK'
<1> DEFINE free == Slot \ Used
           n == Min(free)
           new == NewTimer(WindowTask(w), w, IF w = NoWindow THEN n + 1 ELSE id, time)
<1>1. CASE free = {}
  BY <1>1 DEF SetTimer, table, SlotsOK
<1>2. CASE free # {}
  <2>1. n \in free
    BY <1>2, MinNat DEF Slot
  <2>2. SyncTimers' = [SyncTimers EXCEPT ![n] = new] /\ nOffset' = nOffset
    BY <1>2 DEF SetTimer
  <2> HIDE DEF n
  <2>3. WindowTask(w) \in Task
    BY OwnerAssumption DEF IInv, TableOK, WindowTask, c
  <2>4. time \in 0 .. MaxTime
    BY LongestTime
  <2>5. new \in Timer
    BY <2>1, <2>3, <2>4, TableAssumption DEF NewTimer, Timer, Slot
  <2> HIDE DEF new
  <2> QED
    BY <2>1, <2>2, <2>5 DEF SlotsOK
<1> QED
  BY <1>1, <1>2

LEMMA KillSlots ==
    ASSUME SlotsOK, NEW w \in Window \cup {NoWindow}, NEW id \in Ids, KillTimer(w, id)
    PROVE  SlotsOK'
<1>1. \/ UNCHANGED <<SyncTimers, nOffset>>
      \/ \E n : SyncTimers' = [SyncTimers EXCEPT ![n] = FreeTimer] /\ nOffset' = nOffset
  BY DEF KillTimer, table
<1> QED
  BY <1>1 DEF SlotsOK

LEMMA CountSlots ==
    ASSUME SlotsOK, NEW time \in Nat, GetTimeout(time)
    PROVE  SlotsOK'
<1>1. MaxTime \in Nat
  BY LongestTime
<1>2. \A n \in Used : SyncTimers[n] \in Timer
  BY DEF SlotsOK, Used, FreeTimer
<1>3. ASSUME NEW n \in Slot
      PROVE  CountDown(time)[n] \in Timer \cup {FreeTimer}
  <2>1. CASE n \in Used
    <3> DEFINE left == IF SyncTimers[n].nWaitTime > time THEN SyncTimers[n].nWaitTime - time
                       ELSE 0
    <3>1. SyncTimers[n] \in Timer /\ SyncTimers[n].nWaitTime \in 0 .. MaxTime
      BY <1>2, <2>1 DEF Timer
    <3>2. left \in 0 .. MaxTime
      BY <1>1, <3>1
    <3>3. CountDown(time)[n] = [SyncTimers[n] EXCEPT !.nWaitTime = left]
      BY <2>1 DEF CountDown
    <3> HIDE DEF left
    <3> QED
      BY <3>1, <3>2, <3>3 DEF Timer
  <2>2. CASE n \notin Used
    BY <2>2 DEF CountDown, SlotsOK
  <2> QED
    BY <2>1, <2>2
<1>4. DOMAIN CountDown(time) = Slot /\ CountDown(time) = [n \in Slot |-> CountDown(time)[n]]
  BY DEF CountDown
<1>5. CountDown(time) \in [Slot -> Timer \cup {FreeTimer}]
  BY <1>3, <1>4
<1> QED
  BY <1>5 DEF GetTimeout, SlotsOK

LEMMA OffsetSlot == ASSUME IInv PROVE NextOffset \in Slot
<1>1. \A a \in Nat, b \in Nat \ {0} : a % b \in 0 .. b - 1
  OBVIOUS
<1>2. nMaxTimer \in Nat /\ nMaxTimer <= SYNC_TIMERS - 1 /\ nOffset \in Nat
  BY TableAssumption DEF IInv, TableOK, Slot
<1>3. NextOffset \in 0 .. nMaxTimer
  BY <1>1, <1>2 DEF NextOffset
<1> QED
  BY <1>2, <1>3, TableAssumption DEF Slot

LEMMA GetSlots ==
    ASSUME IInv, SlotsOK, GetTimer
    PROVE  SlotsOK' /\ \E n \in Slot : Answered(n)
<1> DEFINE k    == Min(Hits)
           n    == Looked(k)
           gone == {Looked(j) : j \in {i \in Orphans : i < k}}
<1>1. Searched /\ Hits # {} /\ Hits \subseteq DueAt
  BY DEF GetTimer, Hits
<1>2. k \in Hits
  BY <1>1, MinNat, LookedUp DEF IInv
<1>3. n \in Used
  BY <1>1, <1>2, LookedUp DEF IInv
<1>4. SyncTimers' = [m \in Slot |-> IF m \in gone THEN FreeTimer
                                   ELSE IF m = n /\ Here.remove THEN Restarted(n)
                                   ELSE SyncTimers[m]]
      /\ Answered(n) /\ nOffset' = NextOffset
  BY DEF GetTimer
<1> HIDE DEF n, gone
<1>5. SyncTimers[n] \in Timer
  BY <1>3 DEF SlotsOK, Used, FreeTimer
<1>6. Restarted(n) \in Timer
  BY <1>5, LongestTime DEF Restarted, Timer
<1>7. SyncTimers' \in [Slot -> Timer \cup {FreeTimer}]
  BY <1>4, <1>6 DEF SlotsOK
<1> QED
  BY <1>3, <1>4, <1>7, OffsetSlot DEF SlotsOK, Used

LEMMA NothingSlots ==
    ASSUME IInv, SlotsOK, GetNothing
    PROVE  SlotsOK'
<1>1. CASE Searched
  <2>1. SyncTimers' = [m \in Slot |-> IF m \in {Looked(k) : k \in Orphans}
                                      THEN FreeTimer ELSE SyncTimers[m]]
        /\ nOffset' = NextOffset
    BY <1>1 DEF GetNothing
  <2> QED
    BY <2>1, OffsetSlot DEF SlotsOK
<1>2. CASE ~Searched
  BY <1>2 DEF GetNothing, table, SlotsOK
<1> QED
  BY <1>1, <1>2

\* What the driver's clock takes off is a time.
LEMMA ClockTimes ==
    ASSUME IInv
    PROVE  /\ ReadEvent => /\ \/ UNCHANGED <<SyncTimers, nMaxTimer, nOffset>>
                              \/ GetTimeout(Head(events).since)
                           /\ Head(events).since \in Nat
           /\ TimesOut => GetTimeout(driver.timer) /\ driver.timer \in Nat
<1>1. ASSUME ReadEvent
      PROVE  Head(events).since \in Nat
  <2>1. events \in Seq(Event) /\ events # <<>>
    BY <1>1 DEF ReadEvent, IInv, TableOK
  <2>2. Head(events) \in Event
    BY <2>1
  <2> QED
    BY <2>2 DEF Event
<1>2. ASSUME TimesOut
      PROVE  driver.timer \in Nat
  BY <1>2 DEF TimesOut, IInv, DriverOK, Idle, Started, InSelect, InLoop
<1> QED
  BY <1>1, <1>2 DEF ReadEvent, TimesOut

LEMMA NextSlots ==
    ASSUME IInv, SlotsOK, [Next]_vars
    PROVE  SlotsOK'
<1>1. CASE UNCHANGED <<SyncTimers, nOffset>>
  BY <1>1 DEF SlotsOK
<1>2. CASE Library
  <2>1. CASE GetInput \/ Awake \/ Select
    BY <1>1, <2>1 DEF GetInput, Awake, Select, table
  <2>2. CASE Enter
    BY <2>2, CountSlots DEF Enter
  <2>3. CASE ReadEvent \/ TimesOut
    BY <1>1, <2>3, ClockTimes, CountSlots
  <2> QED
    BY <1>2, <2>1, <2>2, <2>3, GetSlots, NothingSlots DEF Library, Finds, Waits
<1>3. CASE Program
  <2>1. CASE EndTask \/ Yield \/ (\E w \in Window : DestroyWindow(w)) \/ \E r \in Requests : Ask(r)
    BY <1>1, <2>1 DEF EndTask, Yield, DestroyWindow, Ask, table
  <2> QED
    BY <1>3, <2>1, SetSlots, KillSlots DEF Program
<1>4. CASE Outside
  BY <1>1, <1>4 DEF Outside, Tick, Arrive, table
<1>5. CASE UNCHANGED vars
  BY <1>1, <1>5 DEF vars, table
<1> QED
  BY <1>2, <1>3, <1>4, <1>5 DEF Next

\* The driver finds no event and is not to wait.
Polled == Select /\ (driver.timer < 0 \/ (NoWait /\ driver.timer = 0))

\* The calls of DriverWaitEvent that end: each with the flags and the input it leaves.
LEMMA DriverReturns ==
    ASSUME IInv, TasksOK, InputOK,
           ReadEvent \/ TimesOut \/ Polled
    PROVE  /\ TasksOK'
           /\ request' = request \/ request' = [request EXCEPT ![c] = NotAsking]
           /\ input' \in [Task -> Nat]
           /\ \A t \in Task : input'[t] + Len(events') <= arrived
<1>1. driver # Idle /\ driver.call \in Call
  BY DEF ReadEvent, TimesOut, Polled, Select, IInv, DriverOK, Idle, Started, InLoop, InSelect
<1>2. QFTIMER \in SUBSET live /\ input \in [Task -> Nat] /\ events \in Seq(Event)
      /\ \A t \in Task : input[t] + Len(events) <= arrived
  BY DEF IInv, TableOK, TasksOK, InputOK
<1>3. \A time : FlagsAfter(time) \in SUBSET live
  BY <1>2 DEF FlagsAfter
<1>4. arrived \in Nat
  BY BoundAssumption DEF InputOK
<1>5. CASE ReadEvent
  <2> DEFINE e      == Head(events)
             posts  == e.to \in live
             counts == posts /\ driver.timing /\ e.since > 0
             inputs == IF posts THEN [input EXCEPT ![e.to] = @ + 1] ELSE input
             flags  == IF counts THEN FlagsAfter(e.since) ELSE QFTIMER
  <2>1. /\ \E r : Returns(r, inputs, flags)
        /\ events # <<>> /\ events' = Tail(events)
    BY <1>5 DEF ReadEvent
  <2>2. flags \in SUBSET live
    BY <1>2, <1>3
  <2>3. inputs \in [Task -> Nat] /\ \A t \in Task : inputs[t] <= input[t] + 1
    <3>1. \A t \in Task : input[t] \in Nat /\ input[t] <= input[t] + 1
      BY <1>2
    <3>2. CASE posts
      <4>1. e.to \in Task
        BY <3>2 DEF TasksOK
      <4>2. inputs = [input EXCEPT ![e.to] = input[e.to] + 1]
        BY <3>2
      <4> HIDE DEF inputs, e
      <4> QED
        BY <1>2, <3>1, <4>1, <4>2
    <3>3. CASE ~posts
      BY <1>2, <3>1, <3>3
    <3> QED
      BY <3>2, <3>3
  <2>4. Len(events) \in Nat /\ Len(events') = Len(events) - 1
    BY <1>2, <2>1
  <2> HIDE DEF inputs, flags
  <2>5. /\ TasksOK'
        /\ request' = request \/ request' = [request EXCEPT ![c] = NotAsking]
        /\ input' \in [Task -> Nat] /\ \A t \in Task : input'[t] <= inputs[t]
    BY <1>1, <2>1, <2>2, <2>3, ReturnsTypes
  <2>6. ASSUME NEW t \in Task
        PROVE  input'[t] + Len(events') <= arrived
    <3>1. /\ input[t] \in Nat /\ inputs[t] \in Nat /\ input'[t] \in Nat
          /\ input'[t] <= inputs[t] /\ inputs[t] <= input[t] + 1
          /\ input[t] + Len(events) <= arrived
      BY <1>2, <2>3, <2>5
    <3> QED
      BY <1>4, <2>4, <3>1
  <2> QED
    BY <2>5, <2>6
<1>6. CASE TimesOut \/ Polled
  <2>1. events' = events
    BY <1>6 DEF TimesOut, Polled, Select, world
  <2>2. PICK flags \in SUBSET live : Returns(0, input, flags)
    BY <1>2, <1>3, <1>6 DEF TimesOut, Polled, Select
  <2>3. /\ TasksOK'
        /\ request' = request \/ request' = [request EXCEPT ![c] = NotAsking]
        /\ input' \in [Task -> Nat] /\ \A t \in Task : input'[t] <= input[t]
    BY <1>1, <1>2, <2>2, ReturnsTypes
  <2>4. ASSUME NEW t \in Task
        PROVE  input'[t] + Len(events') <= arrived
    <3>1. /\ input[t] \in Nat /\ input'[t] \in Nat /\ Len(events) \in Nat
          /\ input'[t] <= input[t] /\ input[t] + Len(events) <= arrived
      BY <1>2, <2>3
    <3> QED
      BY <1>4, <2>1, <3>1
  <2> QED
    BY <2>3, <2>4
<1> QED
  BY <1>5, <1>6

\* Every other step leaves the driver where it is, or starts, continues or wakes it.
LEMMA OtherSteps ==
    ASSUME IInv, TasksOK, [Next]_vars, ~ReadEvent, ~TimesOut, ~Polled
    PROVE  /\ hCurrentTask' = hCurrentTask /\ live' = live
           /\ windows' \subseteq windows /\ QFTIMER' \subseteq live
           /\ TASK_READY' \subseteq TASK_READY \cup {c}
           /\ \/ TASK_DELETE_PENDING' = TASK_DELETE_PENDING
                 /\ \/ driver' = driver \/ driver = Idle
                    \/ driver # Idle /\ driver' # Idle /\ driver'.call = driver.call
              \/ /\ TASK_DELETE_PENDING' = TASK_DELETE_PENDING \cup {c}
                 /\ driver' # Idle /\ driver'.call = "end"
<1>1. QFTIMER \subseteq live
  BY DEF TasksOK
<1>2. CASE Library
  <2>1. CASE GetInput \/ GetTimer
    BY <1>1, <2>1 DEF GetInput, GetTimer, table, tasks
  <2>2. CASE GetNothing
    BY <1>1, <2>2 DEF GetNothing, Looping, table, tasks
  <2>3. CASE Enter
    <3>1. driver # Idle /\ driver' # Idle /\ driver'.call = driver.call
      BY <2>3 DEF Enter, Idle
    <3>2. QFTIMER' \subseteq live
      BY <1>1, <2>3 DEF Enter, FlagsAfter
    <3> QED
      BY <2>3, <3>1, <3>2 DEF Enter, tasks
  <2>4. CASE Select
    <3>1. /\ UNCHANGED <<QFTIMER, tasks>>
          /\ driver' = [at |-> "select", call |-> driver.call, timer |-> driver.timer,
                        timing |-> driver.timing, left |-> SelectTime(driver.timer)]
      BY <2>4 DEF Select, Polled
    <3>2. driver # Idle /\ driver' # Idle /\ driver'.call = driver.call
      BY <2>4, <3>1 DEF Select, Idle
    <3> QED
      BY <1>1, <3>1, <3>2 DEF tasks
  <2>5. CASE Awake
    <3>1. driver # Idle /\ driver' # Idle /\ driver'.call = driver.call
      BY <2>5 DEF Awake, Idle
    <3> QED
      BY <1>1, <2>5, <3>1 DEF Awake, table, tasks
  <2> QED
    BY <1>2, <2>1, <2>2, <2>3, <2>4, <2>5 DEF Library, Finds, Waits
<1>3. CASE Program
  <2>1. CASE \E w \in Window \cup {NoWindow}, id \in Ids, time \in Timeouts : SetTimer(w, id, time)
    BY <1>1, <2>1 DEF SetTimer, table, tasks
  <2>2. CASE \E w \in Window \cup {NoWindow}, id \in Ids : KillTimer(w, id)
    BY <1>1, <2>2 DEF KillTimer, table, tasks
  <2>3. CASE \E w \in Window : DestroyWindow(w)
    BY <1>1, <2>3 DEF DestroyWindow, table
  <2>4. CASE EndTask
    <3>1. driver' # Idle /\ driver'.call = "end"
      BY <2>4 DEF EndTask, Start, Idle
    <3> QED
      BY <1>1, <2>4, <3>1 DEF EndTask, table
  <2>5. CASE Yield
    BY <1>1, <2>5 DEF Yield, InProgram, table
  <2>6. CASE \E r \in Requests : Ask(r)
    BY <1>1, <2>6 DEF Ask, table, tasks
  <2> QED
    BY <1>3, <2>1, <2>2, <2>3, <2>4, <2>5, <2>6 DEF Program
<1>4. CASE Tick
  <2>1. \/ driver' = driver
        \/ driver # Idle /\ driver' # Idle /\ driver'.call = driver.call
    <3>1. CASE driver.at = "select" /\ driver.timer > 0
      <4>1. driver \in InSelect /\ driver' = [driver EXCEPT !.left = @ - 1]
        BY <1>4, <3>1 DEF Tick, IInv, DriverOK, Idle, Started, InLoop, InSelect
      <4> QED
        BY <4>1 DEF InSelect, Idle
    <3>2. CASE ~(driver.at = "select" /\ driver.timer > 0)
      BY <1>4, <3>2 DEF Tick
    <3> QED
      BY <3>1, <3>2
  <2> QED
    BY <1>1, <1>4, <2>1 DEF Tick, table, tasks
<1>5. CASE \E to \in Task \cup {NoTask}, isDated \in BOOLEAN : Arrive(to, isDated)
  BY <1>1, <1>5 DEF Arrive, table, tasks
<1>6. CASE UNCHANGED vars
  BY <1>1, <1>6 DEF vars, table, tasks
<1> QED
  BY <1>2, <1>3, <1>4, <1>5, <1>6 DEF Next, Outside

LEMMA NextTasks ==
    ASSUME IInv, TasksOK, InputOK, [Next]_vars
    PROVE  TasksOK'
<1>1. CASE ReadEvent \/ TimesOut \/ Polled
  BY <1>1, DriverReturns
<1>2. CASE ~ReadEvent /\ ~TimesOut /\ ~Polled
  <2>1. /\ hCurrentTask' = hCurrentTask /\ live' = live
        /\ windows' \subseteq windows /\ QFTIMER' \subseteq live
        /\ TASK_READY' \subseteq TASK_READY \cup {c}
        /\ \/ TASK_DELETE_PENDING' = TASK_DELETE_PENDING
              /\ \/ driver' = driver \/ driver = Idle
                 \/ driver # Idle /\ driver' # Idle /\ driver'.call = driver.call
           \/ /\ TASK_DELETE_PENDING' = TASK_DELETE_PENDING \cup {c}
              /\ driver' # Idle /\ driver'.call = "end"
    BY <1>2, OtherSteps
  <2>2. c' = c /\ c \in live
    BY <2>1 DEF c, TasksOK
  <2>3. c' \in TASK_DELETE_PENDING' => driver' # Idle /\ driver'.call = "end"
    BY <2>1, <2>2 DEF TasksOK
  <2>4. TASK_DELETE_PENDING' \subseteq live'
    BY <2>1, <2>2 DEF TasksOK
  <2> QED
    BY <2>1, <2>2, <2>3, <2>4 DEF TasksOK, Idle
<1> QED
  BY <1>1, <1>2

LEMMA NextCalls ==
    ASSUME IInv, TasksOK, CallsOK, InputOK, SlotsOK, [Next]_vars
    PROVE  CallsOK'
<1>1. ASSUME request' = request \/ request' = [request EXCEPT ![c] = NotAsking],
             got' = got \/ got' = Nothing \/ got' = Message \/ got' \in Slot
      PROVE  CallsOK'
  BY <1>1 DEF CallsOK
<1>2. CASE Library
  <2>1. CASE GetInput
    BY <1>1, <2>1 DEF GetInput, Answered
  <2>2. CASE GetTimer
    BY <1>1, <2>2, GetSlots DEF Answered
  <2>3. CASE (GetNothing \/ Enter \/ Awake) /\ got' = Nothing
    BY <1>1, <2>3 DEF GetNothing, Enter, Awake, calls
  <2>4. CASE (Select \/ ReadEvent \/ TimesOut) /\ got' = Nothing
    <3>1. CASE ReadEvent \/ TimesOut \/ Polled
      BY <1>1, <2>4, <3>1, DriverReturns
    <3>2. CASE Select /\ ~Polled
      BY <1>1, <2>4, <3>2 DEF Select, Polled, calls
    <3> QED
      BY <2>4, <3>1, <3>2
  <2> QED
    BY <1>2, <2>1, <2>2, <2>3, <2>4 DEF Library, Finds, Waits
<1>3. CASE (Program \/ Outside) /\ got' = Nothing
  <2>1. CASE \E r \in Requests : Ask(r)
    <3>1. PICK r \in Requests : Ask(r)
      BY <2>1
    <3> DEFINE new == [asking |-> TRUE, hWnd |-> IF r.hWnd \in windows THEN r.hWnd ELSE NoWindow,
                       hTask |-> WindowTask(r.hWnd), remove |-> r.remove,
                       bNoWait |-> r.bNoWait, noYield |-> r.noYield]
    <3>2. request' = [request EXCEPT ![c] = new]
      BY <3>1 DEF Ask
    <3>3. WindowTask(r.hWnd) \in Task
      BY OwnerAssumption DEF IInv, TableOK, WindowTask, c
    <3>4. r \in [hWnd : Window \cup {NoWindow}, remove : BOOLEAN, bNoWait : BOOLEAN,
                 noYield : BOOLEAN]
      BY RequestAssumption
    <3>5. new \in Request
      BY <3>3, <3>4 DEF Request
    <3> HIDE DEF new
    <3> QED
      BY <1>3, <3>2, <3>5 DEF CallsOK
  <2>2. CASE ~\E r \in Requests : Ask(r)
    <3>1. request' = request
      BY <1>3, <2>2 DEF Program, Outside, SetTimer, KillTimer, DestroyWindow, EndTask, Yield,
                        Tick, Arrive, calls
    <3> QED
      BY <1>1, <1>3, <3>1
  <2> QED
    BY <2>1, <2>2
<1>4. CASE UNCHANGED vars
  BY <1>1, <1>4 DEF vars, calls
<1> QED
  BY <1>2, <1>3, <1>4 DEF Next

LEMMA NextInput ==
    ASSUME IInv, TasksOK, InputOK, [Next]_vars
    PROVE  InputOK'
<1>1. arrived \in Nat /\ MaxEvents \in Nat /\ events \in Seq(Event)
      /\ \A t \in Task : input[t] \in Nat /\ input[t] + Len(events) <= arrived
  BY BoundAssumption DEF InputOK, IInv, TableOK
<1>2. CASE ReadEvent \/ TimesOut \/ Polled
  <2>1. arrived' = arrived
    BY <1>2 DEF ReadEvent, TimesOut, Polled, Select, world
  <2> QED
    BY <1>2, <2>1, DriverReturns DEF InputOK
<1>3. CASE GetInput
  <2>1. /\ UNCHANGED <<events, arrived>> /\ input[c] > 0
        /\ input' = input \/ input' = [input EXCEPT ![c] = @ - 1]
    BY <1>3 DEF GetInput, world
  <2>2. c \in Task
    BY DEF TasksOK, c
  <2>3. input' \in [Task -> Nat] /\ \A t \in Task : input'[t] <= input[t]
    <3>1. input \in [Task -> Nat] /\ input[c] - 1 \in Nat
      BY <1>1, <2>1, <2>2 DEF InputOK
    <3> QED
      BY <2>1, <2>2, <3>1
  <2>4. \A t \in Task : input'[t] + Len(events) <= arrived
    <3> TAKE t \in Task
    <3>1. input'[t] \in Nat /\ input[t] \in Nat /\ Len(events) \in Nat
          /\ input'[t] <= input[t] /\ input[t] + Len(events) <= arrived
      BY <1>1, <2>3
    <3> QED
      BY <1>1, <3>1
  <2>5. events' = events /\ arrived' = arrived
    BY <2>1
  <2> QED
    BY <2>3, <2>4, <2>5 DEF InputOK
<1>4. CASE \E to \in Task \cup {NoTask}, isDated \in BOOLEAN : Arrive(to, isDated)
  <2>1. /\ input' = input /\ arrived < MaxEvents /\ arrived' = arrived + 1
        /\ \E e : events' = Append(events, e)
    BY <1>4 DEF Arrive, calls
  <2>2. Len(events) \in Nat /\ Len(events') = Len(events) + 1
    BY <1>1, <2>1
  <2>3. \A t \in Task : input'[t] + Len(events') <= arrived'
    <3> TAKE t \in Task
    <3>1. input[t] \in Nat /\ input[t] + Len(events) <= arrived
      BY <1>1
    <3> QED
      BY <1>1, <2>1, <2>2, <3>1
  <2>4. arrived' \in 0 .. MaxEvents
    BY <1>1, <2>1
  <2> QED
    BY <2>1, <2>3, <2>4 DEF InputOK
<1>5. CASE UNCHANGED <<input, events, arrived>>
  BY <1>5 DEF InputOK
<1>6. CASE GetTimer \/ GetNothing \/ Enter \/ Awake \/ (Select /\ ~Polled)
  BY <1>5, <1>6 DEF GetTimer, GetNothing, Enter, Awake, Select, Polled, calls, world
<1>7. CASE Program \/ Tick \/ UNCHANGED vars
  BY <1>5, <1>7 DEF Program, SetTimer, KillTimer, DestroyWindow, EndTask, Yield, Ask, Tick, vars,
                    calls, world
<1> QED
  BY <1>2, <1>3, <1>4, <1>6, <1>7 DEF Next, Library, Finds, Waits, Outside

LEMMA NextClock ==
    ASSUME IInv, ClockOK, [Next]_vars
    PROVE  ClockOK'
<1>1. MaxTime \in Nat
  BY LongestTime
<1>2. CASE UNCHANGED <<lag, dated>>
  BY <1>2 DEF ClockOK
<1>3. CASE Library
  <2>1. CASE ReadEvent
    <3>1. events \in Seq(Event) /\ events # <<>>
      BY <2>1 DEF ReadEvent, IInv, TableOK
    <3>2. Head(events) \in Event
      BY <3>1
    <3>3. Head(events).isDated \in BOOLEAN
      BY <3>2 DEF Event
    <3> QED
      BY <2>1, <3>3 DEF ReadEvent, ClockOK
  <2>2. CASE ~ReadEvent
    BY <1>2, <1>3, <2>2 DEF Library, Finds, Waits, GetInput, GetTimer, GetNothing, Enter, Awake,
                            Select, TimesOut, world
  <2> QED
    BY <2>1, <2>2
<1>4. CASE Tick
  <2>1. Capped(lag + 1) \in 0 .. MaxTime
    BY <1>1 DEF Capped, ClockOK
  <2>2. lag' \in {Capped(lag + 1), 0} /\ dated' = dated
    BY <1>4 DEF Tick
  <2> QED
    BY <1>1, <2>1, <2>2 DEF ClockOK
<1>5. CASE \E to \in Task \cup {NoTask}, isDated \in BOOLEAN : Arrive(to, isDated)
  BY <1>1, <1>5 DEF Arrive, ClockOK
<1>6. CASE Program \/ UNCHANGED vars
  BY <1>2, <1>6 DEF Program, SetTimer, KillTimer, DestroyWindow, EndTask, Yield, Ask, vars, world
<1> QED
  BY <1>3, <1>4, <1>5, <1>6 DEF Next, Outside

LEMMA InitTypes == Init => TypesInv
<1> SUFFICES ASSUME Init PROVE TypesInv
  OBVIOUS
<1>1. 0 \in Slot
  BY TableAssumption DEF Slot
<1>2. SlotsOK
  BY <1>1 DEF Init, SlotsOK
<1>3. TasksOK
  BY OwnerAssumption DEF Init, TasksOK
<1>4. CallsOK /\ InputOK
  <2>1. input \in [Task -> Nat] /\ arrived = 0 /\ Len(events) = 0 /\ \A t \in Task : input[t] = 0
    BY DEF Init
  <2>2. InputOK
    BY <2>1, BoundAssumption DEF InputOK
  <2>3. CallsOK
    BY DEF Init, CallsOK
  <2> QED
    BY <2>2, <2>3
<1>5. ClockOK
  <2>1. MaxTime \in Nat
    BY LongestTime
  <2>2. lag = 0 /\ dated \in BOOLEAN
    BY DEF Init
  <2> QED
    BY <2>1, <2>2 DEF ClockOK
<1> QED
  BY <1>2, <1>3, <1>4, <1>5 DEF TypesInv

LEMMA TypesFollow == IInv /\ TypesInv => TypeOK
<1> SUFFICES ASSUME IInv, TypesInv PROVE TypeOK
  OBVIOUS
<1>1. input \in [Task -> 0 .. MaxEvents]
  <2>1. \A t \in Task : input[t] \in 0 .. MaxEvents
    <3> TAKE t \in Task
    <3>1. /\ input[t] \in Nat /\ Len(events) \in Nat /\ input[t] + Len(events) <= arrived
          /\ arrived \in Nat /\ arrived <= MaxEvents /\ MaxEvents \in Nat
      BY BoundAssumption DEF IInv, TableOK, TypesInv, InputOK
    <3> QED
      BY <3>1
  <2> QED
    BY <2>1 DEF TypesInv, InputOK
<1>2. /\ driver.at \in {"idle", "start", "loop", "select"}
      /\ driver # Idle => driver.call \in Call
  BY DEF IInv, DriverOK, Idle, Started, InLoop, InSelect
<1>3. \A i \in 1 .. Len(events) : events[i].to \in Task \cup {NoTask}
  <2>1. \A i \in 1 .. Len(events) : events[i] \in Event
    BY DEF IInv, TableOK
  <2> QED
    BY <2>1 DEF Event
<1>4. nMaxTimer \in Slot
  BY DEF IInv, TableOK
<1>5. \A t \in Task : request[t] \in Request \cup {NotAsking}
  BY DEF TypesInv, CallsOK
<1> QED
  BY <1>1, <1>2, <1>3, <1>4, <1>5 DEF TypesInv, SlotsOK, TasksOK, CallsOK, InputOK, ClockOK, TypeOK

----------------------------------------------------------------------------
\* Theorems

\* Every behaviour keeps the invariant.
THEOREM TimersInvariance == Spec => []IInv
<1> QED
  BY Initially, EveryStep, PTL DEF Spec

\* TWIN_GetTimerMsg looks at every timer there is, whatever is set, killed or freed
\* (SysMisc.c:208-209).
THEOREM MarkCorrect == Spec => []MarkCovers
<1>1. IInv => MarkCovers
  BY DEF IInv
<1> QED
  BY <1>1, TimersInvariance, PTL

\* An expired timer's task has the flag whenever it looks for messages, in spite of the
\* searches that clear it (SysMisc.c:239, 262-267).
THEOREM ExpiredCorrect == Spec => []ExpiredAnnounced
<1>1. IInv => ExpiredAnnounced
  BY DEF IInv
<1> QED
  BY <1>1, TimersInvariance, PTL

\* The driver never sleeps past the timer that is next (XEvents.c:214-241).
THEOREM SleepCorrect == Spec => []SleepsUntilNext
<1> QED
  BY SleepFollows, TimersInvariance, PTL

\* Every variable keeps its type: the counts of input stay in their bound, the offset in
\* the table, no wait is longer than programs ask for, and nothing stays with a task that
\* was freed but its timers (KrnTask.c:327-365).
THEOREM TypeCorrect == Spec => []TypeOK
<1>1. IInv /\ TypesInv /\ [Next]_vars => TypesInv'
  BY NextSlots, NextTasks, NextCalls, NextInput, NextClock DEF TypesInv
<1> QED
  BY <1>1, InitTypes, TypesFollow, TimersInvariance, PTL DEF Spec
=============================================================================
