------------------------------- MODULE Timers -------------------------------
(***************************************************************************)
(* Timers: the table of windows/SysMisc.c, the loop of TWIN_DriverMessage  *)
(* that reports them, and DriverWaitEvent of the X11 driver, which sleeps  *)
(* no longer than the next timer lets it and is the only one to count time *)
(* down.                                                                   *)
(*                                                                         *)
(* Time passes by Tick, in units a number of which are a second.  Time is  *)
(* relative: lag is the time since the last event with a time of its own,  *)
(* and such an event in the queue says how long after the one before it    *)
(* came.  No timer is longer than MaxTime, so times saturate there and     *)
(* nothing is lost.                                                        *)
(***************************************************************************)
EXTENDS Integers, Sequences, FiniteSets, FiniteSetsExt

CONSTANTS
    Task, NoTask,
    Window, NoWindow,
    Owner,           \* the task of each window
    SYNC_TIMERS,     \* slots of the table
    Ids,             \* the numbers programs give to timers of windows
    Timeouts,        \* the times programs set
    Second,          \* units in a second
    Requests,        \* what programs ask for: a window or NoWindow, PM_REMOVE, bNoWait
    MaxEvents        \* bound of the model on the events the X server sends

ASSUME NameAssumption == NoTask \notin Task /\ NoWindow \notin Window
ASSUME OwnerAssumption == Owner \in [Window -> Task]
ASSUME TableAssumption == SYNC_TIMERS \in Nat \ {0} /\ Ids \subseteq Nat \ {0}
ASSUME TimeAssumption == /\ Timeouts \subseteq Nat \ {0} /\ IsFiniteSet(Timeouts)
                         /\ Timeouts # {} /\ Second \in Nat \ {0}
ASSUME RequestAssumption ==
    Requests \subseteq [hWnd : Window \cup {NoWindow}, remove : BOOLEAN, bNoWait : BOOLEAN,
                 noYield : BOOLEAN]
ASSUME BoundAssumption == MaxEvents \in Nat

VARIABLES
    SyncTimers, nMaxTimer, nOffset,
    QFTIMER,         \* the tasks whose queue has the flag
    TASK_READY, TASK_DELETE_PENDING, hCurrentTask,
    live, windows,   \* the tasks not yet freed, the windows for which IsWindow
    request,         \* per task, the call of GetMessage or PeekMessage in progress
    got,             \* the message that the last step returned from such a call
    input,           \* the number of messages in the system queue for each task
    driver,          \* DriverWaitEvent: which call of it, and its local variables
    events,          \* the X events not yet read
    lag, dated,      \* the time since the last dated event, and was one ever read?
    arrived          \* the number of events so far

table == <<SyncTimers, nMaxTimer, nOffset, QFTIMER>>
tasks == <<TASK_READY, TASK_DELETE_PENDING, hCurrentTask, live, windows>>
calls == <<request, input>>
world == <<events, lag, dated, arrived>>
vars  == <<table, tasks, calls, got, driver, world>>

Slot    == 0 .. SYNC_TIMERS - 1
MaxTime == Max(Timeouts)
Capped(time) == IF time < MaxTime THEN time ELSE MaxTime

NotAsking == [asking |-> FALSE]
Nothing   == -1
Message   == -2

\* No other task runs while one is in the driver, which calls back but does not yield.
Idle    == [at |-> "idle"]
c       == hCurrentTask
Here    == request[c]
Looping == driver = Idle /\ Here # NotAsking
InProgram == driver = Idle /\ Here = NotAsking

Used == {n \in Slot : SyncTimers[n].hTask # NoTask}

\* The task of a window, or the current one if it is no window.
WindowTask(w) == IF w \in windows THEN Owner[w] ELSE c

----------------------------------------------------------------------------
\* The table

FreeTimer == [hTask |-> NoTask]
NewTimer(t, w, id, time) ==
    [hTask |-> t, hWnd |-> w, uID |-> id, uTimeout |-> time, nWaitTime |-> time]

\* Mutant: the mark is left alone when a slot beyond it is filled.
SetMarkForgotten(n) == nMaxTimer

\* SetTimer raises the mark of the last slot used (SetTimer2).
SetMark(n) == IF n > nMaxTimer THEN n ELSE nMaxTimer

SetTimer(w, id, time) ==
    /\ InProgram
    /\ LET free == Slot \ Used
           n    == Min(free)
       IN  IF free = {} THEN UNCHANGED table
           ELSE /\ SyncTimers' = [SyncTimers EXCEPT ![n] =
                       NewTimer(WindowTask(w), w, IF w = NoWindow THEN n + 1 ELSE id, time)]
                /\ nMaxTimer' = SetMark(n)
                /\ UNCHANGED <<nOffset, QFTIMER>>
    /\ UNCHANGED <<tasks, calls, driver, world>>

\* KillTimer of the last slot lowers the mark to the last slot used (KillTimer2).
KillMark(n) == IF n # nMaxTimer THEN nMaxTimer ELSE Max({0} \cup {m \in Used : m < n})

\* The first timer of the task with this window and number is freed.
KillTimer(w, id) ==
    /\ InProgram
    /\ LET same == {n \in Used : /\ SyncTimers[n].hTask = WindowTask(w)
                                 /\ SyncTimers[n].hWnd = w /\ SyncTimers[n].uID = id}
           n    == Min(same)
       IN  IF same = {} THEN UNCHANGED table
           ELSE /\ SyncTimers' = [SyncTimers EXCEPT ![n] = FreeTimer]
                /\ nMaxTimer' = KillMark(n)
                /\ UNCHANGED <<nOffset, QFTIMER>>
    /\ UNCHANGED <<tasks, calls, driver, world>>

\* A window is destroyed; its timers stay.  (Input is for windows that stay.)
DestroyWindow(w) ==
    /\ InProgram /\ w \in windows /\ Owner[w] = c
    /\ windows' = windows \ {w}
    /\ UNCHANGED <<table, TASK_READY, TASK_DELETE_PENDING, hCurrentTask, live, calls, driver,
                   world>>

----------------------------------------------------------------------------
\* TWIN_GetTimeout(time): what it does to the table and what it returns

CountDown(time) ==
    [n \in Slot |-> IF n \notin Used THEN SyncTimers[n]
                    ELSE [SyncTimers[n] EXCEPT !.nWaitTime = IF @ > time THEN @ - time ELSE 0]]

Expired(time) == {n \in Used : SyncTimers[n].nWaitTime <= time}

\* Mutant: timers that expired before are passed over, as the code under LATER would.
AnnouncedLater(time) ==
    {SyncTimers[n].hTask : n \in {m \in Expired(time) : SyncTimers[m].nWaitTime # 0}}

\* The tasks whose flag it sets.
Announced(time) == {SyncTimers[n].hTask : n \in Expired(time)}

\* Mutant: the longest wait.
TimeoutLongest(time) ==
    IF Expired(time) # {} THEN -1
    ELSE Max({0} \cup {SyncTimers[n].nWaitTime - time : n \in Used})

\* -1 if a timer expired, 0 if there are none, or else the time to the next.
Timeout(time) ==
    IF Expired(time) # {} THEN -1
    ELSE IF Used = {} THEN 0
    ELSE Min({SyncTimers[n].nWaitTime - time : n \in Used})

FlagsAfter(time) == QFTIMER \cup (Announced(time) \cap live)

\* The flags, FlagsAfter, are left to the action: a task may be freed in the same step.
GetTimeout(time) ==
    /\ SyncTimers' = CountDown(time)
    /\ UNCHANGED <<nMaxTimer, nOffset>>

----------------------------------------------------------------------------
\* TWIN_DriverMessage and the scheduler.  The calls of DriverWaitEvent are
\*   "first"   not to wait, when nothing was found,
\*   "stay"    not to wait, in ScheduleTask, by InternalYield, if it returned 0,
\*   "second"  to wait, if that yield switches to no other task,
\*   "yield"   not to wait, in ScheduleTask, by a Yield,
\*   "end"     not to wait, in ScheduleTask, by the loop of DeleteTask.

\* The call starts with TWIN_GetTimeout(0).
Start(call) == [at |-> "start", call |-> call]
NoWait == driver.call # "second"

Ask(r) ==
    /\ InProgram
    /\ request' = [request EXCEPT ![c] =
           [asking |-> TRUE, hWnd |-> IF r.hWnd \in windows THEN r.hWnd ELSE NoWindow,
            hTask |-> WindowTask(r.hWnd), remove |-> r.remove, bNoWait |-> r.bNoWait,
            noYield |-> r.noYield]]
    /\ UNCHANGED <<table, tasks, input, driver, world>>

Answered(what) ==
    /\ request' = [request EXCEPT ![c] = NotAsking]
    /\ got' = what

\* Messages of queues come before timers; here they are input, for windows of the
\* task.  It may be for another window than the one asked for.
NoMessage == Here.hWnd # NoWindow \/ input[c] = 0

GetInput ==
    /\ Looping /\ input[c] > 0
    /\ input' = IF Here.remove THEN [input EXCEPT ![c] = @ - 1] ELSE input
    /\ Answered(Message)
    /\ UNCHANGED <<table, tasks, driver, world>>

\* The k-th slot TWIN_GetTimerMsg looks at, and the places of its order at which it
\* finds an expired timer of the task: those of windows that are gone, and the ones
\* to report.
Looked(k) == (k + nOffset) % (nMaxTimer + 1)
DueAt == {k \in 0 .. nMaxTimer : /\ SyncTimers[Looked(k)].hTask = Here.hTask
                                 /\ SyncTimers[Looked(k)].nWaitTime <= 0}
Orphans == {k \in DueAt : SyncTimers[Looked(k)].hWnd \notin windows \cup {NoWindow}}
Hits == {k \in DueAt \ Orphans : Here.hWnd \in {NoWindow, SyncTimers[Looked(k)].hWnd}}
Searched == Looping /\ Here.hTask \in QFTIMER

\* Mutant: the offset is not wrapped.
NextOffsetUnwrapped == nOffset + 1

NextOffset == (nOffset + 1) % (nMaxTimer + 1)

Restarted(n) == [SyncTimers[n] EXCEPT !.nWaitTime = SyncTimers[n].uTimeout]

\* The first hit is reported and, if removed, starts anew; orphans on the way are freed.
GetTimer ==
    /\ Searched /\ NoMessage /\ Hits # {}
    /\ LET k    == Min(Hits)
           n    == Looked(k)
           gone == {Looked(j) : j \in {i \in Orphans : i < k}}
       IN  /\ SyncTimers' = [m \in Slot |-> IF m \in gone THEN FreeTimer
                                            ELSE IF m = n /\ Here.remove THEN Restarted(n)
                                            ELSE SyncTimers[m]]
           /\ Answered(n)
    /\ nOffset' = NextOffset
    /\ UNCHANGED <<nMaxTimer, QFTIMER, tasks, input, driver, world>>

\* Nothing is found: the flag is cleared and the driver is asked.
GetNothing ==
    /\ Looping /\ NoMessage
    /\ IF Searched
       THEN /\ Hits = {}
            /\ SyncTimers' = [m \in Slot |-> IF m \in {Looked(k) : k \in Orphans}
                                             THEN FreeTimer ELSE SyncTimers[m]]
            /\ QFTIMER' = QFTIMER \ {Here.hTask}
            /\ nOffset' = NextOffset
            /\ UNCHANGED nMaxTimer
       ELSE UNCHANGED table
    /\ driver' = Start("first")
    /\ UNCHANGED <<tasks, calls, world>>

\* A program yields.
Yield ==
    /\ InProgram
    /\ TASK_READY' = TASK_READY \cup {c}
    /\ driver' = Start("yield")
    /\ UNCHANGED <<table, TASK_DELETE_PENDING, hCurrentTask, live, windows, calls, world>>

\* A task that is not the last ends (DeleteTask).
EndTask ==
    /\ InProgram /\ live \ (TASK_DELETE_PENDING \cup {c}) # {}
    /\ TASK_DELETE_PENDING' = TASK_DELETE_PENDING \cup {c}
    /\ TASK_READY' = TASK_READY \ {c}
    /\ driver' = Start("end")
    /\ UNCHANGED <<table, hCurrentTask, live, windows, calls, world>>

\* A call that must not wait returns, others loop again.
Again == request' = IF Here.asking /\ Here.bNoWait
                    THEN [request EXCEPT ![c] = NotAsking] ELSE request

\* Tasks are freed with their windows and queues, but not their timers.  Before that,
\* inputs is the input and flags the flags.
FreeTask(freed, inputs, flags) ==
    /\ live' = live \ freed
    /\ TASK_DELETE_PENDING' = TASK_DELETE_PENDING \ freed
    /\ windows' = {w \in windows : Owner[w] \notin freed}
    /\ QFTIMER' = flags \ freed
    /\ input' = [t \in Task |-> IF t \in freed THEN 0 ELSE inputs[t]]

\* DriverWaitEvent returns r, and leaves inputs and flags.  After "first" comes a yield,
\* if there may be one.  ScheduleTask then makes tasks with input ready, frees those that
\* ended as far as it searches, and chooses another task that is ready, or the current
\* one.  (The order of its list, and so whom it finds first, is not in this module.)
\* A task that ends cannot be freed while it is current: all become ready instead, those
\* already passed to be found by the next search.
Returns(r, inputs, flags) ==
    LET woken == TASK_READY \cup {t \in live : inputs[t] > 0}
        alive == live \ TASK_DELETE_PENDING
        ready == ((woken \cup flags) \cap alive) \ {c}
    IN  CASE driver.call = "first" ->
               /\ IF r = 0 /\ ~Here.bNoWait
                  THEN driver' = Start("stay") /\ UNCHANGED <<request, TASK_READY>>
                  ELSE IF Here.noYield
                  THEN driver' = Idle /\ Again /\ UNCHANGED TASK_READY
                  ELSE /\ driver' = Start("yield")
                       /\ TASK_READY' = TASK_READY \cup {c}
                       /\ UNCHANGED request
               /\ FreeTask({}, inputs, flags)
               /\ UNCHANGED hCurrentTask
          [] driver.call \in {"stay", "yield"} ->
               \/ \E t \in ready, freed \in SUBSET TASK_DELETE_PENDING :
                     /\ hCurrentTask' = t
                     /\ TASK_READY' = woken \ ({t} \cup freed)
                     /\ driver' = Idle
                     /\ Again
                     /\ FreeTask(freed, inputs, flags)
               \/ /\ ready = {}
                  /\ TASK_READY' = woken \ TASK_DELETE_PENDING
                  /\ IF driver.call = "stay"
                     THEN driver' = Start("second") /\ UNCHANGED request
                     ELSE driver' = Idle /\ Again
                  /\ FreeTask(TASK_DELETE_PENDING, inputs, flags)
                  /\ UNCHANGED hCurrentTask
          [] driver.call = "end" ->
               \E freed \in SUBSET (TASK_DELETE_PENDING \ {c}) :
                  /\ \/ \E t \in alive :
                           /\ hCurrentTask' = t
                           /\ TASK_READY' = live \ ({t} \cup freed)
                           /\ driver' = Idle
                     \/ /\ ready = {}
                        /\ TASK_READY' = live \ ({c} \cup freed)
                        /\ driver' = Start("end")
                        /\ UNCHANGED hCurrentTask
                  /\ FreeTask(freed, inputs, flags)
                  /\ UNCHANGED request
          [] driver.call = "second" ->
               /\ driver' = Idle
               /\ FreeTask({}, inputs, flags)
               /\ UNCHANGED <<request, TASK_READY, hCurrentTask>>

----------------------------------------------------------------------------
\* DriverWaitEvent

\* TWIN_GetTimeout(0) says how long to wait.  Time is taken from here on if there is a
\* timer and an event ever said what time it is.
Enter ==
    /\ driver.at = "start"
    /\ GetTimeout(0) /\ QFTIMER' = FlagsAfter(0)
    /\ driver' = [at |-> "loop", call |-> driver.call, timer |-> Timeout(0),
                  timing |-> Timeout(0) # 0 /\ dated]
    /\ UNCHANGED <<tasks, calls, world>>

\* The time select gets: whole seconds from one second on.
SelectTime(timer) == IF timer < Second THEN timer ELSE (timer \div Second) * Second

\* No event is there.  A poll ends the call; else it waits, for ever if there is no
\* timer, and for the timer even if the caller asked not to wait.
Select ==
    /\ driver.at = "loop" /\ events = <<>>
    /\ IF driver.timer < 0 \/ (NoWait /\ driver.timer = 0)
       THEN Returns(0, input, QFTIMER)
       ELSE /\ driver' = [at |-> "select", call |-> driver.call, timer |-> driver.timer,
                          timing |-> driver.timing, left |-> SelectTime(driver.timer)]
            /\ UNCHANGED <<QFTIMER, tasks, calls>>
    /\ UNCHANGED <<SyncTimers, nMaxTimer, nOffset, world>>

\* An event is read.  One that posts nothing ends the call with 0.  One that posts a
\* message has the time counted since the event before it, and ends the call with 1, at
\* once or by the poll that follows.
ReadEvent ==
    /\ driver.at = "loop" /\ events # <<>>
    /\ LET e      == Head(events)
           posts  == e.to \in live
           counts == posts /\ driver.timing /\ e.since > 0
       IN  /\ IF counts THEN GetTimeout(e.since) ELSE UNCHANGED <<SyncTimers, nMaxTimer, nOffset>>
           /\ Returns(IF posts THEN 1 ELSE 0,
                      IF posts THEN [input EXCEPT ![e.to] = @ + 1] ELSE input,
                      IF counts THEN FlagsAfter(e.since) ELSE QFTIMER)
           /\ dated' = (dated \/ e.isDated)
    /\ events' = Tail(events)
    /\ UNCHANGED <<lag, arrived>>

\* select ends by an event: the loop starts again.
Awake ==
    /\ driver.at = "select" /\ events # <<>>
    /\ driver' = [at |-> "loop", call |-> driver.call, timer |-> driver.timer,
                  timing |-> driver.timing]
    /\ UNCHANGED <<table, tasks, calls, world>>

\* select ends by its timeout, and all of timer counts as elapsed.  It was the wait of
\* some timer, which expires now, and the call returns 0.
TimesOut ==
    /\ driver.at = "select" /\ events = <<>> /\ driver.timer > 0 /\ driver.left = 0
    /\ GetTimeout(driver.timer)
    /\ Returns(0, input, FlagsAfter(driver.timer))
    /\ UNCHANGED world

----------------------------------------------------------------------------
\* The world outside

\* lag counts from the first dated event on; after the last event it is of no use.
Counting == arrived < MaxEvents /\ (dated \/ \E i \in 1 .. Len(events) : events[i].isDated)

\* A unit of time passes; select ends in time.
Tick ==
    /\ driver.at = "select" /\ driver.timer > 0 => driver.left > 0
    /\ lag' = IF Counting THEN Capped(lag + 1) ELSE 0
    /\ driver' = IF driver.at = "select" /\ driver.timer > 0
                 THEN [driver EXCEPT !.left = @ - 1] ELSE driver
    /\ UNCHANGED <<table, tasks, calls, events, dated, arrived>>

\* An X event arrives: input for a task, or what posts nothing; some have a time.
Arrive(to, isDated) ==
    /\ arrived < MaxEvents
    /\ arrived' = arrived + 1
    /\ events' = Append(events, [to |-> to, isDated |-> isDated,
                                 since |-> IF isDated THEN lag ELSE 0])
    /\ lag' = IF isDated \/ arrived' = MaxEvents THEN 0 ELSE lag
    /\ UNCHANGED <<table, tasks, calls, driver, dated>>

----------------------------------------------------------------------------
Init ==
    /\ SyncTimers = [n \in Slot |-> FreeTimer]
    /\ nMaxTimer = 0 /\ nOffset = 0
    /\ QFTIMER = {}
    /\ TASK_READY = {} /\ TASK_DELETE_PENDING = {} /\ hCurrentTask \in Task
    /\ live = Task /\ windows = Window
    /\ request = [t \in Task |-> NotAsking]
    /\ got = Nothing
    /\ input = [t \in Task |-> 0]
    /\ driver = Idle
    /\ events = <<>>
    /\ lag = 0 /\ dated = FALSE
    /\ arrived = 0

Program ==
    \/ \E w \in Window \cup {NoWindow}, id \in Ids, time \in Timeouts : SetTimer(w, id, time)
    \/ \E w \in Window \cup {NoWindow}, id \in Ids : KillTimer(w, id)
    \/ \E w \in Window : DestroyWindow(w)
    \/ EndTask
    \/ Yield
    \/ \E r \in Requests : Ask(r)

\* What the library does without the program.
Finds   == GetInput \/ GetTimer
Waits   == GetNothing \/ Enter \/ Select \/ ReadEvent \/ Awake \/ TimesOut
Library == Finds \/ (Waits /\ got' = Nothing)

Outside == Tick \/ \E to \in Task \cup {NoTask}, isDated \in BOOLEAN : Arrive(to, isDated)

Next == Library \/ ((Program \/ Outside) /\ got' = Nothing)

TimePasses == Tick /\ got' = Nothing
GetsMessage ==
    /\ \E r \in Requests : r.remove /\ ~r.bNoWait /\ r.hWnd = NoWindow /\ Ask(r)
    /\ got' = Nothing

\* The library's steps end, time passes, and a program calls GetMessage again and again.
Spec == /\ Init /\ [][Next]_vars
        /\ WF_vars(Library) /\ WF_vars(TimePasses) /\ SF_vars(GetsMessage)

----------------------------------------------------------------------------
\* Properties

Timer == [hTask : Task, hWnd : Window \cup {NoWindow}, uID : Nat, uTimeout : Timeouts,
          nWaitTime : 0 .. MaxTime]
Call == {"first", "stay", "second", "yield", "end"}
Request == [asking : {TRUE}, hWnd : Window \cup {NoWindow}, hTask : Task, remove : BOOLEAN,
            bNoWait : BOOLEAN, noYield : BOOLEAN]

\* Every variable keeps its type, a task that was freed neither runs nor has anything, and
\* one that ended runs only until it is switched from.
TypeOK ==
    /\ SyncTimers \in [Slot -> Timer \cup {FreeTimer}]
    /\ nMaxTimer \in Slot /\ nOffset \in Slot
    /\ live \subseteq Task /\ hCurrentTask \in live
    /\ TASK_DELETE_PENDING \subseteq live
    /\ c \in TASK_DELETE_PENDING => driver # Idle /\ driver.call = "end"
    /\ QFTIMER \subseteq live /\ TASK_READY \subseteq live
    /\ windows \subseteq {w \in Window : Owner[w] \in live}
    /\ \A t \in Task : request[t] \in Request \cup {NotAsking}
    /\ got \in Slot \cup {Nothing, Message}
    /\ input \in [Task -> 0 .. MaxEvents]
    /\ driver.at \in {"idle", "start", "loop", "select"}
    /\ driver # Idle => driver.call \in Call
    /\ \A i \in 1 .. Len(events) : events[i].to \in Task \cup {NoTask}
    /\ lag \in 0 .. MaxTime /\ dated \in BOOLEAN /\ arrived \in 0 .. MaxEvents

\* No timer lies beyond the mark to which TWIN_GetTimerMsg looks (SysMisc.c:208-209).
MarkCovers == \A n \in Used : n <= nMaxTimer

\* An expired timer stays announced to its task until it is reported, though a search
\* for another window's timers clears the flag: when the task looks for messages
\* again, the driver has set it again (SysMisc.c:239, 262-267).
ExpiredAnnounced ==
    driver.at # "start" =>
        \A n \in Used : SyncTimers[n].nWaitTime = 0 /\ SyncTimers[n].hTask \in live =>
            SyncTimers[n].hTask \in QFTIMER

\* The driver sleeps for ever only if there is no timer, and else exactly as long as the
\* timer that is to expire next lets it (XEvents.c:214-241, SysMisc.c:270-271).
SleepsUntilNext ==
    driver.at = "select" =>
        IF driver.timer = 0 THEN Used = {}
        ELSE /\ \A n \in Used : SyncTimers[n].nWaitTime >= driver.timer
             /\ \E n \in Used : SyncTimers[n].nWaitTime = driver.timer

\* A timer is reported, or freed, or its task ends, whichever others expire meanwhile
\* (SysMisc.c:208-241).
TimersReported ==
    \A n \in Slot : \A t \in Task :
        (n \in Used /\ SyncTimers[n].hTask = t)
            ~> (got = n \/ n \notin Used \/ t \notin live \ TASK_DELETE_PENDING)
=============================================================================
