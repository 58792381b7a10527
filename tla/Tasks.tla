------------------------------- MODULE Tasks --------------------------------
(***************************************************************************)
(* Cooperative tasks and the messages they send each other: the task list  *)
(* and the scheduler of windows/KrnTask.c, and SendMessage between tasks,  *)
(* TWIN_ReceiveMessage, ReplyMessage and GetMessage of windows/Messages.c. *)
(*                                                                         *)
(* One task runs at a time, until it calls something that switches.  What  *)
(* a task has on its C stack is the sequence frames[t], innermost last:    *)
(*   Switch  in InternalDirectedYield, waiting to be switched back to      *)
(*   Send    in the wait loop of SendMessage; its variable smse lives here *)
(*   Handle  in the window procedure TWIN_ReceiveMessage called            *)
(*   Get     in the loop of GetMessage                                     *)
(*   Delete  in DeleteTask, of itself                                      *)
(* and an empty sequence is the task's own code.  The address of an smse is*)
(* the place of its frame, so a later Send at the same depth reuses it.    *)
(***************************************************************************)
EXTENDS Integers, Sequences, FiniteSets

CONSTANTS
    Task,            \* tasks there may be
    Native,          \* the task InitializeNativeTask creates
    MaxSends,        \* bound of the model on intertask SendMessages
    MaxPosts,        \* size of a task's queue
    MaxInput,        \* bound on a task's messages in the system queue
    HandlersYield,   \* may a window procedure that handles a sent message yield?
    HandlersReply,   \* may it call ReplyMessage before it returns?
    HandlersExit     \* may it call FatalAppExit?

ASSUME TaskAssumption == IsFiniteSet(Task) /\ Native \in Task
ASSUME SendAssumption == MaxSends \in Nat /\ MaxPosts \in Nat /\ MaxInput \in Nat
ASSUME HabitAssumption == {HandlersYield, HandlersReply, HandlersExit} \subseteq BOOLEAN

VARIABLES
    lpTaskHead,           \* the task list, from its head
    hCurrentTask,
    TASK_READY, TASK_DELETE_PENDING,      \* the tasks that have the flag
    frames,
    posted,               \* messages in each task's queue
    input,                \* messages in the system queue for each task's windows
    lpSendMessageStack,   \* address of an smse, or Null
    smse,                 \* the ITSMINFO at each address
    bInSendMessage,
    sends,                \* number of intertask sends so far
    handled,              \* handled[n]: how often the n-th one was handled
    flag,                 \* FatalAppExit was called
    halted                \* "no", or why the model goes no further

schedVars == <<lpTaskHead, hCurrentTask, TASK_READY, frames, posted, input, halted>>
sendVars == <<lpSendMessageStack, smse, bInSendMessage, sends, handled>>
ends == <<TASK_DELETE_PENDING, flag>>
vars == <<schedVars, ends, sendVars>>

Null == <<>>
MaxDepth == 2 * MaxSends + 1      \* every send adds a Send and a Handle frame
Address == Task \X (1 .. MaxDepth)

Switch == [at |-> "Switch"]
Get    == [at |-> "Get"]
Delete(yielded) == [at |-> "Delete", yielded |-> yielded]
Send(saved) == [at |-> "Send", cInSendMessage |-> saved]
Handle(a, s, saved, y) ==
    [at |-> "Handle", saved_ptr |-> a, send |-> s, cInSendMessage |-> saved, yield |-> y]

NoInfo == [lpPrev |-> Null, hSendingTask |-> Native, hReceivingTask |-> Native,
           bSendReceived |-> FALSE, bSendCompleted |-> FALSE, lResult |-> 0, send |-> 0]

----------------------------------------------------------------------------
c    == hCurrentTask
Here == frames[c]
At(place) == halted = "no" /\ Here # <<>> /\ Here[Len(Here)].at = place
Top  == Here[Len(Here)]
Popped == [frames EXCEPT ![c] = SubSeq(@, 1, Len(@) - 1)]
Pushed(f) == [frames EXCEPT ![c] = Append(@, f)]

\* The current task runs its own code; a window procedure that handles a sent
\* message counts as such where the task's habits let it.
Handling == At("Handle")
Running(habit) == halted = "no" /\ (Here = <<>> \/ (Handling /\ habit))

TasksIn(list) == {list[i] : i \in 1 .. Len(list)}
TWIN_IsLiveTask(t) == t \in TasksIn(lpTaskHead) \ TASK_DELETE_PENDING

\* The sends whose SendMessage has not returned, by the address of their smse.
SendFrames ==
    {a \in Address : a[2] <= Len(frames[a[1]]) /\ frames[a[1]][a[2]].at = "Send"}

----------------------------------------------------------------------------
\* The scheduler

Places == 1 .. Len(lpTaskHead)
Passed(i) == \E p \in 1 .. i - 1 : lpTaskHead[p] = c
First(S) == CHOOSE i \in S : \A j \in S : i <= j

\* Mutant: the search takes the first ready task, wherever the current one is.
RoundRobinFromHead(readyAt) ==
    [found |-> IF readyAt # {} THEN {First(readyAt)} ELSE {}, last |-> Len(lpTaskHead)]

\* Round robin: of the places of tasks that are ready, the first after the current
\* task, where the search ends, or else the first of all.  It goes on to the end if
\* the current task is to be deleted, for then bBeforeCurrent stays set.
RoundRobin(readyAt) ==
    LET after == {i \in readyAt : Passed(i) /\ c \notin TASK_DELETE_PENDING}
    IN  [found |-> IF after # {} THEN {First(after)}
                   ELSE IF readyAt # {} THEN {First(readyAt)} ELSE {},
         last  |-> IF after # {} THEN First(after) ELSE Len(lpTaskHead)]

\* The tasks that FreeTask really takes away: never the current one.  (It destroys their
\* windows; what that sends to windows of other tasks is left out.)
FreeTask(doomed) == doomed \ {c}

\* The task list without those freed, in its order.
Rest(freed) ==
    LET left     == {i \in Places : lpTaskHead[i] \notin freed}
        place(k) == CHOOSE i \in left : Cardinality({j \in left : j <= i}) = k
    IN  IF freed = {} THEN lpTaskHead
        ELSE [k \in 1 .. Cardinality(left) |-> lpTaskHead[place(k)]]

\* ScheduleTask, with the ready flags in ready: tasks that have input become ready,
\* and those to be deleted go, as far as the search comes.  The current task cannot
\* go and makes all others ready instead.
ScheduleTask(ready) ==
    LET all    == TasksIn(lpTaskHead)
        woken  == ready \cup {t \in all : input[t] > 0}
        flags  == IF c \in TASK_DELETE_PENDING \cap all THEN woken \cup all ELSE woken
        isReady(i) ==
            LET t == lpTaskHead[i]
            IN  /\ t \notin TASK_DELETE_PENDING
                /\ posted[t] > 0 \/ t \in (IF Passed(i) THEN flags ELSE woken)
        search == RoundRobin({i \in Places : isReady(i)})
        freed  == FreeTask({lpTaskHead[i] : i \in 1 .. search.last} \cap TASK_DELETE_PENDING)
    IN  [next  |-> IF search.found = {} THEN c
                   ELSE lpTaskHead[CHOOSE i \in search.found : TRUE],
         ready |-> flags \ freed,
         freed |-> freed,
         none  |-> all \subseteq TASK_DELETE_PENDING]

\* Every switch leaves the task in a Switch frame, unless it is to the task itself;
\* after is what its C stack holds below that frame.
SwitchTo(t, after, ready) ==
    IF t = c
    THEN /\ frames' = after
         /\ TASK_READY' = ready
         /\ UNCHANGED hCurrentTask
    ELSE /\ frames' = [after EXCEPT ![c] = Append(@, Switch)]
         /\ TASK_READY' = ready \ {t}
         /\ hCurrentTask' = t

DirectedYield(t, after) ==
    /\ SwitchTo(t, after, TASK_READY \cup {c})
    /\ UNCHANGED <<lpTaskHead, posted, input, halted>>

InternalYield(after, ready) ==
    LET s == ScheduleTask(ready)
    IN  /\ SwitchTo(s.next, after, s.ready)
        /\ lpTaskHead' = Rest(s.freed)
        /\ posted' = [t \in Task |-> IF t \in s.freed THEN 0 ELSE posted[t]]
        /\ input' = [t \in Task |-> IF t \in s.freed THEN 0 ELSE input[t]]
        /\ halted' = IF s.none THEN "exit" ELSE halted

Yield(after) == InternalYield(after, TASK_READY \cup {c})

----------------------------------------------------------------------------
\* Messages between tasks

\* The newest send is for the current task, which has not taken it yet.
ForMe   == lpSendMessageStack # Null /\ smse[lpSendMessageStack].hReceivingTask = c
Sent    == ForMe /\ ~smse[lpSendMessageStack].bSendReceived
Pending == Sent /\ ~smse[lpSendMessageStack].bSendCompleted

\* Mutant: the send is not marked as received.
ReceiveUnmarked(after, yield) ==
    LET a == lpSendMessageStack
        n == smse[a].send
    IN  /\ frames' = [after EXCEPT ![c] = Append(@, Handle(a, n, bInSendMessage, yield))]
        /\ handled' = [handled EXCEPT ![n] = @ + 1]
        /\ bInSendMessage' = TRUE
        /\ UNCHANGED <<lpTaskHead, hCurrentTask, TASK_READY, posted, input, halted,
                       ends, lpSendMessageStack, smse, sends>>

\* TWIN_ReceiveMessage with a send pending: the window procedure starts on the
\* stack after.  All messages have the same number here, so that the comparison of
\* saved_msg never tells two of them apart.
Receive(after, yield) ==
    LET a == lpSendMessageStack
        n == smse[a].send
    IN  /\ smse' = [smse EXCEPT ![a].bSendReceived = TRUE]
        /\ frames' = [after EXCEPT ![c] = Append(@, Handle(a, n, bInSendMessage, yield))]
        /\ handled' = [handled EXCEPT ![n] = @ + 1]
        /\ bInSendMessage' = TRUE
        /\ UNCHANGED <<lpTaskHead, hCurrentTask, TASK_READY, posted, input, halted,
                       ends, lpSendMessageStack, sends>>

\* Mutant: the task yields before it marks the send completed.
ReplyMessageLate(result, after) ==
    IF ForMe
    THEN /\ smse' = [smse EXCEPT ![lpSendMessageStack].lResult = result]
         /\ DirectedYield(smse[lpSendMessageStack].hSendingTask, after)
    ELSE /\ frames' = after
         /\ UNCHANGED <<lpTaskHead, hCurrentTask, TASK_READY, posted, input, halted, smse>>

\* ReplyMessage: the newest send, if it is for this task, gets result.
ReplyMessage(result, after) ==
    IF ForMe
    THEN /\ smse' = [smse EXCEPT ![lpSendMessageStack].lResult = result,
                                 ![lpSendMessageStack].bSendCompleted = TRUE]
         /\ DirectedYield(smse[lpSendMessageStack].hSendingTask, after)
    ELSE /\ frames' = after
         /\ UNCHANGED <<lpTaskHead, hCurrentTask, TASK_READY, posted, input, halted, smse>>

----------------------------------------------------------------------------
Init ==
    /\ lpTaskHead = <<Native>>
    /\ hCurrentTask = Native
    /\ TASK_READY = {Native}
    /\ TASK_DELETE_PENDING = {}
    /\ frames = [t \in Task |-> <<>>]
    /\ posted = [t \in Task |-> 0]
    /\ input = [t \in Task |-> 0]
    /\ lpSendMessageStack = Null
    /\ smse = [a \in Address |-> NoInfo]
    /\ bInSendMessage = FALSE
    /\ sends = 0
    /\ handled = [n \in 1 .. MaxSends |-> 0]
    /\ flag = FALSE
    /\ halted = "no"

\* A program is loaded, or a message box needs a task of its own: CreateTask, the
\* ready flag and the thread, then DirectedYield to it.
StartTask(t) ==
    /\ Running(TRUE)
    /\ t \notin TasksIn(lpTaskHead) \cup TASK_DELETE_PENDING
    /\ lpTaskHead' = <<t>> \o lpTaskHead
    /\ SwitchTo(t, frames, TASK_READY \cup {c, t})
    /\ UNCHANGED <<posted, input, halted, ends, sendVars>>

\* Mutant: lpPrev is not set.
NewInfoUnlinked(t, n) ==
    [lpPrev |-> Null, hSendingTask |-> c, hReceivingTask |-> t,
     bSendReceived |-> FALSE, bSendCompleted |-> FALSE, lResult |-> 0, send |-> n]

\* The smse of a send to t.
NewInfo(t, n) ==
    [lpPrev |-> lpSendMessageStack, hSendingTask |-> c, hReceivingTask |-> t,
     bSendReceived |-> FALSE, bSendCompleted |-> FALSE, lResult |-> 0, send |-> n]

\* SendMessage to a window of another task that lives.
SendMessage(t) ==
    LET a == <<c, Len(Here) + 1>>
    IN  /\ Running(TRUE)
        /\ sends < MaxSends
        /\ a \in Address
        /\ t # c
        /\ TWIN_IsLiveTask(t)
        /\ sends' = sends + 1
        /\ smse' = [smse EXCEPT ![a] = NewInfo(t, sends')]
        /\ lpSendMessageStack' = a
        /\ bInSendMessage' = TRUE
        /\ DirectedYield(t, Pushed(Send(bInSendMessage)))
        /\ UNCHANGED <<ends, handled>>

\* A task that was switched back to leaves InternalDirectedYield through
\* TWIN_ReceiveMessage(FALSE).
Resume ==
    /\ At("Switch")
    /\ IF Pending
       THEN Receive(Popped, FALSE)
       ELSE /\ frames' = Popped
            /\ UNCHANGED <<lpTaskHead, hCurrentTask, TASK_READY, posted, input, halted,
                           ends, sendVars>>

\* SendMessage returns when its message was replied to; its smse is no more (here,
\* NoInfo).  If the stack then leads to such a frame, the next yield reads it and may
\* do anything: the model ends there.
SendReturn ==
    LET a == <<c, Len(Here)>>
        prev == smse[a].lpPrev
    IN  /\ At("Send")
        /\ smse[a].bSendCompleted
        /\ lpSendMessageStack' = prev
        /\ smse' = [smse EXCEPT ![a] = NoInfo]
        /\ bInSendMessage' = Top.cInSendMessage
        /\ frames' = Popped
        /\ halted' = IF prev \in (SendFrames \ {a}) \cup {Null} THEN "no" ELSE "stack lost"
        /\ UNCHANGED <<lpTaskHead, hCurrentTask, TASK_READY, posted, input,
                       ends, sends, handled>>

\* Until then it is in TWIN_ReceiveMessage(TRUE), which returns at once when the
\* stack is empty.
SendWait ==
    /\ At("Send")
    /\ ~smse[<<c, Len(Here)>>].bSendCompleted
    /\ lpSendMessageStack # Null
    /\ IF Pending
       THEN Receive(frames, TRUE)
       ELSE Yield(frames) /\ UNCHANGED <<ends, sendVars>>

\* The window procedure returns to TWIN_ReceiveMessage, which replies if the newest
\* send is still the one it took.
HandlerReturn ==
    /\ At("Handle")
    /\ bInSendMessage' = Top.cInSendMessage
    /\ IF Top.saved_ptr = lpSendMessageStack
       THEN ReplyMessage(Top.send, Popped)
       ELSE /\ IF Top.yield THEN Yield(Popped)
               ELSE frames' = Popped /\ UNCHANGED <<lpTaskHead, hCurrentTask, TASK_READY,
                                                    posted, input, halted>>
            /\ UNCHANGED smse
    /\ UNCHANGED <<ends, lpSendMessageStack, sends, handled>>

\* The window procedure replies before it returns.
EarlyReply ==
    /\ HandlersReply
    /\ Handling
    /\ ForMe
    /\ ReplyMessage(Top.send, frames)
    /\ UNCHANGED <<ends, lpSendMessageStack, bInSendMessage, sends, handled>>

\* The program yields, or peeks for messages.
AppYield ==
    /\ Running(HandlersYield)
    /\ Yield(frames)
    /\ UNCHANGED <<ends, sendVars>>

\* Mutant: a full queue takes one more.
PostMessageFull(t) ==
    /\ Running(TRUE)
    /\ t \in TasksIn(lpTaskHead)
    /\ posted' = [posted EXCEPT ![t] = @ + 1]
    /\ UNCHANGED <<lpTaskHead, hCurrentTask, TASK_READY, frames, input, halted,
                   ends, sendVars>>

\* A message is posted to t, which may be about to end; if its queue is full nothing
\* happens.
PostMessage(t) ==
    /\ Running(TRUE)
    /\ t \in TasksIn(lpTaskHead)
    /\ posted[t] < MaxPosts
    /\ posted' = [posted EXCEPT ![t] = @ + 1]
    /\ UNCHANGED <<lpTaskHead, hCurrentTask, TASK_READY, frames, input, halted,
                   ends, sendVars>>

\* The driver puts a mouse or key message for t's window into the system queue.
DriverEvent(t) ==
    /\ halted = "no"
    /\ t \in TasksIn(lpTaskHead)
    /\ input[t] < MaxInput
    /\ input' = [input EXCEPT ![t] = @ + 1]
    /\ UNCHANGED <<lpTaskHead, hCurrentTask, TASK_READY, frames, posted, halted,
                   ends, sendVars>>

GetMessage ==
    /\ Running(HandlersYield)
    /\ Len(Here) < MaxDepth
    /\ frames' = Pushed(Get)
    /\ UNCHANGED <<lpTaskHead, hCurrentTask, TASK_READY, posted, input, halted,
                   ends, sendVars>>

\* One turn of its loop: sent messages first, then posted ones, then the system
\* queue, where the owners of messages ahead become ready; with nothing to do the
\* task gives way without making itself ready, or, if the driver had events, with.
GetStep(busyDriver) ==
    /\ At("Get")
    /\ \/ Pending /\ Receive(frames, FALSE)
       \/ /\ ~Sent
          /\ posted[c] > 0
          /\ posted' = [posted EXCEPT ![c] = @ - 1]
          /\ frames' = Popped
          /\ UNCHANGED <<lpTaskHead, hCurrentTask, TASK_READY, input, halted,
                         ends, sendVars>>
       \/ /\ ~Sent
          /\ posted[c] = 0 /\ input[c] > 0
          /\ input' = [input EXCEPT ![c] = @ - 1]
          /\ \E ahead \in SUBSET {t \in Task \ {c} : input[t] > 0} :
                TASK_READY' = TASK_READY \cup ahead
          /\ frames' = Popped
          /\ UNCHANGED <<lpTaskHead, hCurrentTask, posted, halted,
                         ends, sendVars>>
       \/ /\ ~Sent
          /\ posted[c] = 0 /\ input[c] = 0
          /\ IF busyDriver THEN Yield(frames) ELSE InternalYield(frames, TASK_READY)
          /\ UNCHANGED <<ends, sendVars>>

\* DeleteTask of the task itself, up to its loops; ready are the ready flags.
DeleteTask(ready) ==
    /\ TASK_DELETE_PENDING' = TASK_DELETE_PENDING \cup {c}
    /\ TASK_READY' = ready \ {c}
    /\ frames' = Pushed(Delete(FALSE))
    /\ UNCHANGED halted

\* A task reaches its end; the one of a message box makes all others ready.  The
\* process ends with the native task.
EndTask(messageBox) ==
    /\ Running(FALSE)
    /\ IF c = Native
       THEN halted' = "exit" /\ UNCHANGED <<TASK_DELETE_PENDING, TASK_READY, frames>>
       ELSE DeleteTask(IF messageBox THEN TasksIn(lpTaskHead) ELSE TASK_READY)
    /\ UNCHANGED <<lpTaskHead, hCurrentTask, posted, input, flag, sendVars>>

\* FatalAppExit deletes the current task the first time, and ends the process the
\* second time.
FatalAppExit ==
    /\ Running(HandlersExit)
    /\ Len(Here) < MaxDepth
    /\ flag' = TRUE
    /\ IF flag
       THEN halted' = "exit" /\ UNCHANGED <<TASK_DELETE_PENDING, TASK_READY, frames>>
       ELSE DeleteTask(TASK_READY)
    /\ UNCHANGED <<lpTaskHead, hCurrentTask, posted, input, sendVars>>

\* First it answers 0 to whoever waits for it.
DeleteReply ==
    /\ At("Delete")
    /\ ~Top.yielded
    /\ ForMe
    /\ ReplyMessage(0, frames)
    /\ UNCHANGED <<ends, lpSendMessageStack, bInSendMessage, sends, handled>>

\* Then it yields for ever, but returns when a yield does and no other task is left.
DeleteYield ==
    /\ At("Delete")
    /\ IF ~Top.yielded
       THEN /\ ~ForMe
            /\ InternalYield([frames EXCEPT ![c][Len(Here)] = Delete(TRUE)], TASK_READY)
       ELSE IF Len(lpTaskHead) <= 1
       THEN /\ halted' = "DeleteTask returned"
            /\ TASK_READY' = TASK_READY \ {c}
            /\ UNCHANGED <<lpTaskHead, hCurrentTask, frames, posted, input>>
       ELSE InternalYield(frames, TASK_READY \ {c})
    /\ UNCHANGED <<ends, sendVars>>

Step ==
    \/ \E t \in Task : StartTask(t) \/ SendMessage(t) \/ PostMessage(t)
    \/ Resume \/ SendReturn \/ SendWait
    \/ HandlerReturn \/ EarlyReply
    \/ AppYield
    \/ GetMessage
    \/ \E busyDriver \in BOOLEAN : GetStep(busyDriver)
    \/ \E messageBox \in BOOLEAN : EndTask(messageBox)
    \/ FatalAppExit
    \/ DeleteReply \/ DeleteYield

Next == Step \/ \E t \in Task : DriverEvent(t)

\* The library is a single thread of the process, whose steps end: something always
\* happens next, be it the program's choice.  A program that keeps running yields now
\* and then, as programs for a system without pre-emption must.
Spec == Init /\ [][Next]_vars /\ WF_vars(Step) /\ SF_vars(AppYield)

----------------------------------------------------------------------------
\* Properties

Frame == {Switch, Get} \cup {Delete(y) : y \in BOOLEAN} \cup {Send(b) : b \in BOOLEAN}
         \cup {Handle(a, n, b, y) : a \in Address, n \in 1 .. MaxSends,
                                    b \in BOOLEAN, y \in BOOLEAN}

\* Every variable keeps its type, the task list has no task twice and only tasks
\* that ever ran have something on their C stack.
TypeOK ==
    /\ lpTaskHead \in Seq(Task)
    /\ Cardinality(TasksIn(lpTaskHead)) = Len(lpTaskHead)
    /\ hCurrentTask \in Task
    /\ TASK_READY \subseteq Task /\ TASK_DELETE_PENDING \subseteq Task
    /\ \A t \in Task : /\ \A i \in 1 .. Len(frames[t]) : frames[t][i] \in Frame
                       /\ frames[t] # <<>> =>
                              t \in TasksIn(lpTaskHead) \cup TASK_DELETE_PENDING
    /\ posted \in [Task -> 0 .. MaxPosts] /\ input \in [Task -> 0 .. MaxInput]
    /\ lpSendMessageStack \in Address \cup {Null}
    /\ bInSendMessage \in BOOLEAN /\ flag \in BOOLEAN
    /\ sends \in 0 .. MaxSends

Newest(S) ==
    IF S = {} THEN Null ELSE CHOOSE a \in S : \A b \in S : smse[b].send <= smse[a].send

\* The chain from lpSendMessageStack through lpPrev runs over exactly the sends in
\* progress, newest first: no smse is lost from it while its sender waits, and it
\* never leads to the frame of a SendMessage that has returned (Messages.c:700-709).
SendsNest ==
    /\ lpSendMessageStack = Newest(SendFrames)
    /\ \A a \in SendFrames :
           smse[a].lpPrev = Newest({b \in SendFrames : smse[b].send < smse[a].send})

\* No message is handled twice, whatever its receiver and others do before its sender
\* is answered, also when early replies have sends return out of order, lose one and
\* give its address to another (Messages.c:600-622).
HandledOnce == \A n \in 1 .. MaxSends : handled[n] <= 1

\* What SendMessage returns is what the window procedure returned for that very
\* message, handled once, or 0 from a receiver that ends meanwhile; and no message
\* is handled twice (Messages.c:600-622).
RightReply ==
    /\ HandledOnce
    /\ \A a \in SendFrames :
           smse[a].bSendCompleted =>
               \/ smse[a].lResult = smse[a].send /\ handled[smse[a].send] = 1
               \/ smse[a].lResult = 0 /\ smse[a].hReceivingTask \in TASK_DELETE_PENDING

\* Every SendMessage returns, whatever else the tasks do meanwhile.
SendsReturn ==
    \A n \in 1 .. MaxSends :
        (\E a \in SendFrames : smse[a].send = n)
            ~> (halted # "no" \/ ~\E a \in SendFrames : smse[a].send = n)

\* A task that is ready, or has messages, runs again: no yield passes it over for
\* ever (KrnTask.c:475-505; Messages.c:442-468).
RunsAgain ==
    \A t \in Task :
        (TWIN_IsLiveTask(t) /\ (t \in TASK_READY \/ posted[t] > 0 \/ input[t] > 0))
            ~> (hCurrentTask = t \/ ~TWIN_IsLiveTask(t) \/ halted # "no")

\* DeleteTask of the task itself does not return (KrnTask.c:410-414).
DeleteNeverReturns == halted # "DeleteTask returned"
=============================================================================
