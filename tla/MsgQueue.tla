------------------------------ MODULE MsgQueue -----------------------------
(***************************************************************************)
(* Message queues of windows/Kernel.c: a block of nodes, linked into the   *)
(* queue and a free list.  Every task has one and the system has one for   *)
(* input.  GetMessage searches its task's queue and then the system's,     *)
(* node by node; at a mouse message TWIN_ForwardButtonEvent asks window    *)
(* procedures where it goes, which may do things of their own meanwhile,   *)
(* between the reading of a node and its removal.                          *)
(*                                                                         *)
(* Nodes are numbers from 1, in the order of their addresses, and 0 is the *)
(* null pointer.  A node holds the number of its message; sent[n] is what  *)
(* the n-th message says and taken[n] who took it.                         *)
(***************************************************************************)
EXTENDS Integers, Sequences, FiniteSets

CONSTANTS
    Task, Nobody,
    Window, NoWindow,
    Owner,           \* the task of each window
    Below,           \* the child windows of each window, and theirs
    System,          \* the system queue; a task's queue goes by the task's name
    Size,            \* number of nodes of each queue
    Closing,         \* the windows the program disables and destroys
    Inputs,          \* the messages the driver has: pairs of a window and a kind
    Requests,        \* what programs ask for: a window or NoWindow, kinds, PM_REMOVE
    MaxMsgs,         \* bound of the model on the messages sent
    NestedGets       \* may a window procedure asked about the mouse take messages?

Queue == Task \cup {System}
Kind  == {"mouse", "key", "char", "other", "quit"}

ASSUME NameAssumption == System \notin Task /\ Nobody \notin Task /\ NoWindow \notin Window
ASSUME OwnerAssumption == Owner \in [Window -> Task] /\ Closing \subseteq Window
ASSUME ChildAssumption == Below \in [Window -> SUBSET Window]
ASSUME SizeAssumption == Size \in [Queue -> Nat \ {0}] /\ MaxMsgs \in Nat
ASSUME InputAssumption == Inputs \subseteq Window \X {"mouse", "key"}
ASSUME RequestAssumption ==
    Requests \subseteq [hwnd : Window \cup {NoWindow}, kinds : SUBSET Kind, remove : BOOLEAN]
ASSUME NestingAssumption == NestedGets \in BOOLEAN

VARIABLES
    queue,       \* per queue: lpQueueNext, lpQueueFree, the links and the messages
    window,      \* "live", "disabled", "dead" (has WFDEAD) or "gone" (no IsWindow)
    scans,       \* the calls of QueueGetMsg in progress, innermost last
    sent, taken,
    crashed      \* a search for the node before ran off the end of its list

vars == <<queue, window, scans, sent, taken, crashed>>

Null == 0
Nodes(q) == 1 .. Size[q]

\* Whether the program runs: no search is under way but in a window procedure.
Top == scans[Len(scans)]
InProcedure == scans # <<>> /\ Top.at = "Forward"
Running == ~crashed /\ (scans = <<>> \/ InProcedure)
AtLoop == ~crashed /\ scans # <<>> /\ Top.at = "Loop"

----------------------------------------------------------------------------
\* Lists of nodes

After(Q, n) == IF n = Null THEN Null ELSE Q.lpNextMsg[n]

\* The nodes from start on, cut off after as many as there are.
Chain(Q, start) ==
    LET at[k \in 1 .. Len(Q.lpNextMsg)] == IF k = 1 THEN start ELSE After(Q, at[k - 1])
    IN  SubSeq(at, 1, Cardinality({k \in 1 .. Len(Q.lpNextMsg) : at[k] # Null}))

\* A new queue: all nodes are free, in the order of their addresses.
AllocQueue(cMsg) ==
    [lpQueueNext |-> Null, lpQueueFree |-> 1,
     lpNextMsg |-> [n \in 1 .. cMsg |-> IF n < cMsg THEN n + 1 ELSE Null],
     Message |-> [n \in 1 .. cMsg |-> 0]]

\* Mutant: the node gets its place in the free list before the node ahead of it has
\* taken over its link.
UnlinkSwapped(Q, n, prev) ==
    [Q EXCEPT !.lpQueueNext = IF prev = Null THEN Q.lpNextMsg[n] ELSE @,
              !.lpNextMsg = [m \in DOMAIN @ |->
                  IF m \in {n, prev} THEN Q.lpQueueFree ELSE @[m]],
              !.lpQueueFree = n]

\* The node whose message is wanted goes to the head of the free list; prev is the
\* node before it in the queue, or Null if it is the first.
Unlink(Q, n, prev) ==
    [Q EXCEPT !.lpQueueNext = IF prev = Null THEN Q.lpNextMsg[n] ELSE @,
              !.lpNextMsg = [m \in DOMAIN @ |->
                  IF m = n THEN Q.lpQueueFree
                  ELSE IF m = prev THEN @[n] ELSE @[m]],
              !.lpQueueFree = n]

\* The nodes before n, as the search for it finds them.
Before(Q, n) ==
    LET chain == Chain(Q, Q.lpQueueNext)
    IN  {chain[i] : i \in {j \in 1 .. Len(chain) : Q.lpNextMsg[chain[j]] = n}}

Prev(Q, n) ==
    IF Q.lpQueueNext = n \/ Before(Q, n) = {} THEN Null
    ELSE CHOOSE p \in Before(Q, n) : TRUE

\* Mutant: every message is put at the front.
InsertedFirst(Q, front, id) ==
    [lpQueueFree |-> Q.lpNextMsg[Q.lpQueueFree],
     lpQueueNext |-> Q.lpQueueFree,
     lpNextMsg |-> [Q.lpNextMsg EXCEPT ![Q.lpQueueFree] = Q.lpQueueNext],
     Message |-> [Q.Message EXCEPT ![Q.lpQueueFree] = id]]

\* QueueAddMsg with room in the queue: the first free node takes the message, at the
\* front or behind the last one.
Inserted(Q, front, id) ==
    LET n     == Q.lpQueueFree
        chain == Chain(Q, Q.lpQueueNext)
        last  == IF chain = <<>> THEN Null ELSE chain[Len(chain)]
        first == front \/ last = Null
    IN  [lpQueueFree |-> Q.lpNextMsg[n],
         lpQueueNext |-> IF first THEN n ELSE Q.lpQueueNext,
         lpNextMsg |-> [m \in DOMAIN Q.lpNextMsg |->
                          IF m = n THEN IF first THEN Q.lpQueueNext ELSE Null
                          ELSE IF m = last /\ ~first THEN n ELSE Q.lpNextMsg[m]],
         Message |-> [Q.Message EXCEPT ![n] = id]]

\* The messages in the queue, in order.
Contents(q) ==
    LET chain == Chain(queue[q], queue[q].lpQueueNext)
    IN  [i \in 1 .. Len(chain) |-> sent[queue[q].Message[chain[i]]]]

----------------------------------------------------------------------------
Init ==
    /\ queue = [q \in Queue |-> AllocQueue(Size[q])]
    /\ window = [w \in Window |-> "live"]
    /\ scans = <<>>
    /\ sent = <<>>
    /\ taken = [n \in 1 .. MaxMsgs |-> Nobody]
    /\ crashed = FALSE

\* QueueAddMsg: a full queue refuses the message.
QueueAddMsg(q, front, hwnd, kind, receiver) ==
    /\ Running
    /\ Len(sent) < MaxMsgs
    /\ queue[q].lpQueueFree # Null
    /\ sent' = Append(sent, [id |-> Len(sent) + 1, hwnd |-> hwnd, kind |-> kind,
                             receiver |-> receiver])
    /\ queue' = [queue EXCEPT ![q] = Inserted(@, front, Len(sent) + 1)]
    /\ UNCHANGED <<window, scans, taken, crashed>>

\* PostMessage to a window goes to its task, but not once the window has WFDEAD.
\* GetWindowTask has no task for a window that is gone.
PostMessage(w) ==
    /\ window[w] # "dead"
    /\ QueueAddMsg(IF window[w] = "gone" THEN System ELSE Owner[w],
                   FALSE, w, "other", Owner[w])

\* PostMessage of task t without a window: "my queue".  GetWindowTask has no task for
\* that either.
PostToSelf(t) == QueueAddMsg(System, FALSE, NoWindow, "other", t)

PostAppMessage(t) == QueueAddMsg(t, FALSE, NoWindow, "other", t)

PostQuitMessage(t) == QueueAddMsg(t, TRUE, NoWindow, "quit", t)

\* The driver: mouse messages name a frame, keys the window with the focus.
DriverEvent(w, kind) ==
    /\ window[w] # "gone"
    /\ QueueAddMsg(System, FALSE, w, kind, Owner[w])

\* TranslateMessage of a key message that task t took for its window w.
TranslateMessage(n) ==
    /\ sent[n].kind = "key"
    /\ taken[n] # Nobody
    /\ QueueAddMsg(System, TRUE, sent[n].hwnd, "char", sent[n].receiver)

EnableWindow(w, state) ==
    /\ Running
    /\ window[w] \in {"live", "disabled"} \ {state}
    /\ window' = [window EXCEPT ![w] = state]
    /\ UNCHANGED <<queue, scans, sent, taken, crashed>>

\* The queue Q without the messages for w, node by node.
Flushed(Q, w) ==
    LET chain == Chain(Q, Q.lpQueueNext)
        after[i \in 0 .. Len(chain)] ==
            IF i = 0 THEN Q
            ELSE IF sent[Q.Message[chain[i]]].hwnd # w THEN after[i - 1]
            ELSE Unlink(after[i - 1], chain[i], Prev(after[i - 1], chain[i]))
    IN  after[Len(chain)]

\* Mutant: the system queue is flushed as well.
FlushWindowInput(w) ==
    queue' = [q \in Queue |-> IF q \in {Owner[w], System} THEN Flushed(queue[q], w)
                              ELSE queue[q]]

\* Messages posted to w leave its task's queue; input for it stays.
TWIN_FlushWindowMessages(w) ==
    queue' = [queue EXCEPT ![Owner[w]] = Flushed(@, w)]

\* When its task ends a window first gets WFDEAD; every window that goes, goes last
\* of all from the queue and is then no window any more.  Its child windows go before.
DestroyWindow(w, state) ==
    /\ Running
    /\ \/ state = "dead" /\ window[w] \in {"live", "disabled"}
       \/ /\ state = "gone" /\ window[w] # "gone"
          /\ \A c \in Below[w] \ {w} : window[c] = "gone"
    /\ window' = [window EXCEPT ![w] = state]
    /\ TWIN_FlushWindowMessages(w)
    /\ UNCHANGED <<scans, sent, taken, crashed>>

----------------------------------------------------------------------------
\* GetMessage and PeekMessage

\* The state of a search at the node n of q.
Loop(s, q, n) ==
    [s EXCEPT !.at = "Loop", !.queue = q, !.lpQueueMsg = n, !.lpQueueNext = Null, !.id = 0]

Replaced(s) == [scans EXCEPT ![Len(scans)] = s]
Returned == SubSeq(scans, 1, Len(scans) - 1)

\* The search begins with the queue of the task that has the window asked for, or
\* else of the task that asks.
GetMessage(t, r) ==
    LET asked == IF r.hwnd # NoWindow /\ window[r.hwnd] # "gone" THEN r.hwnd ELSE NoWindow
        q == IF asked # NoWindow THEN Owner[asked] ELSE t
        s == [at |-> "Loop", task |-> t, hwnd |-> asked, kinds |-> r.kinds,
              remove |-> r.remove, queue |-> q, lpQueueMsg |-> queue[q].lpQueueNext,
              lpQueueNext |-> Null, id |-> 0]
    IN  /\ Running
        /\ InProcedure => NestedGets /\ Len(scans) = 1
        /\ scans' = Append(scans, s)
        /\ UNCHANGED <<queue, window, sent, taken, crashed>>

\* Nothing in the task's queue: the system's is next; nothing there: no message.
ScanEnd ==
    /\ AtLoop
    /\ Top.lpQueueMsg = Null
    /\ scans' = IF Top.queue = System THEN Returned
                ELSE Replaced(Loop(Top, System, queue[System].lpQueueNext))
    /\ UNCHANGED <<queue, window, sent, taken, crashed>>

IsChild(w, of) == window[w] # "gone" /\ w \in Below[of]

\* What becomes of message id, for window w, at the search s: gone tells that the
\* window did not exist when the search came to it.
Verdict(s, id, w, gone) ==
    IF gone THEN "flush"
    ELSE IF \/ sent[id].kind \notin s.kinds
            \/ s.hwnd # NoWindow /\ w \notin {NoWindow, s.hwnd} /\ ~IsChild(w, s.hwnd)
       THEN "skip"
    ELSE IF w = NoWindow THEN "take"
    ELSE IF window[w] = "gone" THEN "drop"
    ELSE IF Owner[w] # s.task THEN "skip"
    ELSE IF window[w] = "disabled" /\ s.queue = System THEN "drop"
    ELSE "take"

\* Mutant: a message that is only looked at is removed.
SettlePeeked(s, n, id, next, verdict) ==
    LET found == queue[s.queue].lpQueueNext = n \/ Before(queue[s.queue], n) # {}
    IN  /\ queue' = IF verdict # "skip" /\ found
                    THEN [queue EXCEPT ![s.queue] = Unlink(@, n, Prev(@, n))]
                    ELSE queue
        /\ crashed' = (verdict # "skip" /\ ~found)
        /\ taken' = IF verdict = "take" /\ s.remove
                    THEN [taken EXCEPT ![id] = s.task] ELSE taken
        /\ scans' = IF verdict = "take" THEN Returned
                    ELSE Replaced(Loop(s, s.queue, next))
        /\ UNCHANGED <<window, sent>>

\* The rest of the loop for node n: the message goes if it is to be removed, and the
\* search goes on to next unless it is taken.
Settle(s, n, id, next, verdict) ==
    LET removed == verdict = "flush" \/ (verdict # "skip" /\ s.remove)
        found == queue[s.queue].lpQueueNext = n \/ Before(queue[s.queue], n) # {}
    IN  /\ queue' = IF removed /\ found
                    THEN [queue EXCEPT ![s.queue] = Unlink(@, n, Prev(@, n))]
                    ELSE queue
        /\ crashed' = (removed /\ ~found)
        /\ taken' = IF verdict = "take" /\ s.remove
                    THEN [taken EXCEPT ![id] = s.task] ELSE taken
        /\ scans' = IF verdict = "take" THEN Returned
                    ELSE Replaced(Loop(s, s.queue, next))
        /\ UNCHANGED <<window, sent>>

\* The search is at a node.  If it is a mouse message for a window, in the system
\* queue, the procedures are asked; otherwise the message meets its fate.
ScanMessage ==
    LET n    == Top.lpQueueMsg
        id   == queue[Top.queue].Message[n]
        next == queue[Top.queue].lpNextMsg[n]
        w    == sent[id].hwnd
        gone == w # NoWindow /\ window[w] = "gone"
    IN  /\ AtLoop
        /\ n # Null
        /\ IF Top.queue = System /\ sent[id].kind = "mouse" /\ ~gone
           THEN /\ scans' = Replaced([Top EXCEPT !.at = "Forward", !.lpQueueNext = next,
                                                 !.id = id])
                /\ UNCHANGED <<queue, window, sent, taken, crashed>>
           ELSE Settle(Top, n, id, next, Verdict(Top, id, w, gone))

\* TWIN_ForwardButtonEvent returns: the message is for window w, or for none and is
\* left where it is.
ForwardReturns(w) ==
    /\ ~crashed
    /\ InProcedure
    /\ Settle(Top, Top.lpQueueMsg, Top.id, Top.lpQueueNext,
              IF w = NoWindow THEN "skip" ELSE Verdict(Top, Top.id, w, FALSE))

Next ==
    \/ \E w \in Window : PostMessage(w)
    \/ \E i \in Inputs : DriverEvent(i[1], i[2])
    \/ \E w \in Closing : \/ \E state \in {"live", "disabled"} : EnableWindow(w, state)
                          \/ \E state \in {"dead", "gone"} : DestroyWindow(w, state)
    \/ \E t \in Task : PostToSelf(t) \/ PostAppMessage(t) \/ PostQuitMessage(t)
    \/ \E n \in 1 .. Len(sent) : TranslateMessage(n)
    \/ \E t \in Task, r \in Requests : GetMessage(t, r)
    \/ ScanEnd \/ ScanMessage
    \/ \E w \in Window \cup {NoWindow} : ForwardReturns(w)

Spec == Init /\ [][Next]_vars

----------------------------------------------------------------------------
\* Properties

Scan == [at : {"Loop", "Forward"}, task : Task, hwnd : Window \cup {NoWindow},
         kinds : SUBSET Kind, remove : BOOLEAN, queue : Queue,
         lpQueueMsg : Nat, lpQueueNext : Nat, id : 0 .. MaxMsgs]

\* Every variable keeps its type; links stay within a queue's own nodes.
TypeOK ==
    /\ \A q \in Queue :
           /\ DOMAIN queue[q].lpNextMsg = Nodes(q)
           /\ {queue[q].lpQueueNext, queue[q].lpQueueFree} \subseteq Nodes(q) \cup {Null}
           /\ queue[q].lpNextMsg \in [Nodes(q) -> Nodes(q) \cup {Null}]
           /\ queue[q].Message \in [Nodes(q) -> 0 .. MaxMsgs]
    /\ window \in [Window -> {"live", "disabled", "dead", "gone"}]
    /\ scans \in Seq(Scan)
    /\ sent \in Seq([id : 1 .. MaxMsgs, hwnd : Window \cup {NoWindow}, kind : Kind,
                     receiver : Task])
    /\ taken \in [1 .. MaxMsgs -> Task \cup {Nobody}]
    /\ crashed \in BOOLEAN

\* Every node is in the queue or in the free list and in one of them only, and both
\* lists end: none is lost, and none is used twice (Kernel.c:455-479, 584-602).
WellLinked ==
    /\ TypeOK
    /\ \A q \in Queue :
           LET used == Chain(queue[q], queue[q].lpQueueNext)
               free == Chain(queue[q], queue[q].lpQueueFree)
               both == used \o free
           IN  /\ Len(both) = Size[q]
               /\ {both[i] : i \in 1 .. Len(both)} = Nodes(q)

\* A search in a window procedure still has its message in the queue, and the node
\* it will go on to is the one that follows now, or did before a message was added
\* behind its own; and its search for the node before ends (Kernel.c:511-525, 590-593).
ScanAnchored ==
    /\ ~crashed
    /\ \A i \in 1 .. Len(scans) :
         LET s == scans[i]
             Q == queue[s.queue]
             used == Chain(Q, Q.lpQueueNext)
         IN  s.at = "Forward" =>
                 /\ \E k \in 1 .. Len(used) : used[k] = s.lpQueueMsg
                 /\ Q.Message[s.lpQueueMsg] = s.id
                 /\ s.lpQueueNext \in {Q.lpNextMsg[s.lpQueueMsg], Null}

\* Keys and posted messages for the same window are taken in the order they came.
InOrder ==
    [][\A n \in 1 .. Len(sent) :
          taken[n] = Nobody /\ taken'[n] # Nobody /\ sent[n].kind \in {"key", "other"}
          => \A q \in Queue :
                LET c == Contents(q)
                IN  \A i, j \in 1 .. Len(c) :
                        c[i] = sent[n] /\ c[j].id < n
                            => c[j].kind # sent[n].kind \/ c[j].hwnd # sent[n].hwnd]_vars

\* The queues implement those of MsgFifo: the nodes hold a bounded sequence of
\* messages, no message is taken twice, and none is lost but with its window.
Fifo == INSTANCE MsgFifo WITH
    pending <- [q \in Queue |-> Contents(q)],
    taken   <- {sent[n] : n \in {k \in 1 .. Len(sent) : taken[k] # Nobody}},
    Message <- [id : 1 .. MaxMsgs, hwnd : Window \cup {NoWindow}, kind : Kind,
                receiver : Task]

ImplementsFifo == Fifo!Spec
=============================================================================
