------------------------------ MODULE MsgFifo -------------------------------
(***************************************************************************)
(* What message queues promise, whatever they are made of: a bounded       *)
(* sequence of messages per queue, each of which is taken at most once or  *)
(* is dropped because its window takes no messages.                        *)
(***************************************************************************)
EXTENDS Integers, Sequences

CONSTANTS
    Queue,       \* the queues
    System,      \* the one of them that holds input
    Size,        \* how many messages each holds
    Window, NoWindow,
    Message      \* records of their number, window and kind

VARIABLES
    pending,     \* the messages in each queue, as records with their window
    taken,       \* the messages taken out for good
    window       \* "live", "disabled", "dead" (being destroyed) or "gone"

vars == <<pending, taken, window>>

Init ==
    /\ pending = [q \in Queue |-> <<>>]
    /\ taken = {}
    /\ window = [w \in Window |-> "live"]

IsNew(m) ==
    /\ m \in Message \ taken
    /\ \A q \in Queue : \A i \in 1 .. Len(pending[q]) : pending[q][i] # m

Without(s, i) == SubSeq(s, 1, i - 1) \o SubSeq(s, i + 1, Len(s))

\* A new message enters at the end or at the front, unless the queue is full.
Post(q) ==
    LET new == pending'[q]
    IN  /\ Len(new) = Len(pending[q]) + 1
        /\ Len(new) <= Size[q]
        /\ \/ new = Append(pending[q], new[Len(new)]) /\ IsNew(new[Len(new)])
           \/ new = <<new[1]>> \o pending[q] /\ IsNew(new[1])
        /\ pending' = [pending EXCEPT ![q] = new]
        /\ UNCHANGED <<taken, window>>

\* A message whose window is gone reaches nobody; a mouse message may have come to be
\* for another window meanwhile.
Take(q, i) ==
    LET m == pending[q][i] IN
    /\ m.hwnd # NoWindow /\ window[m.hwnd] = "gone" => q = System /\ m.kind = "mouse"
    /\ pending' = [pending EXCEPT ![q] = Without(@, i)]
    /\ taken' = taken \cup {pending[q][i]}
    /\ UNCHANGED window

\* Only a message whose window is gone is lost, or one of the input whose window is
\* disabled; where the mouse is, is found out late.
Drop(q, i) ==
    LET m == pending[q][i]
    IN  /\ m.hwnd # NoWindow
        /\ \/ window[m.hwnd] = "gone"
           \/ q = System /\ (m.kind = "mouse" \/ window[m.hwnd] = "disabled")
        /\ pending' = [pending EXCEPT ![q] = Without(@, i)]
        /\ UNCHANGED <<taken, window>>

Enable(w, state) ==
    /\ window[w] \in {"live", "disabled"}
    /\ window' = [window EXCEPT ![w] = state]
    /\ UNCHANGED <<pending, taken>>

\* The messages of s that are not for w.
Kept(s, w) ==
    LET kept[i \in 0 .. Len(s)] ==
            IF i = 0 THEN <<>>
            ELSE IF s[i].hwnd # w THEN Append(kept[i - 1], s[i])
            ELSE kept[i - 1]
    IN  kept[Len(s)]

\* With a window go the messages posted to it.
Destroy(w, state) ==
    /\ window[w] # "gone"
    /\ window' = [window EXCEPT ![w] = state]
    /\ pending' = [q \in Queue |->
           IF q = System THEN pending[q] ELSE Kept(pending[q], w)]
    /\ UNCHANGED taken

Next ==
    \/ \E q \in Queue : Post(q)
    \/ \E q \in Queue : \E i \in 1 .. Len(pending[q]) : Take(q, i) \/ Drop(q, i)
    \/ \E w \in Window : \/ \E state \in {"live", "disabled"} : Enable(w, state)
                         \/ \E state \in {"dead", "gone"} : Destroy(w, state)

Spec == Init /\ [][Next]_vars
=============================================================================
