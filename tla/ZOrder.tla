------------------------------- MODULE ZOrder -------------------------------
(***************************************************************************)
(* What the window tree promises: every parent has its children in order,  *)
(* the topmost first, and an operation moves one window and no other.      *)
(***************************************************************************)
EXTENDS Integers, Sequences, FiniteSets, SequencesExt

CONSTANTS Window, Desktop

VARIABLE order        \* order[p]: the children of p; of the desktop, the top-level windows

Parents == Window \cup {Desktop}

Init == order = [p \in Parents |-> <<>>]

Listed == UNION {ToSet(order[p]) : p \in Parents}

\* A new window comes last, one that gets a new parent first.
Create(h, p) ==
    /\ h \notin Listed /\ order[h] = <<>>
    /\ order' = [order EXCEPT ![p] = Append(@, h)]
Move(h, p, q) ==
    \E i \in DOMAIN order[p] :
        /\ order[p][i] = h
        /\ order' = [order EXCEPT ![p] = RemoveAt(@, i), ![q] = <<h>> \o @]

\* A window whose place changes stays among its siblings.
Place(h, p) ==
    \E i \in DOMAIN order[p] :
        /\ order[p][i] = h
        /\ \E j \in DOMAIN order[p] :
              order' = [order EXCEPT ![p] = InsertAt(RemoveAt(@, i), j, h)]

\* A window that is destroyed leaves its parent, and its children with it; so
\* do they in turn, whose parent has none by then.
Destroy(h, p) ==
    \E i \in DOMAIN order[p] :
        /\ order[p][i] = h
        /\ order' = [order EXCEPT ![p] = RemoveAt(@, i), ![h] = <<>>]
Perish(h) ==
    /\ h \notin Listed /\ order' = [order EXCEPT ![h] = <<>>]

\* What the library does between two changes of the order leaves it as it is.
Idle == order' = order

Next ==
    \/ Idle
    \/ \E h \in Window :
          \/ \E p \in Parents : Create(h, p) \/ Place(h, p) \/ Destroy(h, p)
          \/ \E p, q \in Parents : Move(h, p, q)
          \/ Perish(h)

Spec == Init /\ [][Next]_order
=============================================================================
