------------------------------ MODULE HeapPool ------------------------------
(***************************************************************************)
(* What a heap promises to a program: memory that no one else has.         *)
(***************************************************************************)
EXTENDS Integers, Functions

VARIABLE granted      \* granted[p]: the size the program has at the address p

Words(p, size) == p .. p + size - 1

Init == granted = <<>>

\* Memory is handed out where nothing is held.
Alloc(p, size) ==
    /\ \A q \in DOMAIN granted : Words(p, size) \cap Words(q, granted[q]) = {}
    /\ granted' = [q \in DOMAIN granted \cup {p} |-> IF q = p THEN size ELSE granted[q]]

Free(p) == granted' = Restrict(granted, DOMAIN granted \ {p})

\* Resized memory stays where it is or comes to lie elsewhere, but nowhere over
\* what is held, its own old place included: it is still to be copied.
ReAlloc(p, r, size) ==
    /\ \A q \in DOMAIN granted \ (IF r = p THEN {p} ELSE {}) :
         Words(r, size) \cap Words(q, granted[q]) = {}
    /\ granted' = [q \in (DOMAIN granted \ {p}) \cup {r} |->
                       IF q = r THEN size ELSE granted[q]]

Next ==
    LET new == DOMAIN granted' IN
    \/ \E p \in new \ DOMAIN granted : Alloc(p, granted'[p])
    \/ \E p \in DOMAIN granted : Free(p) \/ \E r \in new : ReAlloc(p, r, granted'[r])

Spec == Init /\ [][Next]_granted
=============================================================================
