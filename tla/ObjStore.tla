------------------------------ MODULE ObjStore ------------------------------
(***************************************************************************)
(* What the handle-object engine promises its callers, with no table, no   *)
(* free list and no reference count: an object stays alive, at the same    *)
(* slot and with the same signature, from its creation until its owner has *)
(* discarded it AND nobody is still using it, and it goes in the very step *)
(* that makes both true -- unless the last to use a discarded object gives *)
(* it back as something else: then it stays, for whoever uses it next.     *)
(***************************************************************************)
EXTENDS Integers

CONSTANTS Slots,     \* places an object can live at
          Kinds,     \* signatures an object can be created with
          None       \* the kind of an empty slot

VARIABLES kind,      \* kind[s]: signature of the object at s, or None
          users,     \* users[s]: pointers to the object that callers still hold
          owned,     \* owned[s]: the owner has not discarded the object yet
          stranded   \* stranded[s]: the last user of s, discarded before, gave
                     \* it back as something it is not

storeVars == <<kind, users, owned, stranded>>

Init ==
    /\ kind = [s \in Slots |-> None]
    /\ users = [s \in Slots |-> 0]
    /\ owned = [s \in Slots |-> FALSE]
    /\ stranded = [s \in Slots |-> FALSE]

\* A new object appears at a slot that holds none; its creator is its first user.
New(s, k) ==
    /\ kind[s] = None
    /\ kind' = [kind EXCEPT ![s] = k]
    /\ users' = [users EXCEPT ![s] = 1]
    /\ owned' = [owned EXCEPT ![s] = TRUE]
    /\ stranded' = [stranded EXCEPT ![s] = FALSE]

Use(s) ==
    /\ kind[s] # None
    /\ users' = [users EXCEPT ![s] = @ + 1]
    /\ stranded' = [stranded EXCEPT ![s] = FALSE]
    /\ UNCHANGED <<kind, owned>>

\* The last user of a discarded object takes it away, if it names it right.
Done(s, right) ==
    LET last == users[s] = 1 /\ ~owned[s]
    IN  /\ kind[s] # None
        /\ users[s] > 0
        /\ users' = [users EXCEPT ![s] = @ - 1]
        /\ kind' = IF last /\ right THEN [kind EXCEPT ![s] = None] ELSE kind
        /\ stranded' = [stranded EXCEPT ![s] = last /\ ~right]
        /\ UNCHANGED owned

Discard(s) ==
    /\ kind[s] # None
    /\ owned[s]
    /\ owned' = [owned EXCEPT ![s] = FALSE]
    /\ kind' = IF users[s] = 0 THEN [kind EXCEPT ![s] = None] ELSE kind
    /\ UNCHANGED <<users, stranded>>

Next ==
    \E s \in Slots :
        \/ \E k \in Kinds : New(s, k)
        \/ Use(s)
        \/ \E right \in BOOLEAN : Done(s, right)
        \/ Discard(s)

Spec == Init /\ [][Next]_storeVars
=============================================================================
