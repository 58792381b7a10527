----------------------------- MODULE AtomStore ------------------------------
(***************************************************************************)
(* What an atom table promises: a string has one atom, which it keeps as   *)
(* long as someone counts on it; two strings never share one.              *)
(***************************************************************************)
EXTENDS Integers

CONSTANTS Name, Number, None

Key == Name \cup Number

VARIABLES
    atom,      \* atom[s]: the atom of s, or None
    count      \* count[s]: how often s was added or locked, less the deletions

Init == atom = [s \in Key |-> None] /\ count = [s \in Key |-> 0]

\* A string that has no atom gets one that no other has.
Add(s) ==
    /\ count[s] = 0
    /\ atom'[s] \in Nat \ {atom[r] : r \in Key}
    /\ atom' = [atom EXCEPT ![s] = atom'[s]]
    /\ count' = [count EXCEPT ![s] = 1]

Count(s) ==
    /\ count[s] > 0 /\ s \in Name
    /\ count' = [count EXCEPT ![s] = @ + 1]
    /\ UNCHANGED atom

\* Integer atoms are for ever.
Delete(s) ==
    /\ count[s] > 0 /\ s \in Name
    /\ count' = [count EXCEPT ![s] = @ - 1]
    /\ atom' = IF count[s] = 1 THEN [atom EXCEPT ![s] = None] ELSE atom

Next == \E s \in Key : Add(s) \/ Count(s) \/ Delete(s)

Spec == Init /\ [][Next]_<<atom, count>>
=============================================================================
