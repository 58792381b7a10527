------------------------------ MODULE MCTimers ------------------------------
(***************************************************************************)
(* One or two tasks and a window for Timers.                               *)
(***************************************************************************)
EXTENDS Timers, TLC

CONSTANTS t1, t2, w1

MCOwner == [w \in Window |-> t1]
Request1(w, remove, bNoWait, noYield) ==
    [hWnd |-> w, remove |-> remove, bNoWait |-> bNoWait, noYield |-> noYield]
GetMessage  == Request1(NoWindow, TRUE, FALSE, FALSE)
PeekNoYield == Request1(w1, TRUE, TRUE, TRUE)
SafeRequests == {GetMessage, PeekNoYield}
=============================================================================
