----------------------------- MODULE MCMsgQueue -----------------------------
(***************************************************************************)
(* Two tasks with a window each and short queues for MsgQueue.             *)
(***************************************************************************)
EXTENDS MsgQueue, TLC

CONSTANTS t1, t2, w1, w2

MCTask   == {t1, t2}
MCWindow == {w1, w2}
MCOwner  == (w1 :> t1) @@ (w2 :> t2)
MCBelow  == (w1 :> {}) @@ (w2 :> {w1})
MCSize   == [q \in MCTask \cup {System} |-> IF q = System THEN 3 ELSE 2]
MCClosing == {w1}
MCInputs  == {<<w1, "mouse">>, <<w1, "key">>}

AnyMessage == [hwnd |-> NoWindow, kinds |-> Kind, remove |-> TRUE]
MCRequests == {AnyMessage,
               [hwnd |-> w2, kinds |-> Kind, remove |-> FALSE],
               [hwnd |-> w1, kinds |-> {"key", "other"}, remove |-> TRUE]}
=============================================================================
