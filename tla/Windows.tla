------------------------------ MODULE Windows -------------------------------
(***************************************************************************)
(* The window tree and the life of a window: CreateWindowEx, DestroyWindow *)
(* and SetParent of windows/WindowCreate.c, and the lists, the activation  *)
(* and the focus of windows/WindowPos.c they use.                          *)
(*                                                                         *)
(* Every one of them sends messages on the way, and a window procedure may *)
(* call them again.  `stack' is the C stack of the task: a frame for every *)
(* library function that is under way, and a frame "Proc" for every window *)
(* procedure that is handling a message.  A frame holds the pointer        *)
(* GETHWND32 gave it, so FREEHWND of its window only marks it (OE_DELETE), *)
(* and a marked handle still answers; the object goes with the last holder.*)
(*                                                                         *)
(* Handles are numbers in the order of creation and are not reused.  The   *)
(* frame window, the scroll bars, the menus and the DC of a window come and*)
(* go with it and are left out.  Messages sent in a row to one window, with*)
(* nothing changed in between, are one message.  All windows are of one    *)
(* task, and the display has given the task the focus (bHaveFocus); so     *)
(* WM_ACTIVATEAPP, for the windows of a task, is left out too.             *)
(***************************************************************************)
EXTENDS Integers, Sequences, FiniteSets, SequencesExt

CONSTANTS
    MaxWindows,   \* bound on the windows ever created
    MaxNest,      \* bound on window procedures that make a call of their own
    Handled,      \* the messages window procedures handle; DefWindowProc has the others
    LoopCalls,    \* what the program calls from its message loop
    ProcCalls,    \* what its window procedures call
    Refusable,    \* the messages of CreateWindowEx a procedure may refuse
    Polite        \* do procedures leave alone what a call is working on?

ASSUME BoundAssumption == MaxWindows \in Nat /\ MaxNest \in Nat
ASSUME HabitAssumption ==
    /\ LoopCalls \cup ProcCalls \subseteq
          {"CreateWindowEx", "DestroyWindow", "SetFocus", "SetParent", "SetWindowPos"}
    /\ Refusable \subseteq {"WM_NCCREATE", "WM_CREATE"}
    /\ Polite \in BOOLEAN

Null == 0
Root == 1                        \* the window of CreateRootWindow
Win  == 2 .. MaxWindows + 1
HWND == {Null, Root} \cup Win

VARIABLES
    obj,                    \* none, live, marked (OE_DELETE) or gone
    win,                    \* WININFO
    hCurrentActiveWindow,
    hCurrentFocusWindow,
    stack,                  \* the calls under way, the innermost last
    told,                   \* the WM_DESTROYs each window got
    nctold,                 \* the WM_NCDESTROYs
    crashed                 \* a null pointer was dereferenced

tree == <<obj, win, stack>>
counts == <<told, nctold>>
vars == <<tree, hCurrentActiveWindow, hCurrentFocusWindow, counts, crashed>>

NoWindow == [kind |-> "overlapped", hWndParent |-> Null, hWndOwner |-> Null,
             hWndSibling |-> Null, hWndChild |-> Null, hWndLastChild |-> Null,
             hWndGroup |-> Null, group |-> FALSE, visible |-> FALSE]

Frame(f, at, w, v) == [fn |-> f, at |-> at, hWnd |-> w, next |-> v, refused |-> FALSE]

----------------------------------------------------------------------------
(* Handles *)

IsWindow(h) == h = Root \/ (h \in Win /\ obj[h] \in {"live", "marked"})

Holds(f) == f.fn # "SendDestroyMessages" /\ ~(f.fn = "SetFocus" /\ f.at = "focus")
Held(s) == {s[i].hWnd : i \in {j \in DOMAIN s : Holds(s[j])}}

\* The calls under way become s; what is marked in o and held no more goes.
Continue(o, s) ==
    /\ stack' = s
    /\ obj' = [h \in Win |-> IF o[h] = "marked" /\ h \notin Held(s) THEN "gone" ELSE o[h]]

FREEHWND(h) == [obj EXCEPT ![h] = "marked"]

----------------------------------------------------------------------------
(* The tree *)

\* From h along a link: the window after n steps, and Null past the end.
Along(link, h) ==
    LET at[n \in 0 .. MaxWindows] == IF n = 0 THEN h ELSE link[at[n - 1]] IN at

\* Up through the parents of child windows.
Up(h) ==
    Along([x \in HWND |-> IF /\ x # Null /\ IsWindow(x) /\ win[x].kind = "child"
                             /\ IsWindow(win[x].hWndParent)
                          THEN win[x].hWndParent ELSE Null], h)

IsChild(p, h) == LET up == Up(h) IN \E n \in 1 .. MaxWindows : up[n] = p

GetTopLevelAncestor(h) ==
    LET up == Up(h)
    IN up[CHOOSE n \in 0 .. MaxWindows :
             up[n] # Null /\ \A m \in n + 1 .. MaxWindows : up[m] = Null]

GetParent(h) ==
    IF ~IsWindow(h) THEN Null
    ELSE CASE win[h].kind = "child" -> win[h].hWndParent
           [] win[h].kind = "popup" -> win[h].hWndOwner
           [] OTHER -> Null

\* The window whose list h is in.
ListParent(h) == IF win[h].kind = "child" THEN win[h].hWndParent ELSE Root

\* The windows TWIN_EnumerateSiblingWindows comes to.
From(first) ==
    LET at == Along([x \in HWND |-> IF IsWindow(x) /\ IsWindow(win[x].hWndSibling)
                                    THEN win[x].hWndSibling ELSE Null],
                    IF IsWindow(first) THEN first ELSE Null)
        n == Cardinality({k \in 0 .. MaxWindows - 1 : at[k] # Null})
    IN [i \in 1 .. n |-> at[i - 1]]

Children(p) == From(win[p].hWndChild)
NextSib(h) == IF IsWindow(h) THEN win[h].hWndSibling ELSE Null

\* GetWindow(h, GW_HWNDPREVTREE).
PrevTree(h) ==
    LET p == ListParent(h)
        before == {x \in ToSet(Children(p)) : win[x].hWndSibling = h}
    IN IF win[p].hWndChild = h \/ before = {} THEN p ELSE CHOOSE x \in before : TRUE

\* GetWindow(h, GW_HWNDPREVGROUP): the ring from h, and who is before h in it.
Ring(h) == Along([x \in HWND |-> IF IsWindow(x) THEN win[x].hWndGroup ELSE Null], h)
InRing(h) == LET ring == Ring(h) IN \E n \in 1 .. MaxWindows : ring[n] = h
PrevGroup(h) ==
    LET ring == Ring(h)
    IN ring[(CHOOSE n \in 1 .. MaxWindows :
                ring[n] = h /\ \A m \in 1 .. n - 1 : ring[m] # h) - 1]

----------------------------------------------------------------------------
(* Changes of the lists.  Where a pointer the code follows is null, or the  *)
(* ring does not come back, the operation is not Possible.                  *)

CanFindPrev(h) ==
    LET p == ListParent(h) IN
    IsWindow(p) /\ (win[p].hWndChild = h \/ Children(p) # <<>>)

CanRemove(h) == CanFindPrev(h) /\ InRing(h) /\ IsWindow(PrevGroup(h))

\* Mutant: the window is taken for the first of its list.
UnlinkedFirst(h) == [win EXCEPT ![ListParent(h)].hWndChild = win[h].hWndSibling]

\* The links of the list without h, and then of the groups.
Unlinked(h) ==
    LET prev == PrevTree(h)
    IN IF prev = ListParent(h) THEN [win EXCEPT ![prev].hWndChild = win[h].hWndSibling]
       ELSE [win EXCEPT ![prev].hWndSibling = win[h].hWndSibling]

\* Mutant: hWndLastChild of the parent is left alone.
RemoveFromListLastStale(h) ==
    LET g == PrevGroup(h)
    IN [Unlinked(h) EXCEPT ![g].hWndGroup = IF g = h THEN @ ELSE win[h].hWndGroup]

RemoveFromList(h) ==
    LET p == ListParent(h)
        g == PrevGroup(h)
        out == [Unlinked(h) EXCEPT ![g].hWndGroup = IF g = h THEN @ ELSE win[h].hWndGroup]
    IN IF win[p].hWndLastChild # h THEN out
       ELSE [out EXCEPT ![p].hWndLastChild = IF g = h THEN Null ELSE g]

CanInsertLast(h, rec) ==
    LET p == IF rec.kind = "child" THEN rec.hWndParent ELSE Root
        last == win[p].hWndLastChild
    IN IsWindow(p) /\ ( \/ rec.group \/ rec.kind # "child" \/ last = Null
                        \/ Children(p) = <<>> \/ IsWindow(last) )

\* Mutant: a new window comes first in its list.
InsertAsFirstSibling(h, rec) ==
    LET p == IF rec.kind = "child" THEN rec.hWndParent ELSE Root
    IN [win EXCEPT ![h] = [rec EXCEPT !.hWndSibling = win[p].hWndChild, !.hWndGroup = h],
                   ![p].hWndChild = h]

\* The list of a first child that is gone is left as it is.
InsertAsLastSibling(h, rec) ==
    LET p == IF rec.kind = "child" THEN rec.hWndParent ELSE Root
        last == win[p].hWndLastChild
        joins == rec.kind = "child" /\ ~rec.group /\ last # Null
        new == [rec EXCEPT !.hWndGroup = IF joins THEN win[last].hWndGroup ELSE h]
    IN CASE win[p].hWndChild = Null ->
              [win EXCEPT ![h] = [rec EXCEPT !.hWndGroup = h], ![p].hWndChild = h]
         [] win[p].hWndChild # Null /\ Children(p) = <<>> -> [win EXCEPT ![h] = rec]
         [] OTHER ->
              LET linked == [win EXCEPT ![h] = new, ![Last(Children(p))].hWndSibling = h]
              IN IF joins THEN [linked EXCEPT ![last].hWndGroup = h] ELSE linked

\* SetParent: out of the old list, and first in the new one.
NewList(p) == IF p = Null THEN Root ELSE p
CanReparent(h, p) ==
    LET first == win[NewList(p)].hWndChild
    IN CanRemove(h) /\ (win[h].group \/ first = Null
                          \/ (IsWindow(first) /\ InRing(first) /\ IsWindow(PrevGroup(first))))

Reparented(h, p) ==
    LET first == win[NewList(p)].hWndChild
        alone == win[h].group \/ first = Null
        moved == [RemoveFromList(h) EXCEPT
                    ![h].hWndParent = p,
                    ![h].kind = IF p = Null THEN "popup" ELSE "child",
                    ![h].hWndSibling = first,
                    ![h].hWndGroup = IF alone THEN h ELSE first,
                    ![NewList(p)].hWndChild = h]
    IN IF alone THEN moved ELSE [moved EXCEPT ![PrevGroup(first)].hWndGroup = h]

\* HWND_TOP: first in its list; but a top-level window goes right after the
\* first visible window above it that is not a popup of its own.
OwnPopup(h, x) == x # h /\ win[x].kind = "popup" /\ win[x].hWndOwner # Null
                        /\ GetTopLevelAncestor(win[x].hWndOwner) = h
Above(h) ==
    LET s == Children(ListParent(h))
        stops == {i \in DOMAIN s : win[h].kind = "child" \/ ~OwnPopup(h, s[i])}
    IN IF stops = {} THEN Last(s) ELSE s[CHOOSE i \in stops : \A j \in stops : i <= j]

OrderTop(h) ==
    LET p == ListParent(h)
        first == win[p].hWndChild
        above == Above(h)
        out == Unlinked(h)
    IN CASE h \in {first, above} -> win
         [] h \notin {first, above} /\ above # first /\ win[above].visible ->
              [out EXCEPT ![h].hWndSibling = out[above].hWndSibling, ![above].hWndSibling = h]
         [] OTHER -> [out EXCEPT ![h].hWndSibling = first, ![p].hWndChild = h]

OrderBottom(h) ==
    LET last == Last(Children(ListParent(h)))
    IN IF last = h THEN win
       ELSE [Unlinked(h) EXCEPT ![last].hWndSibling = h, ![h].hWndSibling = Null]

OrderAfter(h, after) ==
    LET out == Unlinked(h)
    IN IF h = after \/ ~IsWindow(after) THEN win
       ELSE [out EXCEPT ![h].hWndSibling = out[after].hWndSibling, ![after].hWndSibling = h]

HWND_TOP == Null
HWND_BOTTOM == Root
ChangeZOrder(h, after) ==
    CASE after = HWND_TOP -> OrderTop(h)
      [] after = HWND_BOTTOM -> OrderBottom(h)
      [] OTHER -> OrderAfter(h, after)

----------------------------------------------------------------------------
(* The stack *)

Top == Last(stack)
w == Top.hWnd
At(f, at) == ~crashed /\ stack # <<>> /\ Top.fn = f /\ Top.at = at

\* The frame on top goes on at `at', once the calls `callee' have returned.
Then(at, next, callee) ==
    Front(stack) \o <<[Top EXCEPT !.at = at, !.next = next]>> \o callee
Return == Front(stack)

\* SendMessage; of the answers of DefWindowProc to a message that is not handled,
\* only that to WM_ACTIVATE matters here (SendActivate).
Send(h, message) ==
    IF h \in Win /\ IsWindow(h) /\ message \in Handled
    THEN <<Frame("Proc", message, h, Null)>> ELSE <<>>

Crash ==
    /\ crashed' = TRUE
    /\ Continue(obj, <<>>)
    /\ UNCHANGED <<win, hCurrentActiveWindow, hCurrentFocusWindow, counts>>

\* A step that changes no window and neither focus nor activation.
Steps(s) ==
    /\ Continue(obj, s)
    /\ UNCHANGED <<win, hCurrentActiveWindow, hCurrentFocusWindow, counts, crashed>>

----------------------------------------------------------------------------
(* Activation and focus.  SetActiveWindow(h) makes a call only for another  *)
(* top-level window; SetActiveWindow(0) only clears the variable.           *)

ActiveCall(h) ==
    IF IsWindow(h) /\ win[h].kind # "child" /\ h # hCurrentActiveWindow
    THEN <<Frame("SetActiveWindow", "raise", h, Null)>> ELSE <<>>

ActivateChild ==
    /\ At("SetActiveWindow", "raise") /\ win[w].kind = "child"
    /\ Steps(Return \o Send(w, "WM_CHILDACTIVATE"))

ActivateRaise ==
    /\ At("SetActiveWindow", "raise") /\ win[w].kind # "child"
    /\ IF w = win[Root].hWndChild
       THEN Steps(Then("swap", Null, <<>>))
       ELSE Steps(Then("order", Null, Send(w, "WM_WINDOWPOSCHANGING")))

ActivateOrder ==
    /\ At("SetActiveWindow", "order")
    /\ IF CanFindPrev(w)
       THEN /\ win' = ChangeZOrder(w, HWND_TOP)
            /\ Continue(obj, Then("swap", Null, Send(w, "WM_WINDOWPOSCHANGED")))
            /\ UNCHANGED <<hCurrentActiveWindow, hCurrentFocusWindow, counts, crashed>>
       ELSE Crash

\* SetWindowPos, where it only changes the order.
SetWindowPosOrder ==
    /\ At("SetWindowPos", "order")
    /\ IF CanFindPrev(w)
       THEN /\ win' = ChangeZOrder(w, Top.next)
            /\ Continue(obj, Return \o Send(w, "WM_WINDOWPOSCHANGED"))
            /\ UNCHANGED <<hCurrentActiveWindow, hCurrentFocusWindow, counts, crashed>>
       ELSE Crash

ActivateSwap ==
    /\ At("SetActiveWindow", "swap")
    /\ hCurrentActiveWindow' = w
    /\ Continue(obj, Then("nc", Null, Send(hCurrentActiveWindow, "WM_ACTIVATE")))
    /\ UNCHANGED <<win, hCurrentFocusWindow, counts, crashed>>

GetFocus == IF IsWindow(hCurrentFocusWindow) THEN hCurrentFocusWindow ELSE Null

FocusCall(h) ==
    <<Frame("SetFocus", "focus", h, Null)>>
    \o IF h # Null /\ IsWindow(h) THEN ActiveCall(GetTopLevelAncestor(h)) ELSE <<>>

\* DefWindowProc answers a WM_ACTIVATE that is not handled with SetFocus.
SendActivate(h) ==
    IF h \in Win /\ IsWindow(h) /\ "WM_ACTIVATE" \notin Handled THEN FocusCall(h)
    ELSE Send(h, "WM_ACTIVATE")

\* WM_NCACTIVATE, WM_ACTIVATE and WM_SETFOCUS, each to whichever is active by then.
ActivateTell ==
    \/ /\ At("SetActiveWindow", "nc")
       /\ Steps(Then("activate", Null, Send(hCurrentActiveWindow, "WM_NCACTIVATE")))
    \/ /\ At("SetActiveWindow", "activate")
       /\ Steps(Then("focus", Null, SendActivate(hCurrentActiveWindow)))
    \/ /\ At("SetActiveWindow", "focus")
       /\ Steps(Return \o Send(hCurrentActiveWindow, "WM_SETFOCUS"))

\* TWIN_InternalFocus, with the focus and keeping it; for 0, case 1 of its switch.
FocusTake ==
    /\ At("SetFocus", "focus")
    /\ IF w = Null \/ IsWindow(w)
       THEN /\ hCurrentFocusWindow' = w
            /\ Continue(obj, Then("focused", GetFocus, IF GetFocus = w THEN <<>>
                                                       ELSE Send(GetFocus, "WM_KILLFOCUS")))
            /\ UNCHANGED <<win, hCurrentActiveWindow, counts, crashed>>
       ELSE Steps(Return)

FocusTell ==
    /\ At("SetFocus", "focused")
    /\ hCurrentFocusWindow' = IF w = Null THEN Null ELSE hCurrentFocusWindow
    /\ Continue(obj, Return \o IF Top.next = w THEN <<>> ELSE Send(w, "WM_SETFOCUS"))
    /\ UNCHANGED <<win, hCurrentActiveWindow, counts, crashed>>

----------------------------------------------------------------------------
(* CreateWindowEx *)

\* InsertAsLastSibling, hWndLastChild of the parent, and WM_NCCREATE.
CreateInsert ==
    /\ At("CreateWindowEx", "insert")
    /\ IF CanInsertLast(w, win[w])
       THEN /\ win' = LET in == InsertAsLastSibling(w, win[w]) IN
                      IF win[w].kind = "child" THEN [in EXCEPT ![win[w].hWndParent].hWndLastChild = w]
                      ELSE in
            /\ Continue(obj, Then("nccreate", Null, Send(w, "WM_NCCREATE")))
            /\ UNCHANGED <<hCurrentActiveWindow, hCurrentFocusWindow, counts, crashed>>
       ELSE Crash

\* If WM_NCCREATE is refused the window is freed, with its links as they are.
CreateTell ==
    /\ At("CreateWindowEx", "nccreate")
    /\ Continue(IF Top.refused THEN FREEHWND(w) ELSE obj,
                IF Top.refused THEN Return ELSE Then("create", Null, Send(w, "WM_CREATE")))
    /\ UNCHANGED <<win, hCurrentActiveWindow, hCurrentFocusWindow, counts, crashed>>

\* The parent of h is told, and its own parent next if it is a child window by then.
NotifyParent(h) ==
    LET up == GetParent(h) IN
    Then("notify", IF IsWindow(up) /\ win[up].kind = "child" THEN up ELSE Null,
         Send(up, "WM_PARENTNOTIFY"))

\* If WM_CREATE is refused 0 is returned, and the window stays.  Otherwise the
\* ancestors get WM_PARENTNOTIFY, up to the first that is no child window.
CreateNotify ==
    \/ /\ At("CreateWindowEx", "create")
       /\ Steps(CASE Top.refused -> Return
                  [] ~Top.refused /\ win[w].kind = "child" -> NotifyParent(w)
                  [] OTHER -> Then("show", Null, Send(w, "WM_SHOWWINDOW")))
    \/ /\ At("CreateWindowEx", "notify")
       /\ Steps(IF Top.next # Null THEN NotifyParent(Top.next)
                ELSE Then("show", Null, Send(w, "WM_SHOWWINDOW")))

\* ShowWindow(SW_SHOW): visible, and InternalSetActiveWindow whoever is active.
CreateShow ==
    /\ At("CreateWindowEx", "show")
    /\ win' = [win EXCEPT ![w].visible = TRUE]
    /\ Continue(obj, Then("size", Null, <<Frame("SetActiveWindow", "raise", w, Null)>>))
    /\ UNCHANGED <<hCurrentActiveWindow, hCurrentFocusWindow, counts, crashed>>

CreateSize ==
    /\ At("CreateWindowEx", "size")
    /\ Steps(Then("return", Null, Send(w, "WM_SIZE")))

CreateReturn ==
    /\ At("CreateWindowEx", "return")
    /\ Steps(Return)

----------------------------------------------------------------------------
(* DestroyWindow.  Its tests that hWnd still is a window are always passed: *)
(* the frame holds it.                                                      *)

DestroyCall(h) ==
    IF ~IsWindow(h) THEN <<>>
    ELSE <<Frame("DestroyWindow", IF win[h].kind = "child" THEN "notify" ELSE "hide", h, h)>>

DestroyNotify ==
    /\ At("DestroyWindow", "notify")
    /\ Steps(LET up == GetParent(Top.next) IN
             Then(IF IsWindow(up) /\ win[up].kind = "child" THEN "notify" ELSE "hide", up,
                  Send(up, "WM_PARENTNOTIFY")))

\* Hide a visible window, telling it before and after.
DestroyHide ==
    /\ At("DestroyWindow", "hide")
    /\ Steps(Then("hidden", Null, IF win[w].visible THEN Send(w, "WM_SHOWWINDOW") ELSE <<>>))

DestroyHidden ==
    /\ At("DestroyWindow", "hidden")
    /\ win' = [win EXCEPT ![w].visible = FALSE]
    /\ LET after == IF win[w].visible THEN Send(w, "WM_WINDOWPOSCHANGED") ELSE <<>> IN
       Continue(obj, IF win[w].kind = "child" THEN Then("focus", Null, after)
                     ELSE Then("first", Null, after))
    /\ UNCHANGED <<hCurrentActiveWindow, hCurrentFocusWindow, counts, crashed>>

\* The walk over the top-level windows for those w owns.  Each has its next
\* sibling noted before it is destroyed; when that has gone, start all over.
Visit(h) ==
    CASE h = Null -> Steps(Then("focus", Null, <<>>))
      [] h # Null /\ ~IsWindow(h) -> Crash
      [] OTHER -> Steps(Then("owned", win[h].hWndSibling,
                             IF win[h].hWndOwner = w THEN DestroyCall(h) ELSE <<>>))

\* Mutant: the next sibling is read after the call: none, if the window has gone.
DestroyOwnedReadsLate ==
    LET Late(h) == IF h = Null THEN Steps(Then("focus", Null, <<>>))
                   ELSE Steps(Then("owned", h, IF win[h].hWndOwner = w THEN DestroyCall(h) ELSE <<>>))
    IN \/ At("DestroyWindow", "first") /\ Late(win[Root].hWndChild)
       \/ At("DestroyWindow", "owned") /\ Late(NextSib(Top.next))

DestroyOwned ==
    \/ At("DestroyWindow", "first") /\ Visit(win[Root].hWndChild)
    \/ /\ At("DestroyWindow", "owned")
       /\ Visit(IF Top.next # Null /\ ~IsWindow(Top.next) THEN win[Root].hWndChild ELSE Top.next)

\* The focus of the window or of a descendant goes to the parent.
DestroyFocus ==
    /\ At("DestroyWindow", "focus")
    /\ Steps(Then("tell", Null, IF GetFocus # Null /\ (GetFocus = w \/ IsChild(w, GetFocus))
                                THEN FocusCall(GetParent(w)) ELSE <<>>))

\* SendDestroyMessages: WM_DESTROY to the window, then to its children.
TellCall(h) == <<Frame("SendDestroyMessages", "first", h, Null)>> \o Send(h, "WM_DESTROY")

DestroyTell ==
    /\ At("DestroyWindow", "tell")
    /\ Steps(Then("unlink", Null, TellCall(w)))

TellNext(h) == Steps(IF h = Null THEN Return ELSE Then("rest", h, TellCall(h)))

TellChildren ==
    \/ /\ At("SendDestroyMessages", "first")
       /\ TellNext(IF IsWindow(w) THEN win[w].hWndChild ELSE Null)
    \/ /\ At("SendDestroyMessages", "rest")
       /\ TellNext(IF IsWindow(Top.next) THEN win[Top.next].hWndSibling ELSE Null)

FreeCall(h) ==
    IF IsWindow(h) THEN <<Frame("FreeWindow", "children", h, win[h].hWndChild)>> ELSE <<>>

DestroyUnlink ==
    /\ At("DestroyWindow", "unlink")
    /\ IF CanRemove(w)
       THEN /\ win' = RemoveFromList(w)
            /\ Continue(obj, Return \o FreeCall(w))
            /\ UNCHANGED <<hCurrentActiveWindow, hCurrentFocusWindow, counts, crashed>>
       ELSE Crash

\* Mutant: the next sibling is read after the call: none, the child has gone.
FreeChildrenReadsLate ==
    /\ At("FreeWindow", "children")
    /\ Steps(IF Top.next = Null THEN Then("active", Null, <<>>)
             ELSE Then("children", Null, FreeCall(Top.next)))

\* FreeWindow: the children first, each with its next sibling noted before.
FreeChildren ==
    /\ At("FreeWindow", "children")
    /\ Steps(IF Top.next = Null THEN Then("active", Null, <<>>)
             ELSE Then("children", NextSib(Top.next), FreeCall(Top.next)))

FindAnotherOverlapped(h) ==
    LET s == Children(Root)
        found == {i \in DOMAIN s : win[s[i]].kind # "popup"}
        others == {i \in found : s[i] # h}
    IN IF others # {} THEN s[Min(others)] ELSE IF found # {} THEN s[Min(found)] ELSE Null

FreeActive ==
    /\ At("FreeWindow", "active")
    /\ LET owner == win[w].hWndOwner
           heir == IF owner # Null THEN owner ELSE FindAnotherOverlapped(w)
       IN /\ hCurrentActiveWindow' =
                IF w = hCurrentActiveWindow /\ heir = Null THEN Null ELSE hCurrentActiveWindow
          /\ Continue(obj, Then("focus", Null, IF w = hCurrentActiveWindow /\ heir # Null
                                               THEN ActiveCall(heir) ELSE <<>>))
    /\ UNCHANGED <<win, hCurrentFocusWindow, counts, crashed>>

FreeFocus ==
    /\ At("FreeWindow", "focus")
    /\ Steps(Then("ncdestroy", Null, IF GetFocus = w THEN FocusCall(Null) ELSE <<>>))

\* Mutant: child windows get no WM_NCDESTROY.
FreeTellTopLevel ==
    /\ At("FreeWindow", "ncdestroy")
    /\ Steps(Then("free", Null, IF win[w].kind = "child" THEN <<>> ELSE Send(w, "WM_NCDESTROY")))

FreeTell ==
    /\ At("FreeWindow", "ncdestroy")
    /\ Steps(Then("free", Null, Send(w, "WM_NCDESTROY")))

FreeHandle ==
    /\ At("FreeWindow", "free")
    /\ Continue(FREEHWND(w), Return)
    /\ win' = IF w \in Held(Return) THEN win ELSE [win EXCEPT ![w] = NoWindow]
    /\ UNCHANGED <<hCurrentActiveWindow, hCurrentFocusWindow, counts, crashed>>

----------------------------------------------------------------------------
(* The program.  It calls from its message loop, when nothing is under way, *)
(* or from a window procedure, which makes one call and returns.            *)

Nesting == Cardinality({i \in DOMAIN stack : stack[i].fn = "Proc"})
ProgramRuns ==
    ~crashed /\ (stack # <<>> => Top.fn = "Proc" /\ Top.next = Null /\ Nesting <= MaxNest)
Calling(api) == ProgramRuns /\ api \in IF stack = <<>> THEN LoopCalls ELSE ProcCalls
Caller == IF stack = <<>> THEN <<>> ELSE Front(stack) \o <<[Top EXCEPT !.next = w]>>

\* h and what goes with it: its descendants, the popups it owns, and theirs.
Over == [x \in HWND |-> IF x \in Win /\ IsWindow(x)
                        THEN IF win[x].kind = "child" THEN win[x].hWndParent ELSE win[x].hWndOwner
                        ELSE Null]
Family(h) == {x \in Win : \E n \in 0 .. MaxWindows : Along(Over, x)[n] = h}
About(fns) == {stack[i].hWnd : i \in {j \in DOMAIN stack : stack[j].fn \in fns}}
Places == {stack[i].next : i \in {j \in DOMAIN stack : stack[j].fn = "SetWindowPos"}}
Library == {"CreateWindowEx", "DestroyWindow", "SendDestroyMessages", "FreeWindow",
            "SetActiveWindow", "SetFocus", "SetWindowPos"}
Ending == {"DestroyWindow", "SendDestroyMessages", "FreeWindow"}

\* Windows that are freed, held though they were freed, or whose owned windows are
\* being destroyed.
Going == {h \in Win : obj[h] = "marked"} \cup About({"FreeWindow"})
         \cup {stack[i].hWnd : i \in {j \in DOMAIN stack :
                  stack[j].fn = "DestroyWindow" /\ stack[j].at = "owned"}}
Doomed == UNION {Family(x) : x \in Going}

\* Windows that CreateWindowEx has not put into the tree yet.
Entering == {stack[i].hWnd : i \in {j \in DOMAIN stack :
                stack[j].fn = "CreateWindowEx" /\ stack[j].at = "insert"}}

\* The program knows the windows that are live.  A polite one destroys none that was
\* told of its end or goes with another one, or whose family a call is at work on, ...
Known == {h \in Win : obj[h] = "live"}
MayDestroy(h) ==
    Polite => /\ told[h] = 0 /\ h \notin Doomed
              /\ Family(h) \cap (About(Library) \cup Places) = {}
              /\ \A x \in Family(h) \cap About({"Proc"}) : x = h \/ win[x].kind = "child"
\* ... and gives the focus, children and another place to none that is being created
\* or destroyed.
MayUse(h) ==
    Polite => /\ told[h] = 0 /\ h \notin Doomed \cup Entering
              /\ Family(h) \cap About(Ending) = {}

\* SetParent leaves the owner, the popups owned and the activation as they are:
\* a polite program moves no window that is active, owned or an owner.
MayMove(h) == Polite => /\ h # hCurrentActiveWindow /\ win[h].hWndOwner = Null
                        /\ \A x \in Known : win[x].hWndOwner # h

\* CreateWindowEx as far as the first message.  Overlapped windows are created
\* without an owner, popups with a top-level one, child windows with a parent.
CreateWindowEx(kind, parent, group) ==
    /\ Calling("CreateWindowEx")
    /\ parent = Null \/ (parent \in Known /\ MayUse(parent))
    /\ kind = "overlapped" <=> parent = Null
    /\ kind = "popup" => win[parent].kind # "child"
    /\ group => kind = "child"
    /\ \E h \in Win :
         /\ obj[h] = "none" /\ \A x \in Win : x < h => obj[x] # "none"
         /\ win' = [win EXCEPT ![h] = [NoWindow EXCEPT
                        !.kind = kind, !.group = group,
                        !.hWndParent = IF kind = "child" THEN parent ELSE Null,
                        !.hWndOwner = IF kind = "child" THEN Null ELSE parent]]
         /\ Continue([obj EXCEPT ![h] = "live"],
                     Caller \o <<Frame("CreateWindowEx", "insert", h, Null)>>
                            \o IF "WM_GETMINMAXINFO" \in Handled
                               THEN <<Frame("Proc", "WM_GETMINMAXINFO", h, Null)>> ELSE <<>>)
    /\ UNCHANGED <<hCurrentActiveWindow, hCurrentFocusWindow, counts, crashed>>

DestroyWindow(h) ==
    /\ Calling("DestroyWindow") /\ h \in Known /\ MayDestroy(h)
    /\ Steps(Caller \o DestroyCall(h))

SetFocus(h) ==
    /\ Calling("SetFocus") /\ (h = Null \/ (h \in Known /\ MayUse(h)))
    /\ Steps(Caller \o FocusCall(h))

SetParent(h, p) ==
    /\ Calling("SetParent") /\ h \in Known /\ MayDestroy(h)
    /\ p = Null \/ (p \in Known /\ MayUse(p) /\ p # h /\ ~IsChild(h, p))
    /\ p # win[h].hWndParent
    /\ MayMove(h)
    /\ IF CanReparent(h, p)
       THEN /\ win' = Reparented(h, p)
            /\ Continue(obj, Caller)
            /\ UNCHANGED <<hCurrentActiveWindow, hCurrentFocusWindow, counts, crashed>>
       ELSE Crash

\* A polite program names a sibling.
SetWindowPos(h, after) ==
    /\ Calling("SetWindowPos") /\ h \in Known /\ MayUse(h)
    /\ after \in {HWND_TOP, HWND_BOTTOM} \cup Known
    /\ Polite /\ after \in Known => ListParent(after) = ListParent(h) /\ MayUse(after)
    /\ Steps(Caller \o <<Frame("SetWindowPos", "order", h, after)>>
                    \o Send(h, "WM_WINDOWPOSCHANGING"))

\* A window procedure returns; what it answers may refuse the creation.
ProcReturn ==
    /\ ~crashed /\ stack # <<>> /\ Top.fn = "Proc"
    /\ \E refuses \in {FALSE} \cup {TRUE : m \in {Top.at} \cap Refusable} :
         Continue(obj, IF refuses THEN [Return EXCEPT ![Len(Return)].refused = TRUE] ELSE Return)
    /\ told' = [told EXCEPT ![w] = IF Top.at = "WM_DESTROY" THEN @ + 1 ELSE @]
    /\ nctold' = [nctold EXCEPT ![w] = IF Top.at = "WM_NCDESTROY" THEN @ + 1 ELSE @]
    /\ UNCHANGED <<win, hCurrentActiveWindow, hCurrentFocusWindow, crashed>>

----------------------------------------------------------------------------
Init ==
    /\ obj = [h \in Win |-> "none"]
    /\ win = [h \in {Root} \cup Win |-> NoWindow]
    /\ hCurrentActiveWindow = Null /\ hCurrentFocusWindow = Null
    /\ stack = <<>>
    /\ told = [h \in Win |-> 0] /\ nctold = [h \in Win |-> 0]
    /\ crashed = FALSE

Program ==
    /\ ProgramRuns
    /\ \/ \E kind \in {"overlapped", "popup", "child"}, p \in {Null} \cup Win, g \in BOOLEAN :
             CreateWindowEx(kind, p, g)
       \/ \E h \in Win : DestroyWindow(h)
       \/ \E h \in {Null} \cup Win : SetFocus(h)
       \/ \E h \in Win, p \in {Null} \cup Win : SetParent(h, p)
       \/ \E h \in Win, after \in HWND : SetWindowPos(h, after)

Run ==
    \/ ActivateChild \/ ActivateRaise \/ ActivateOrder \/ ActivateSwap \/ ActivateTell
    \/ SetWindowPosOrder
    \/ FocusTake \/ FocusTell
    \/ CreateInsert \/ CreateTell \/ CreateNotify
    \/ CreateShow \/ CreateSize \/ CreateReturn
    \/ DestroyNotify \/ DestroyHide \/ DestroyHidden \/ DestroyOwned
    \/ DestroyFocus \/ DestroyTell \/ DestroyUnlink
    \/ TellChildren \/ FreeChildren \/ FreeActive \/ FreeFocus \/ FreeTell \/ FreeHandle
    \/ ProcReturn

Next == Program \/ Run
Spec == Init /\ [][Next]_vars

----------------------------------------------------------------------------
(* Properties *)

\* Every variable has its type.
TypeOK ==
    /\ obj \in [Win -> {"none", "live", "marked", "gone"}]
    /\ \A h \in {Root} \cup Win :
         /\ win[h].kind \in {"overlapped", "popup", "child"}
         /\ {win[h].hWndParent, win[h].hWndOwner, win[h].hWndSibling, win[h].hWndChild,
             win[h].hWndLastChild, win[h].hWndGroup} \subseteq HWND
         /\ {win[h].group, win[h].visible} \subseteq BOOLEAN
    /\ {hCurrentActiveWindow, hCurrentFocusWindow} \subseteq HWND
    /\ \A i \in DOMAIN stack : stack[i].hWnd \in HWND /\ stack[i].next \in HWND
    /\ told \in [Win -> Nat] /\ nctold \in [Win -> Nat]
    /\ crashed \in BOOLEAN

\* Windows in the tree: from InsertAsLastSibling to RemoveFromList or FreeWindow.
InTree == Known \ (Entering \cup About({"FreeWindow"}))

\* The siblings from hWndChild on are the children of a window, each once, and
\* the list ends, whatever the window procedures called on the way; and no list
\* operation ever follows a null pointer, or a ring that does not come back
\* (GetWindow, RemoveFromList and InsertAsLastSibling test few of them).
WellLinked ==
    /\ TypeOK
    /\ ~crashed
    /\ \A p \in {Root} \cup InTree :
         LET list == Children(p) IN
         /\ ToSet(list) = {h \in InTree : ListParent(h) = p}
         /\ IF list = <<>> THEN win[p].hWndChild = Null ELSE win[Last(list)].hWndSibling = Null

\* The group links of a window's children form rings among these children,
\* and the last child, where the next one joins, is one of them.
GroupRings ==
    \A p \in {Root} \cup InTree :
        LET list == ToSet(Children(p)) IN
        /\ win[p].hWndLastChild \in {Null} \cup list
        /\ \A h \in list : InRing(h) /\ win[h].hWndGroup \in list

\* A window that FreeWindow has freed was told so: by one WM_DESTROY, and by
\* one WM_NCDESTROY after it.
ToldOnce ==
    \A h \in Win :
        /\ nctold[h] <= told[h] /\ told[h] <= 1
        /\ obj[h] \in {"marked", "gone"} => nctold[h] = 1

\* When DestroyWindow of a top-level window comes to the window itself, none of
\* the top-level windows it owns is left, however the walk over them was changed.
OwnedGoFirst ==
    \A i \in DOMAIN stack :
        stack[i].fn = "DestroyWindow" /\ stack[i].at \in {"focus", "tell", "unlink"}
            /\ win[stack[i].hWnd].kind # "child"
          => \A h \in InTree : win[h].kind # "child" => win[h].hWndOwner # stack[i].hWnd

\* The window that has the focus is there, in the middle of a call too, DefWindowProc's
\* own SetFocus included.
FocusIsThere == hCurrentFocusWindow \in {Null} \cup Known

\* DestroyWindow leaves no owned window, no focus and no activation of the window
\* behind: when it is over, hCurrentActiveWindow is a window that is there, or none.
NothingRemains ==
    /\ OwnedGoFirst /\ FocusIsThere
    /\ stack = <<>> => hCurrentActiveWindow \in {Null} \cup Known

\* FreeWindow leaves no child window in the tree without its parent, in the middle of a
\* call too, whatever window procedures do meanwhile.
NoOrphans == \A h \in InTree : win[h].kind = "child" => win[h].hWndParent \in Known

\* The children of each window in the tree.
Order == LET T == {Root} \cup InTree IN
         [p \in {Root} \cup Win |-> IF p \in T THEN Children(p) ELSE <<>>]

\* The links implement one ordered list per window: an operation moves, adds or
\* removes one window in them and leaves the order of all others alone.
Z == INSTANCE ZOrder WITH Window <- Win, Desktop <- Root, order <- Order
ImplementsZOrder == Z!Spec
=============================================================================
