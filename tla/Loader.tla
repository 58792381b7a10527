------------------------------- MODULE Loader -------------------------------
(***************************************************************************)
(* The module table (windows/Module.c) and the loader of libraries and     *)
(* programs (windows/LoadLibrary.c, LoadModule.c, LoadDLL.c and            *)
(* win32/LoadPE.c).                                                        *)
(*                                                                         *)
(* A load is a C call that waits for others: for the loads of the modules  *)
(* it imports, for the message box that says that a file is missing and    *)
(* for the initialisation of the library.  Each load in progress is a      *)
(* frame on the stack of its task.  While a box is shown or initialisation *)
(* code runs, that code and the other tasks may call the loader too;       *)
(* nothing else comes between two steps of a load.  nested says that this  *)
(* has happened: some properties hold only until then.                     *)
(*                                                                         *)
(* What is read from a file is reduced to Kind and Imports.  The module    *)
(* name inside a file is that of the file, so that a name is a file here.  *)
(***************************************************************************)
EXTENDS Integers, Sequences, FiniteSets

CONSTANTS
    Task,
    File,
    Handle,         \* the HMODULEs the object engine gives out
    NoHandle,       \* 0
    Kind,           \* what the loader finds under the name of a file
    Imports,        \* the files it imports, in order
    MaxIndex,       \* size of lpModuleTable: 256
    MaxCalls        \* bounds how often programs load

\* Built into the library; a shared object of the host that brings its descriptor; a
\* 16-bit library with data of its own or without; a 16-bit program; a PE library; no
\* file; a 16-bit file that ends too early.
Kinds == {"builtin", "native", "dll", "code", "exe", "pe", "missing", "short"}

\* Only PE files import PE files.
ASSUME FileAssumption ==
    /\ Kind \in [File -> Kinds]
    /\ Imports \in [File -> Seq(File)]
    /\ \A f \in File : \A i \in 1 .. Len(Imports[f]) :
            Kind[Imports[f][i]] = "pe" => Kind[f] = "pe"
ASSUME TableAssumption ==
    /\ NoHandle \notin Handle \cup File
    /\ MaxIndex \in Nat \ {0}
    /\ MaxCalls \in Nat

VARIABLES
    lpModuleTable,  \* by index
    bModIndex,      \* the last index given out, a BYTE
    lpModuleHead,   \* the list of modules, newest first
    info,           \* the MODULEINFOs by handle
    stack,          \* loads in progress by task
    holds,          \* instances that programs got and have not freed, by module
    calls,          \* loads by programs so far
    wrapped,        \* history: bModIndex has passed its largest value
    nested,         \* history: the loader was called while a load waited
    halted          \* the process followed what is no pointer, or freed memory twice

tableVars == <<lpModuleTable, bModIndex, lpModuleHead, wrapped>>
vars == <<lpModuleTable, bModIndex, lpModuleHead, info, stack, holds, calls, wrapped, nested, halted>>

Index == 0 .. MaxIndex - 1

\* lpModIndex is what the imports were resolved to; pinned says that a reference to the
\* object is never released; hInst that there is an instance.
Module == [name : File, nRefCnt : Nat, bModIndex : Index, hInst : BOOLEAN,
           lpModIndex : Seq(Handle \cup {NoHandle}), pinned : BOOLEAN]

\* No object: the handle is free.
Blank == [name |-> NoHandle, nRefCnt |-> 0, bModIndex |-> 0, hInst |-> FALSE,
          lpModIndex |-> <<>>, pinned |-> FALSE]

Frame == [h : Handle, file : File, at : {"Imports", "Box", "Init"}]

----------------------------------------------------------------------------
\* The module table

Places == 1 .. Len(lpModuleHead)
Listed == {lpModuleHead[i] : i \in Places}

\* Mutant: a module counts only when it has its instance.
GetModuleHandleReady(f) ==
    LET found == {i \in Places : info[lpModuleHead[i]].name = f /\ info[lpModuleHead[i]].hInst}
    IN  IF found = {} THEN NoHandle
        ELSE lpModuleHead[CHOOSE i \in found : \A j \in found : i <= j]

\* The newest module of that name.
GetModuleHandle(f) ==
    LET found == {i \in Places : info[lpModuleHead[i]].name = f}
    IN  IF found = {} THEN NoHandle
        ELSE lpModuleHead[CHOOSE i \in found : \A j \in found : i <= j]

NextIndex == (bModIndex + 1) % MaxIndex

NewModuleEntry(h) ==
    /\ lpModuleTable' = [lpModuleTable EXCEPT ![NextIndex] = h]
    /\ bModIndex' = NextIndex
    /\ wrapped' = (wrapped \/ NextIndex = 0)
    /\ lpModuleHead' = <<h>> \o lpModuleHead

\* The module goes from the list, if it is still there.
Unlink(h) ==
    IF h \in Listed
    THEN LET i == CHOOSE i \in Places : lpModuleHead[i] = h
         IN  lpModuleHead' = SubSeq(lpModuleHead, 1, i - 1)
                               \o SubSeq(lpModuleHead, i + 1, Len(lpModuleHead))
    ELSE UNCHANGED lpModuleHead

\* Mutant: whatever module goes, the last index may be given out again.
FreeModuleEntryAny(h) ==
    /\ lpModuleTable' = [lpModuleTable EXCEPT ![info[h].bModIndex] = NoHandle]
    /\ bModIndex' = (bModIndex - 1) % MaxIndex
    /\ Unlink(h)
    /\ UNCHANGED wrapped

\* Mutant: the place in the index keeps the pointer.
FreeModuleEntryKept(h) ==
    /\ bModIndex' = IF bModIndex = info[h].bModIndex THEN (bModIndex - 1) % MaxIndex
                    ELSE bModIndex
    /\ Unlink(h)
    /\ UNCHANGED <<lpModuleTable, wrapped>>

\* The module goes from the index and the list; the last index can be used again.
FreeModuleEntry(h) ==
    /\ lpModuleTable' = [lpModuleTable EXCEPT ![info[h].bModIndex] = NoHandle]
    /\ bModIndex' = IF bModIndex = info[h].bModIndex THEN (bModIndex - 1) % MaxIndex
                    ELSE bModIndex
    /\ Unlink(h)
    /\ UNCHANGED wrapped

----------------------------------------------------------------------------
\* Loads in progress

Top(t)   == stack[t][Len(stack[t])]
Below(t) == SubSeq(stack[t], 1, Len(stack[t]) - 1)
At(t, place) == stack[t] # <<>> /\ Top(t).at = place

\* A load in progress has a pointer to its module.
Loading(h) == \E t \in Task : \E i \in 1 .. Len(stack[t]) : stack[t][i].h = h

\* A task that resolves imports does not give up control.
Free(t) == ~halted /\ \A u \in Task : At(u, "Imports") => u = t

\* TWIN_LoadFile returns the module r, and its instance if hInst, to what is on top of
\* the stack s: to a load that resolves imports or to a program.  A PE file needs the
\* instances of its imports and keeps a pointer to each; a 16-bit file notes a failure
\* and goes on.
Return(t, s, r, hInst, modules) ==
    LET f == s[Len(s)]
        resolved == [modules EXCEPT ![f.h].lpModIndex = Append(@, r)]
    IN  IF s = <<>> \/ f.at # "Imports"
        THEN /\ stack' = [stack EXCEPT ![t] = s]
             /\ info' = modules
             /\ holds' = IF hInst THEN [holds EXCEPT ![r] = @ + 1] ELSE holds
        ELSE /\ IF Kind[f.file] # "pe"
                THEN /\ stack' = [stack EXCEPT ![t] = s]
                     /\ info' = resolved
                ELSE IF hInst /\ modules[r] # Blank
                THEN /\ stack' = [stack EXCEPT ![t] = s]
                     /\ info' = [resolved EXCEPT ![r].pinned = TRUE]
                ELSE /\ stack' = [stack EXCEPT ![t] = [s EXCEPT ![Len(s)].at = "Box"]]
                     /\ info' = modules
             /\ UNCHANGED holds

\* What a module is like when its load first waits, and where that is.  A descriptor
\* and a PE file have got their instance and a count of one by then.
NewModule(f) ==
    LET early == Kind[f] \in {"builtin", "native", "pe"}
    IN  [Blank EXCEPT !.name = f, !.bModIndex = NextIndex,
                      !.nRefCnt = IF early THEN 1 ELSE 0,
                      !.hInst = early \/ Kind[f] = "code"]
FirstWait(f) ==
    CASE Kind[f] \in {"builtin", "native"} -> "Init"
      [] Kind[f] = "missing" -> "Box"
      [] OTHER -> "Imports"

\* Nothing of that name is listed: CreateModuleInstance, and the load goes on.
CreateModuleInstance(t, f) ==
    \E h \in Handle :
        /\ info[h] = Blank
        /\ NewModuleEntry(h)
        /\ info' = [info EXCEPT ![h] = NewModule(f)]
        /\ stack' = [stack EXCEPT ![t] = Append(@, [h |-> h, file |-> f, at |-> FirstWait(f)])]
        /\ UNCHANGED holds

\* TWIN_LoadFile on f, up to the first wait.
TWIN_LoadFile(t, f) ==
    LET old == GetModuleHandle(f)
    IN  IF old = NoHandle THEN CreateModuleInstance(t, f)
        ELSE /\ Return(t, stack[t], old, info[old].hInst, [info EXCEPT ![old].nRefCnt = @ + 1])
             /\ UNCHANGED tableVars

\* The object of h lives while it is listed or somebody has a pointer to it; the load
\* on top of a stack has given up its own.
Released(h) == IF h \in Listed \/ info[h].pinned THEN info[h] ELSE Blank

\* The load on top of t's stack fails: FreeModuleInstance, and 0 is returned.  If a
\* FreeLibrary made that call before, the name is freed twice, which ends the process
\* or goes unnoticed.
LoadFails(t) ==
    LET h == Top(t).h
        m == info[h]
    IN  /\ FreeModuleEntry(h)
        /\ halted' \in {FALSE, h \notin Listed}
        /\ Return(t, Below(t), NoHandle, FALSE,
                  [info EXCEPT ![h] = IF m.pinned THEN [m EXCEPT !.nRefCnt = @ + 1]
                                      ELSE Blank])

\* It succeeds with the count at n.  The number that a PE file returns is the instance
\* itself, and GetInstanceFromModule does not look for the module.
LoadEnds(t, n) ==
    LET h == Top(t).h
        m == Released(h)
    IN  /\ Return(t, Below(t), h, m.hInst \/ Kind[Top(t).file] = "pe",
                  [info EXCEPT ![h] = IF m = Blank THEN m ELSE [m EXCEPT !.nRefCnt = n]])
        /\ UNCHANGED tableVars

\* The shared object is there: its module is looked up once more, made if it is not
\* there, and gets the count 1.
NativeEnds(t) ==
    LET f == Top(t).file
        modules == [info EXCEPT ![Top(t).h] = Released(Top(t).h)]
        old == GetModuleHandle(f)
    IN  IF old # NoHandle
        THEN /\ Return(t, Below(t), old, info[old].hInst, [modules EXCEPT ![old].nRefCnt = 1])
             /\ UNCHANGED tableVars
        ELSE \E h \in Handle :
                /\ modules[h] = Blank
                /\ NewModuleEntry(h)
                /\ Return(t, Below(t), h, FALSE,
                          [modules EXCEPT ![h] = [Blank EXCEPT !.name = f, !.nRefCnt = 1,
                                                               !.bModIndex = NextIndex]])

----------------------------------------------------------------------------
Init ==
    /\ lpModuleTable = [i \in Index |-> NoHandle]
    /\ bModIndex = 0
    /\ lpModuleHead = <<>>
    /\ info = [h \in Handle |-> Blank]
    /\ stack = [t \in Task |-> <<>>]
    /\ holds = [h \in Handle |-> 0]
    /\ calls = 0
    /\ wrapped = FALSE
    /\ nested = FALSE
    /\ halted = FALSE

\* Programs call the loader, and so may initialisation code and what runs while a
\* message box is shown; a task that started a program waits for it to yield.
MayCall(t) ==
    /\ Free(t)
    /\ stack[t] # <<>> => Top(t).at # "Imports" /\ Kind[Top(t).file] # "exe"
    /\ nested' = (nested \/ \E u \in Task : stack[u] # <<>>)

Load(t, f) ==
    /\ MayCall(t)
    /\ calls < MaxCalls
    /\ calls' = calls + 1
    /\ TWIN_LoadFile(t, f)
    /\ UNCHANGED halted

\* Libraries are loaded, programs are started.
LoadLibrary(t, f) == Kind[f] # "exe" /\ Load(t, f)
LoadModule(t, f)  == Kind[f] = "exe" /\ Load(t, f)

\* FreeLibrary of an instance that a program has got and not freed yet; its module may
\* be another by now, or gone.
FreeLibrary(t, h) ==
    LET m == info[h]
    IN  /\ MayCall(t)
        /\ holds[h] > 0
        /\ holds' = [holds EXCEPT ![h] = @ - 1]
        /\ IF m.nRefCnt = 1
           THEN /\ FreeModuleEntry(h)
                /\ info' = [info EXCEPT ![h] = IF Loading(h) \/ m.pinned
                                               THEN [m EXCEPT !.nRefCnt = 0] ELSE Blank]
           ELSE /\ info' = IF m.nRefCnt = 0 THEN info ELSE [info EXCEPT ![h].nRefCnt = @ - 1]
                /\ UNCHANGED tableVars
        /\ UNCHANGED <<stack, calls, halted>>

\* The next import is loaded.
Import(t) ==
    LET f == Top(t)
        n == Len(info[f.h].lpModIndex) + 1
    IN  /\ Free(t)
        /\ At(t, "Imports")
        /\ n <= Len(Imports[f.file])
        /\ TWIN_LoadFile(t, Imports[f.file][n])
        /\ UNCHANGED <<calls, nested, halted>>

\* All imports were tried.  A 16-bit module that lacks one fails; else its segments
\* are read and relocated, which follows the handles of the imports.
ImportsDone(t) ==
    LET f == Top(t)
        resolved == info[f.h].lpModIndex
        lacking == \E i \in 1 .. Len(resolved) : resolved[i] = NoHandle
        dead == \E i \in 1 .. Len(resolved) : info[resolved[i]] = Blank
    IN  /\ Free(t)
        /\ At(t, "Imports")
        /\ Len(resolved) = Len(Imports[f.file])
        /\ IF lacking
           THEN LoadFails(t)
           ELSE /\ IF Kind[f.file] = "short"
                   THEN /\ stack' = [stack EXCEPT ![t][Len(stack[t])].at = "Box"]
                        /\ UNCHANGED info
                   ELSE /\ stack' = [stack EXCEPT ![t][Len(stack[t])].at = "Init"]
                        /\ info' = [info EXCEPT ![f.h].hInst = TRUE]
                /\ halted' = (Kind[f.file] # "pe" /\ dead)
                /\ UNCHANGED <<tableVars, holds>>
        /\ UNCHANGED <<calls, nested>>

\* The message box is closed.  The error number that a file cut short gives is taken
\* for a module handle by the caller.
BoxCloses(t) ==
    /\ Free(t)
    /\ At(t, "Box")
    /\ IF Kind[Top(t).file] = "short"
       THEN halted' = TRUE /\ UNCHANGED <<tableVars, info, stack, holds>>
       ELSE LoadFails(t)
    /\ UNCHANGED <<calls, nested>>

\* Mutant: the load of a file is not counted.
InitReturnsUncounted(t) ==
    /\ Free(t)
    /\ At(t, "Init")
    /\ IF Kind[Top(t).file] = "native" THEN NativeEnds(t)
       ELSE LoadEnds(t, info[Top(t).h].nRefCnt)
    /\ UNCHANGED <<calls, nested, halted>>

\* The initialisation is over, or the program that was started has yielded.  A load
\* from a file is counted now, that of a descriptor was counted before.
InitReturns(t) ==
    LET n == info[Top(t).h].nRefCnt
    IN  /\ Free(t)
        /\ At(t, "Init")
        /\ CASE Kind[Top(t).file] = "native" -> NativeEnds(t)
             [] Kind[Top(t).file] = "builtin" -> LoadEnds(t, n)
             [] OTHER -> LoadEnds(t, n + 1)
        /\ UNCHANGED <<calls, nested, halted>>

Next ==
    \E t \in Task :
        \/ \E f \in File : LoadLibrary(t, f) \/ LoadModule(t, f)
        \/ \E h \in Handle : FreeLibrary(t, h)
        \/ Import(t) \/ ImportsDone(t) \/ BoxCloses(t) \/ InitReturns(t)

Spec == Init /\ [][Next]_vars

----------------------------------------------------------------------------
(* Properties *)

TypeOK ==
    /\ lpModuleTable \in [Index -> Handle \cup {NoHandle}]
    /\ bModIndex \in Index
    /\ lpModuleHead \in Seq(Handle)
    /\ info \in [Handle -> Module \cup {Blank}]
    /\ stack \in [Task -> Seq(Frame)]
    /\ holds \in [Handle -> Nat]
    /\ calls \in 0 .. MaxCalls
    /\ wrapped \in BOOLEAN
    /\ nested \in BOOLEAN
    /\ halted \in BOOLEAN

PointersLive ==
    /\ \A h \in Listed : info[h] # Blank
    /\ \A i \in Index : lpModuleTable[i] # NoHandle =>
            lpModuleTable[i] \in Listed /\ info[lpModuleTable[i]].bModIndex = i

\* What the list and the index of modules lead to exists: GetModuleHandle,
\* FreeModuleEntry and the searches by selector follow these pointers.  Whoever loads
\* and frees while loads wait, and when indices are used again, no object goes that
\* is still listed, the index stays within the table, and it names only listed modules,
\* each at its own place.
TableLive == TypeOK /\ PointersLive

\* A file is listed once, also when it is asked for again while its load, or that of
\* a module it imports, is not done.
NamesOnce ==
    \A i, j \in Places : info[lpModuleHead[i]].name = info[lpModuleHead[j]].name => i = j

\* The index of a selector (GetModuleFromIndex) finds the module it was given to, until
\* the byte wraps: indices of modules that go out of order are not used again.  Holds
\* until something is loaded or freed while a load waits.
IndexFinds ==
    ~nested /\ ~wrapped => \A h \in Listed : lpModuleTable[info[h].bModIndex] = h

\* Imports that lead back to a file whose load is in progress find its module, half
\* loaded as it is: no load waits for another load of its file, and so loads within
\* loads come to an end.  Holds until something is loaded or freed while a load waits.
LoadedOnceAtATime ==
    ~nested => \A t \in Task : \A i, j \in 1 .. Len(stack[t]) :
                  stack[t][i].file = stack[t][j].file => i = j

Bindings(h) ==
    {b \in Listed \X UNION {DOMAIN info[g].lpModIndex : g \in Listed} :
        /\ b[2] \in DOMAIN info[b[1]].lpModIndex
        /\ info[b[1]].lpModIndex[b[2]] = h}

\* A module that programs hold, or to which other modules are bound, is there and has a
\* reference for each of them.  A binding never goes away, and neither does its count: a
\* module with imports that is unloaded leaves them loaded.  Holds until something is
\* loaded or freed while a load waits, and if no module of a cycle lacks an import.
UsersCounted ==
    ~nested /\ ~halted => \A h \in Handle :
        LET users == holds[h] + Cardinality(Bindings(h))
        IN  users > 0 => h \in Listed /\ info[h].nRefCnt >= users
=============================================================================
