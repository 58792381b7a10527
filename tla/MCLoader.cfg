CONSTANTS
    dllA = dllA
    codeB = codeB
    builtinC = builtinC
    exeE = exeE
    nativeN = nativeN
    peP = peP
    shortS = shortS
    missingX = missingX
    t1 = t1
    t2 = t2
    h1 = h1
    h2 = h2
    h3 = h3
    h4 = h4
    h5 = h5
    NoHandle = NoHandle
    Task = {t1, t2}
    File <- Files
    Kind <- FileKind
    Imports <- FileImports
    Handle = {h1, h2, h3, h4, h5}
    MaxIndex = 4
    MaxCalls = 4
SPECIFICATION Spec
INVARIANTS
    TableLive
    NamesOnce
    IndexFinds
    LoadedOnceAtATime
    UsersCounted
SYMMETRY Symmetry
CHECK_DEADLOCK FALSE
