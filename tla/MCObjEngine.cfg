CONSTANTS
    BlockSize = 2
    MaxTags = 4
    Any = "0"
    Signatures <- MCSignatures
    KnownSigs <- MCKnownSigs
    SystemSigs <- MCSystemSigs
    HandleWords <- MCHandleWords
    MaxRefs = 2
SPECIFICATION Spec
INVARIANTS
    TypeOK
    FreeChain
    ReferencesCounted
PROPERTY ImplementsStore
CHECK_DEADLOCK FALSE
