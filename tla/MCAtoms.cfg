\* The 16-bit index of a table can be used up, so the system may stop.
CHECK_DEADLOCK FALSE
SPECIFICATION Spec
CONSTANTS
    a = a
    bb = bb
    dddd = dddd
    MaxHeld = 2
    Name <- Names
    Number <- Numbers
    Size <- Sizes
    Hash <- Hashes
    MaxTable = 4
INVARIANTS
    TypeOK
    StringsApart
    HeldNamesString
    CountsHolders
PROPERTY
    ImplementsStore
