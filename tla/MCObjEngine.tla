---------------------------- MODULE MCObjEngine -----------------------------
(***************************************************************************)
(* A table of two blocks of two tags, objects of two kinds: brushes, which *)
(* may be marked as the system's, and list boxes, which are also menus.    *)
(***************************************************************************)
EXTENDS ObjEngine

MLBRUSH == [cat |-> "G", typ |-> "B"]
MLLBOX  == [cat |-> "U", typ |-> "L"]
MLATOM  == [cat |-> "K", typ |-> "A"]
MLGDI   == [cat |-> "G", typ |-> "0"]      \* LOCKGDI and UNLOCKGDI
NoSig   == [cat |-> "0", typ |-> "0"]      \* RELEASEINFO

MCSignatures == {MLBRUSH, MLLBOX, MLATOM, MLGDI, NoSig}
MCKnownSigs  == {MLBRUSH, MLLBOX}
MCSystemSigs == {MLBRUSH}

\* Every tag's handle, the null handle, which has no OM_MASK, and a handle whose
\* block does not exist.
MCHandleWords ==
    {Handle(t) : t \in 0 .. MaxTags - 1} \cup {0, Handle(MaxTags + 1)}
=============================================================================
