\* One command, and a packet whose name ends in .dec.
CONSTANTS
    Cmds = {c1}
    Parts <- NameParts
    Documents <- OneDocument
    Received <- Dec
    Outputs <- OneDocument
    Texts = {t1, t2}
    Large = {t2}
    Empty = Empty
    Garbage = Garbage
    MaxSaves = 0
SPECIFICATION Spec
INVARIANT DecryptKeepsPacket
CHECK_DEADLOCK FALSE
