\* Two commands, default names and --output, over two documents and a packet.
CONSTANTS
    Cmds = {c1, c2}
    Parts <- NameParts
    Documents <- TwoDocuments
    Received <- Bare
    Outputs <- OneDocument
    Texts = {t1, t2}
    Large = {t2}
    Empty = Empty
    Garbage = Garbage
    MaxSaves = 1
SPECIFICATION Spec
SYMMETRY Symmetry
INVARIANTS
    TypeOK
    OwnTexts
    QuietIsWhole
    LimitKept
CHECK_DEADLOCK FALSE
