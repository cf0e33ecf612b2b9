\* A protected keygen, then an unprotected one without liboqs.
CONSTANTS
    Runs = {r1, r2}
    NoRun = NoRun
    KeyIds = {alice}
    Passphrases = {pp}
    NoPass = NoPass
    Absent = Absent
    NotText = NotText
    NotBase64 = NotBase64
    WrongLength = WrongLength
    Empty = Empty
    LowOrder = LowOrder
    Blank = Blank
    Encs = {e1}
    Decs = {d1}
    Torn = Torn
    Padding = FALSE
SPECIFICATION TurnsSpec
INVARIANT PromptSuffices
CHECK_DEADLOCK FALSE
