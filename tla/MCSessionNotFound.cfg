\* A sender whose keygen has not finished.
CONSTANTS
    Runs = {r1, r2}
    NoRun = NoRun
    KeyIds = {alice, bob}
    Passphrases = {}
    NoPass = NoPass
    Absent = Absent
    NotText = NotText
    NotBase64 = NotBase64
    WrongLength = WrongLength
    Empty = Empty
    LowOrder = LowOrder
    Blank = Blank
    Encs = {e1}
    Decs = {d1}
    Torn = Torn
    Padding = FALSE
SPECIFICATION TurnsSpec
INVARIANT NotFoundMeansRecipient
CHECK_DEADLOCK FALSE
