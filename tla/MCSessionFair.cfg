\* One keygen, an encryption and a decryption under one key id.
CONSTANTS
    Runs = {r1}
    NoRun = NoRun
    KeyIds = {alice}
    Passphrases = {p1, p2}
    NoPass = NoPass
    Absent = Absent
    NotText = NotText
    NotBase64 = NotBase64
    WrongLength = WrongLength
    Empty = Empty
    LowOrder = LowOrder
    Blank = Blank
    Encs = {e1}
    Decs = {d1}
    Torn = Torn
    Padding = TRUE
SPECIFICATION FairSessionSpec
INVARIANT UndisturbedEncrypts
PROPERTIES
    EveryCommandEnds
    Delivers
CHECK_DEADLOCK FALSE
