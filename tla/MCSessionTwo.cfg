\* Two keygens, an encryption and a decryption under two key ids.
CONSTANTS
    Runs = {r1, r2}
    NoRun = NoRun
    KeyIds = {alice, bob}
    Passphrases = {}
    NoPass = NoPass
    Absent = Absent
    NotText = NotText
    NotBase64 = NotBase64
    WrongLength = WrongLength
    Empty = Empty
    LowOrder = LowOrder
    Blank = Blank
    Encs = {e1}
    Decs = {d1}
    Torn = Torn
    Padding = FALSE
SPECIFICATION TurnsSpec
SYMMETRY KeySymmetry
INVARIANT UndisturbedEncrypts
PROPERTY ImplementsMail
CHECK_DEADLOCK FALSE
