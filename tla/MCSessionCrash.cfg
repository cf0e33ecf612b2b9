\* Two keygens, an encryption and a decryption under one key id.
CONSTANTS
    Runs = {r1, r2}
    NoRun = NoRun
    KeyIds = {alice}
    Passphrases = {pp}
    NoPass = NoPass
    Absent = Absent
    NotText = NotText
    NotBase64 = NotBase64
    WrongLength = WrongLength
    Empty = Empty
    LowOrder = LowOrder
    Blank = Blank
    Encs = {e1}
    Decs = {d1}
    Torn = Torn
    Padding = FALSE
SPECIFICATION CrashSpec
SYMMETRY Symmetry
INVARIANTS
    SessionTypeOK
    OutputImpliesMatchingKeys
    RefusalLeavesOutput
    UndisturbedReadable
CHECK_DEADLOCK FALSE
