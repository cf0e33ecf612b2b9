\* Up to two changed fields, or any mixture of two packets; one goes from
\* alice to bob, the other anywhere; somebody may sign on the way.
CONSTANTS
    alice = alice
    bob = bob
    Ids = {alice, bob}
    First = First
    Second = Second
    Other = Other
    MaxEdits = 2
    Absent = Absent
    NotText = NotText
    NotBase64 = NotBase64
    WrongLength = WrongLength
    Empty = Empty
    LowOrder = LowOrder
    Blank = Blank
SPECIFICATION DeliverySpec
INVARIANT SignerIsSender
CHECK_DEADLOCK FALSE
