CONSTANTS
    Runs = {r1}
    NoRun = NoRun
    KeyIds = {alice}
    Passphrases = {}
    NoPass = NoPass
SPECIFICATION Spec
INVARIANT PrivateCreatedClosed
CHECK_DEADLOCK FALSE
