CONSTANTS
    Runs = {r1, r2}
    NoRun = NoRun
    KeyIds = {alice}
    Passphrases = {pp}
    NoPass = NoPass
SPECIFICATION Spec
INVARIANT GeneratePersistsAPair
CHECK_DEADLOCK FALSE
