\* Two runs of one key id in every interleaving, overlapping or in turns.
CONSTANTS
    Runs = {r1, r2}
    NoRun = NoRun
    KeyIds = {alice}
    Passphrases = {pp}
    NoPass = NoPass
SPECIFICATION OverlapSpec
INVARIANTS
    TypeOK
    CompletedRunInstalled
    PrivateBeforePublic
    MatchedPairs
    ModeSettled
    EmptyMeansUnfinished
    GarbledMeansOverlap
    UmaskMeansUnfinished
CHECK_DEADLOCK FALSE
