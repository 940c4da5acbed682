SPECIFICATION FairSpec
CONSTANTS
    serv = serv
    curl = curl
    o1 = o1
    s1 = s1
    NoWorker = NoWorker
    Ours = {o1}
    Strays = {s1}
    Pollers = {serv}
    Callers = {curl}
    MaxBlock = 3
    MaxCrash = 1
    MaxReorg = 1
INVARIANTS
    TypeOK
    ScannedUnlessSkipped
    ReturnedOnceUnlessSkipped
PROPERTIES
    NoSecondRowInNewBlock
    EventuallyRecorded
CHECK_DEADLOCK FALSE
