\* One elark, nobody who kills its connection, and a daemon that may be stopped.
SPECIFICATION FairSpec
CONSTANTS
    r1 = r1
    k1 = k1
    Runs = {r1}
    Kills = {}
    Scripts <- Exits
    MaxInputs = 1
    CanStop = TRUE
    SocketSize = 1
    MaxSeq = 3
    GapTimeout = 1
INVARIANTS
    InterruptReported
PROPERTIES
    InterruptReachesRemote
    MutexReleased
    ElarkIsTold
    StopCompletes
CHECK_DEADLOCK FALSE
