\* One elark, an elark kill beside it, and a daemon that may be stopped.
SPECIFICATION Spec
CONSTANTS
    r1 = r1
    k1 = k1
    Runs = {r1}
    Kills = {k1}
    Scripts <- Answers
    MaxInputs = 0
    CanStop = TRUE
    SocketSize = 1
    MaxSeq = 4
    GapTimeout = 1
INVARIANTS
    TypeOK
    ExitCodeAfterOutput
    NothingAfterEnd
    SessionsMatchConnections
CHECK_DEADLOCK FALSE
