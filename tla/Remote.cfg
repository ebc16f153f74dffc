\* One command with every kind of message.
SPECIFICATION Spec
CONSTANTS
    c1 = c1
    c2 = c2
    t1 = t1
    t2 = t2
    NoTask = NoTask
    Conns = {c1}
    Starts = {t1}
    Roots <- OneStart
    Messages <- AnyMessage
    MaxSessions = 1
    EventBuffer = 2
    PipeSize = 1
    ReadsStdin = TRUE
    Ptys = {FALSE, TRUE}
    MaxInputs = 2
    MaxGaps = 1
    MaxOutput = 1
INVARIANTS
    TypeOK
    SessionsMatchConnections
    NoOutputAfterExit
    OutputComplete
PROPERTIES
    KillHasReason
CHECK_DEADLOCK FALSE
