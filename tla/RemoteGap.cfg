\* The error of a gap timeout is posted before its connection is marked.
SPECIFICATION FairSpec
CONSTANTS
    c1 = c1
    c2 = c2
    t1 = t1
    t2 = t2
    NoTask = NoTask
    Conns = {c1}
    Starts = {t1}
    Roots <- OneStart
    Messages <- NoMessage
    MaxSessions = 1
    EventBuffer = 2
    PipeSize = 1
    ReadsStdin = TRUE
    Ptys = {FALSE}
    MaxInputs = 0
    MaxGaps = 1
    MaxOutput = 0
PROPERTIES
    GapTimeoutCleansUp
CHECK_DEADLOCK FALSE
