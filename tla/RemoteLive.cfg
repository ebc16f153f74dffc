\* Fair scheduling, a command that reads its stdin and a buffer that does not fill.
SPECIFICATION FairSpec
CONSTANTS
    c1 = c1
    c2 = c2
    t1 = t1
    t2 = t2
    NoTask = NoTask
    Conns = {c1}
    Starts = {t1}
    Roots <- OneStart
    Messages <- WithoutGaps
    MaxSessions = 1
    EventBuffer = 5
    PipeSize = 1
    ReadsStdin = TRUE
    Ptys = {FALSE}
    MaxInputs = 2
    MaxGaps = 0
    MaxOutput = 1
PROPERTIES
    DeadCommandFreesSession
    EndedSessionStopsCommand
    PeerTimeoutNoticed
CHECK_DEADLOCK FALSE
