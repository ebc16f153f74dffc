\* A command that does not read its stdin and a full event buffer.
SPECIFICATION FairSpec
CONSTANTS
    c1 = c1
    c2 = c2
    t1 = t1
    t2 = t2
    NoTask = NoTask
    Conns = {c1}
    Starts = {t1}
    Roots <- OneStart
    Messages <- Typing
    MaxSessions = 1
    EventBuffer = 1
    PipeSize = 1
    ReadsStdin = FALSE
    Ptys = {FALSE}
    MaxInputs = 3
    MaxGaps = 0
    MaxOutput = 0
PROPERTIES
    PeerTimeoutNoticed
CHECK_DEADLOCK FALSE
