\* Two start messages, for two roots or for the same, and room for one session.
SPECIFICATION Spec
CONSTANTS
    c1 = c1
    c2 = c2
    t1 = t1
    t2 = t2
    NoTask = NoTask
    Conns = {c1, c2}
    Starts = {t1, t2}
    Roots <- TwoStarts
    Messages <- NoMessage
    MaxSessions = 1
    EventBuffer = 1
    PipeSize = 1
    ReadsStdin = FALSE
    Ptys = {FALSE}
    MaxInputs = 0
    MaxGaps = 0
    MaxOutput = 0
INVARIANTS
    SessionsMatchConnections
CHECK_DEADLOCK FALSE
