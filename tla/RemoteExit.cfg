\* A command in a terminal, and a client that says nothing.
SPECIFICATION Spec
CONSTANTS
    c1 = c1
    c2 = c2
    t1 = t1
    t2 = t2
    NoTask = NoTask
    Conns = {c1}
    Starts = {t1}
    Roots <- OneStart
    Messages <- NoMessage
    MaxSessions = 1
    EventBuffer = 2
    PipeSize = 1
    ReadsStdin = TRUE
    Ptys = {TRUE}
    MaxInputs = 0
    MaxGaps = 0
    MaxOutput = 1
INVARIANTS
    ExitCodeReported
CHECK_DEADLOCK FALSE
