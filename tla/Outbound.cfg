\* One connection whose batches are sent concurrently, fail and come back, and
\* that sends heartbeats; fair scheduling.
SPECIFICATION FairSpec
CONSTANTS
    NoFlush = NoFlush
    Conns = {c1}
    Jobs = {}
    Cooldown = 1
    Interval = 2
    BatchLimit = 2
    MaxFrames = 3
    MaxAge = 0
    MaxFailures = 2
INVARIANTS
    TypeOK
    NothingLost
    OnePlace
    InFlightCounts
    NoLostWakeup
PROPERTIES
    FramesGetPosted
    CloseEnds
    ImplementsReplyQueue
