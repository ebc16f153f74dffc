\* A chat with two connections and a caller that opens a root; fair scheduling.
SPECIFICATION FairSpec
CONSTANTS
    NoFlush = NoFlush
    Conns = {c1, c2}
    Jobs = {j1}
    Cooldown = 1
    Interval = 0
    BatchLimit = 1
    MaxFrames = 1
    MaxAge = 1
    MaxFailures = 1
PROPERTIES
    CooldownKept
    OpenRootAnswered
