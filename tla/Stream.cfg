\* A stream of four frames that stays below the last sequence number.
SPECIFICATION FairSpec
CONSTANTS
    MaxSeq = 5
    GapTimeout = 2
    Total = 4
INVARIANTS
    TypeOK
    InOrderOnce
    GapIffPending
    GapTimerMeasuresQuiet
PROPERTIES
    GapResolved
    ImplementsOrderedStream
