\* Both modes, a message in two parts and the event of a bot that was added; the
\* bootstrap message and another request share the tenant token.
SPECIFICATION FairSpec
CONSTANTS
    message = message
    added = added
    bootstrap = bootstrap
    reply = reply
    NoEvent = NoEvent
    Requests = {bootstrap, reply}
    MaxTokens = 2
    EventIds = {message, added}
    Kind <- EachKind
    Parts <- EachParts
    Modes <- BothModes
    Bootstrap = bootstrap
INVARIANTS
    TypeOK
    AckedIsHandled
    RefusedOnlyIfRevoked
PROPERTIES
    GoodTokenKept
    EventsHandled
