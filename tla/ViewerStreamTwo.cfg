SPECIFICATION ViewerSpec

CONSTANTS
    Viewers = {a, b}
    Paced = {a}
    MaxChanges = 2
    MaxMessages = 2

PROPERTY EveryViewerSeesTheChange

\* Changes and messages are bounded: a session that is up to date waits for ever.
CHECK_DEADLOCK FALSE
