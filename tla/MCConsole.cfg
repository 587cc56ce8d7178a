SPECIFICATION Spec
CONSTANTS
    RING = 3
    HMAX = 2
    HLEN = 3
    Readers = {r1}
    MaxLens = {1, 2}
    Keyboards <- MCKeyboards
INVARIANT LineFits
PROPERTIES HistoryIsRecent LiveLineKept Answered
