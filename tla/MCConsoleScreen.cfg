SPECIFICATION ScreenSpec
CONSTANTS
    RING = 3
    HMAX = 1
    HLEN = 3
    Readers = {r1}
    MaxLens = {3}
    Keyboards <- MCEndKeys
    Prompt <- MCPrompt
INVARIANT ScreenShowsLine
PROPERTY RingIsQueue
