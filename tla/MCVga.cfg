SPECIFICATION VgaSpec
CONSTANTS
    COLS = 3
    ROWS = 2
    KRING = 3
    Pressed <- MCTyping
    Texts <- MCTexts
    MaxLens = {1, 3}
    Early = FALSE
INVARIANTS
    NoKeyWaits
    EchoShowsLine
PROPERTIES
    TextKept
    KeysAsTyped
